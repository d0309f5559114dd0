--------------------------- MODULE MCControlStatus ---------------------------
(* Instances of ControlStatus: panels of one or two words.                 *)
EXTENDS ControlStatus

CONSTANTS a, b, c, x, y

Panel(tick_out, tick_in, control, counter_mod, calls) ==
  [tick_out |-> tick_out, tick_in |-> tick_in, control |-> control,
   counter_mod |-> counter_mod, direct |-> FALSE, calls |-> calls]

(* A word of two ticks and one of one; inputs in words of their own.       *)
StrobePanel == Panel(<<{a, b}, {c}>>, <<>>, {a}, 1, {"strobe", "control"})
StickyPanel == Panel(<<>>, <<{x}, {y}>>, {}, 1, {"poll", "reset"})
CountPanel == Panel(<<>>, <<{x}>>, {}, 4, {"reset"})
DirectPanel ==
  [Panel(<<{a, b}, {c}>>, <<{x}>>, {}, 4, {"strobe", "poll", "reset"}) EXCEPT !.direct = TRUE]

EveryPanel == {StrobePanel, StickyPanel, CountPanel, DirectPanel}
StrobeOnly == {StrobePanel}
==============================================================================
