---------------------------- MODULE ControlStatus ----------------------------
(***************************************************************************)
(* A control/status panel: the register shell on the host clock, the event *)
(* core on the panel's own, the crossings the generator puts between them  *)
(* and the driver's calls.  Either clock may tick at any time, both may at *)
(* once, and the host's may stop; with one clock for both the crossings    *)
(* are wires.                                                              *)
(***************************************************************************)
EXTENDS Integers, Sequences

CONSTANTS
  TickLatency,   \* panel clocks through interdomain_tick
  Spaced,        \* the host writes far from any use: crossings are at rest
  MaxOwed,       \* bound: strobes written and not fired
  Panels         \* the instances checked, and what is done with them:
                 \*   tick_out, tick_in  words: sequences of sets of ticks
                 \*   control            the bits of a control word
                 \*   counter_mod        2^tick_counter_width_c
                 \*   direct             shell and core share their clock
                 \*   calls              the calls the driver makes

ASSUME PanelsAssumption ==
  \A p \in Panels :
    /\ \A w \in {p.tick_out, p.tick_in} :
         \A i, j \in DOMAIN w : i # j => w[i] \intersect w[j] = {}
    /\ p.counter_mod \in Nat \ {0} /\ p.direct \in BOOLEAN
    /\ p.calls \subseteq {"strobe", "poll", "reset", "control"}
ASSUME LatencyAssumption == TickLatency \in Nat \ {0}
ASSUME SpacedAssumption == Spaced \in BOOLEAN

VARIABLES
  panel,         \* the instance, for ever
  shell,         \* the registers of the shell
  accessing,     \* the bus is in the access phase of a write
  out_x, clr_x,  \* the mask and strobe crossings of tick outputs and clears
  up,            \* sticky bits and counters, crossing to the host's domain
  user,          \* the control word, crossing to the user's logic
  core,          \* the registers of the core
  todo,          \* register writes the current driver call has left
  report,        \* the last poll's sticky bits, until they are acknowledged
  owed,          \* history: masks of strobes written, not fired
  fired,         \* history: the mask owed to the panel's latest clock
  pending,       \* history: events no clear naming them has landed on
  named,         \* history: bits clears were written for that have not landed
  due            \* history: events each counter has to show since its rebase

hardware == <<shell, accessing, out_x, clr_x, up, user, core>>
history == <<owed, fired, pending, named, due>>
vars == <<panel, hardware, todo, report, history>>

Words(w) == {w[i] : i \in DOMAIN w}
Outputs == UNION Words(panel.tick_out)
Inputs == UNION Words(panel.tick_in)
Zero == [t \in Inputs |-> 0]

(* The writes that name ticks, one per packed word that has one of them.   *)
Masks(reg, words, names) ==
  {w \in {[reg |-> reg, word |-> i, value |-> names \intersect words[i]] : i \in DOMAIN words} :
     w.value # {}}

(* They are made in word order, a reset's clears before its rebases.       *)
Before(v, w) ==
  \/ v.reg = w.reg /\ v.word < w.word
  \/ v.reg = "STICKY_CLEAR" /\ w.reg = "COUNTER_CLEAR"
----------------------------------------------------------------------------
(* The shell.                                                              *)

NoWrite == [reg |-> "none"]

Crossed == IF panel.direct THEN core.counter ELSE up.counter[2]
Visible(t) == (Crossed[t] - shell.base[t]) % panel.counter_mod

(* The other words of the mask are cleared: one strobe serves them all.    *)
MaskOf(mask, words, w) == w.value

RebaseToZero(s, w) ==   \* mutant: the counter itself is never cleared
  [s EXCEPT !.base = [t \in Inputs |-> IF t \in w.value THEN 0 ELSE @[t]]]
Rebase(s, w) ==
  [s EXCEPT !.base = [t \in Inputs |-> IF t \in w.value THEN Crossed[t] ELSE @[t]]]

StrobesFirstWord(w) == w.reg = "TICK_OUT" /\ w.word = 1   \* mutant
Strobes(w) == w.reg = "TICK_OUT"

(* Strobes last one clock.                                                 *)
Written(w) ==
  LET s == [shell EXCEPT !.strobe = Strobes(w),
                         !.clear_strobe = (w.reg = "STICKY_CLEAR")]
  IN CASE w.reg = "none" -> s
       [] w.reg = "TICK_OUT" -> [s EXCEPT !.mask = MaskOf(@, panel.tick_out, w)]
       [] w.reg = "STICKY_CLEAR" -> [s EXCEPT !.clear = MaskOf(@, panel.tick_in, w)]
       [] w.reg = "COUNTER_CLEAR" -> Rebase(s, w)
       [] w.reg = "CONTROL" -> [s EXCEPT !.control = w.value]
----------------------------------------------------------------------------
(* The crossings: a mask held in a static register, its strobe a toggle    *)
(* that the panel's clock turns back into a pulse TickLatency clocks on.   *)

CrossInit ==
  [mask |-> {}, toggle |-> FALSE, seen |-> FALSE,
   pulse |-> [i \in 1..TickLatency |-> FALSE]]

Launch(x, mask, strobe) == [x EXCEPT !.mask = mask, !.toggle = @ # strobe]

Sample(x, toggle) ==
  [x EXCEPT !.seen = toggle,
            !.pulse = [i \in 1..TickLatency |->
                         IF i = 1 THEN toggle # x.seen ELSE x.pulse[i-1]]]

Landed(x) == x.pulse[TickLatency]
AtRest(x) == x.toggle = x.seen /\ \A i \in 1..TickLatency : ~x.pulse[i]

(* What the bits of a word may read as while it changes from a to b.       *)
Torn(a, b) == {s \in SUBSET (a \union b) : a \intersect b \subseteq s}

CrossUp ==
  [sticky |-> <<core.sticky, up.sticky[1]>>, counter |-> <<core.counter, up.counter[1]>>]
----------------------------------------------------------------------------
(* The core.  An event that meets the clear is kept.                       *)

ClearWins(strobe, clear, events) ==   \* mutant
  IF strobe THEN (core.sticky \union events) \ clear ELSE core.sticky \union events
SetWins(strobe, clear, events) ==
  (IF strobe THEN core.sticky \ clear ELSE core.sticky) \union events

TicksHeld(strobe, mask) == IF strobe THEN mask ELSE core.tick_out   \* mutant
TicksFor(strobe, mask) == IF strobe THEN mask ELSE {}

Count(n) == (n + 1) % panel.counter_mod

CoreEdge(strobe, mask, clear_strobe, clear, events) ==
  /\ core' = [tick_out |-> TicksFor(strobe, mask),
              sticky |-> SetWins(clear_strobe, clear, events),
              counter |-> [t \in Inputs |->
                             IF t \in events THEN Count(core.counter[t])
                             ELSE core.counter[t]]]
  /\ fired' = IF strobe /\ owed # <<>> THEN Head(owed) ELSE {}
  /\ pending' = (IF clear_strobe THEN pending \ named ELSE pending) \union events
----------------------------------------------------------------------------
(* The edges of the two clocks.                                            *)

MayWrite(w) ==
  w = NoWrite \/
  (/\ ~accessing /\ w \in todo /\ \A v \in todo : ~Before(v, w)
   /\ Len(owed) < MaxOwed
   /\ Spaced /\ ~panel.direct => AtRest(out_x) /\ AtRest(clr_x)
                           /\ ~shell.strobe /\ ~shell.clear_strobe)

HostEdge(w) ==
  /\ MayWrite(w)
  /\ shell' = Written(w)
  /\ accessing' = (w # NoWrite)
  /\ todo' = todo \ {w}
  /\ UNCHANGED report

(* The history of what a write asked for and of what has landed of it.     *)
Owes(w, landed) ==
  LET left == IF landed /\ owed # <<>> THEN Tail(owed) ELSE owed
  IN owed' = IF w.reg = "TICK_OUT" THEN Append(left, w.value) ELSE left
Names(w, cleared) ==
  LET open == IF cleared THEN {} ELSE named
  IN named' = IF w.reg = "STICKY_CLEAR" THEN open \union w.value ELSE open
IsDue(w, events) ==
  LET InFlight(t) == (core.counter[t] - Crossed[t]) % panel.counter_mod
  IN due' = [t \in Inputs |->
               ((IF w.reg = "COUNTER_CLEAR" /\ t \in w.value THEN InFlight(t) ELSE due[t])
                + IF t \in events THEN 1 ELSE 0) % panel.counter_mod]
Asked(w, landed, cleared, events) == Owes(w, landed) /\ Names(w, cleared) /\ IsDue(w, events)

Writes == {NoWrite} \union todo

HostClock ==
  /\ ~panel.direct
  /\ \E w \in Writes : HostEdge(w) /\ Asked(w, FALSE, FALSE, {})
  /\ out_x' = Launch(out_x, shell.mask, shell.strobe)
  /\ clr_x' = Launch(clr_x, shell.clear, shell.clear_strobe)
  /\ up' = CrossUp
  /\ UNCHANGED <<user, core, fired, pending>>

CoreClock ==
  /\ ~panel.direct
  /\ \E events \in SUBSET Inputs :
       /\ CoreEdge(Landed(out_x), out_x.mask, Landed(clr_x), clr_x.mask, events)
       /\ Asked(NoWrite, Landed(out_x), Landed(clr_x), events)
  /\ out_x' = Sample(out_x, out_x.toggle)
  /\ clr_x' = Sample(clr_x, clr_x.toggle)
  /\ user' = <<shell.control, user[1]>>
  /\ UNCHANGED <<shell, accessing, up, todo, report>>

(* Both edges at once: every bit that changes crosses as it was or will be. *)
BothClocks ==
  /\ ~panel.direct
  /\ LET out == Launch(out_x, shell.mask, shell.strobe)
         clr == Launch(clr_x, shell.clear, shell.clear_strobe)
     IN \E w \in Writes, events \in SUBSET Inputs,
           mask \in Torn(out_x.mask, out.mask), clear \in Torn(clr_x.mask, clr.mask) :
          /\ HostEdge(w)
          /\ CoreEdge(Landed(out_x), mask, Landed(clr_x), clear, events)
          /\ Asked(w, Landed(out_x), Landed(clr_x), events)
          /\ \E t \in {out_x.toggle, out.toggle} : out_x' = Sample(out, t)
          /\ \E t \in {clr_x.toggle, clr.toggle} : clr_x' = Sample(clr, t)
          /\ \E c \in Torn(shell.control, Written(w).control) : user' = <<c, user[1]>>
          /\ up' = CrossUp

(* One clock for both halves.                                              *)
OneClock ==
  /\ panel.direct
  /\ \E w \in Writes, events \in SUBSET Inputs :
       /\ HostEdge(w)
       /\ CoreEdge(shell.strobe, shell.mask, shell.clear_strobe, shell.clear, events)
       /\ Asked(w, shell.strobe, shell.clear_strobe, events)
  /\ UNCHANGED <<out_x, clr_x, up, user>>
----------------------------------------------------------------------------
(* The driver.  One call at a time; its writes follow on the bus.          *)

Call(kind, writes) ==
  /\ kind \in panel.calls /\ todo = {} /\ todo' = writes
  /\ UNCHANGED <<hardware, history>>

(* strobe() and strobe_each().                                             *)
Strobe ==
  \E names \in SUBSET Outputs \ {{}} :
    Call("strobe", Masks("TICK_OUT", panel.tick_out, names)) /\ UNCHANGED report

Reset ==
  \E names \in SUBSET Inputs \ {{}} :
    /\ Call("reset", Masks("STICKY_CLEAR", panel.tick_in, names)
                       \union Masks("COUNTER_CLEAR", panel.tick_in, names))
    /\ UNCHANGED report

Control ==
  \E value \in SUBSET panel.control :
    Call("control", {[reg |-> "CONTROL", word |-> 1, value |-> value]}) /\ UNCHANGED report

(* The panel's poll, and the acknowledgment of the bits it reported.       *)
StickySeen == IF panel.direct THEN core.sticky ELSE up.sticky[2]

Poll ==
  /\ "poll" \in panel.calls /\ todo = {} /\ report = {} /\ ~accessing
  /\ report' = StickySeen
  /\ UNCHANGED <<hardware, todo, history>>

Acknowledge ==
  /\ report # {}
  /\ Call("poll", Masks("STICKY_CLEAR", panel.tick_in, report))
  /\ report' = {}

Init ==
  /\ panel \in Panels
  /\ shell = [mask |-> {}, strobe |-> FALSE, clear |-> {}, clear_strobe |-> FALSE,
              base |-> Zero, control |-> {}]
  /\ accessing = FALSE
  /\ out_x = CrossInit /\ clr_x = CrossInit
  /\ up = [sticky |-> <<{}, {}>>, counter |-> <<Zero, Zero>>]
  /\ user = <<{}, {}>>
  /\ core = [tick_out |-> {}, sticky |-> {}, counter |-> Zero]
  /\ todo = {} /\ report = {}
  /\ owed = <<>> /\ fired = {} /\ pending = {} /\ named = {} /\ due = Zero

Next ==
  /\ \/ HostClock \/ CoreClock \/ BothClocks \/ OneClock
     \/ Strobe \/ Reset \/ Control \/ Poll \/ Acknowledge
  /\ UNCHANGED panel

Spec == Init /\ [][Next]_vars

(* The panel's clock is permanent; the host's may stop between accesses.   *)
FairSpec == Spec /\ WF_vars(CoreClock /\ UNCHANGED panel)
----------------------------------------------------------------------------
TypeOK ==
  /\ shell.mask \subseteq Outputs /\ shell.clear \subseteq Inputs
  /\ {shell.strobe, shell.clear_strobe, accessing} \subseteq BOOLEAN
  /\ shell.base \in [Inputs -> 0..panel.counter_mod-1] /\ shell.control \subseteq panel.control
  /\ core.tick_out \subseteq Outputs /\ core.sticky \subseteq Inputs
  /\ core.counter \in [Inputs -> 0..panel.counter_mod-1]

(* A strobe fires the ticks written, all of them in one cycle and once     *)
(* (doc/instrument/control_status.rst, "tick-out").                        *)
FiresAsWritten == core.tick_out = fired

(* Ticks of different words never fire together (same page).               *)
OneWord(ticks) == \E w \in Words(panel.tick_out) \union {{}} : ticks \subseteq w
WordsNeverTogether == OneWord(core.tick_out)

(* A sticky bit is set exactly while it has an event that no clear naming  *)
(* it has landed on: no event is cleared by a clear of another bit, and    *)
(* one that meets the clear is kept (doc/host/gui.rst, "tick input").      *)
StickyUntilNamed == core.sticky = pending

(* After a rebase, events still on their way to the host are counted.      *)
RebaseKeepsInFlight ==
  \A t \in Inputs :
    (Visible(t) + (core.counter[t] - Crossed[t])) % panel.counter_mod = due[t]

(* A strobe whose write is over fires, though the host's clock stops.      *)
StrobesFire == owed # <<>> /\ ~shell.strobe ~> owed = <<>>

----------------------------------------------------------------------------
(* The inductive invariant.                                                *)

Counters == [Inputs -> 0..panel.counter_mod-1]

Legal(w) ==
  \/ w.reg = "TICK_OUT" /\ OneWord(w.value)
  \/ w.reg \in {"STICKY_CLEAR", "COUNTER_CLEAR"} /\ w.value \subseteq Inputs
  \/ w.reg = "CONTROL" /\ w.value \subseteq panel.control

CrossType(ticks) ==
  [mask : SUBSET ticks, toggle : BOOLEAN, seen : BOOLEAN, pulse : [1..TickLatency -> BOOLEAN]]

Registers ==
  /\ panel \in Panels /\ accessing \in BOOLEAN
  /\ shell \in [mask : SUBSET Outputs, strobe : BOOLEAN, clear : SUBSET Inputs,
                clear_strobe : BOOLEAN, base : Counters, control : SUBSET panel.control]
  /\ out_x \in CrossType(Outputs) /\ clr_x \in CrossType(Inputs)
  /\ up.counter \in [1..2 -> Counters]
  /\ core \in [tick_out : SUBSET Outputs, sticky : SUBSET Inputs, counter : Counters]
  /\ \A w \in todo : Legal(w)
  /\ owed \in Seq(SUBSET Outputs) /\ due \in Counters

(* A crossing carries one strobe at most, and the mask it was written with. *)
InStep(strobe, mask, x) ==
  /\ strobe => AtRest(x)
  /\ x.toggle # x.seen => \A i \in 1..TickLatency : ~x.pulse[i]
  /\ \A i, j \in 1..TickLatency : x.pulse[i] /\ x.pulse[j] => i = j
  /\ ~AtRest(x) => x.mask = mask

UnderWay(strobe, x) == strobe \/ ~AtRest(x)

(* What the history owes is what is under way, in the shell or crossing.   *)
OutputsInStep ==
  /\ InStep(shell.strobe, shell.mask, out_x)
  /\ owed = IF UnderWay(shell.strobe, out_x) THEN <<shell.mask>> ELSE <<>>
ClearsInStep ==
  /\ InStep(shell.clear_strobe, shell.clear, clr_x)
  /\ named = IF UnderWay(shell.clear_strobe, clr_x) THEN shell.clear ELSE {}

(* The crossings of a panel on the host's clock are wires.                 *)
WiredAtRest == panel.direct => AtRest(out_x) /\ AtRest(clr_x)

CountsSinceBase ==
  \A t \in Inputs : due[t] = (core.counter[t] - shell.base[t]) % panel.counter_mod

IInv ==
  /\ Registers /\ WiredAtRest /\ CountsSinceBase
  /\ OneWord(shell.mask)
  /\ Spaced => /\ OutputsInStep /\ ClearsInStep
               /\ FiresAsWritten /\ StickyUntilNamed /\ WordsNeverTogether
----------------------------------------------------------------------------
(* The outputs: what fires is what was written, of one word at a time,     *)
(* whatever is under way between the clocks.                               *)
StrobesAsWritten == TypeOK /\ FiresAsWritten /\ WordsNeverTogether /\ IInv
==============================================================================
