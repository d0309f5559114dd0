--------------------------- MODULE MCGroupCapture ---------------------------
(* An instance of GroupCapture: groups of two domains of each kind, and    *)
(* two clients.                                                            *)
EXTENDS GroupCapture

CONSTANTS one, two

Raw(name, rate, depth, windows) ==
  [name |-> name, rle |-> FALSE, rate |-> rate, depth |-> depth, max_length |-> depth,
   max_windows |-> windows, spw |-> 1, wps |-> 1, crossed |-> FALSE, latency |-> 0]
Rle(name, rate, depth) ==
  [name |-> name, rle |-> TRUE, rate |-> rate, depth |-> depth, spw |-> 1, wps |-> 1,
   crossed |-> TRUE, latency |-> 1]

Fast == Raw("fast", 2, 8, 2)
Packed == [Raw("packed", 3, 8, 2) EXCEPT !.spw = 2]
Wide == [Raw("wide", 1, 4, 2) EXCEPT !.wps = 2]
Far == [Raw("far", 3, 6, 1) EXCEPT !.crossed = TRUE, !.max_length = 5]
Unclocked == Raw("unclocked", 0, 4, 1)
Runs == Rle("runs", 1, 4)
PackedRuns == [Rle("packed runs", 2, 4) EXCEPT !.spw = 2, !.crossed = FALSE]

Plain(op) == [op |-> op, fields |-> <<>>, overrides |-> <<>>]
For(op, fields) == [op |-> op, fields |-> fields, overrides |-> <<>>]
Span(seconds, pre) == [seconds |-> seconds, pre_seconds |-> pre]
Twice(seconds) == [seconds |-> seconds, pre_seconds |-> 2, windows |-> 2]
Own(m, params) == [op |-> "own", m |-> m, params |-> params, overrides |-> <<>>]

Two(a, b) == one :> a @@ two :> b
Use(members, ofOne, ofTwo, budget, failures) ==
  [members |-> members, calls |-> Two(ofOne, ofTwo), budget |-> budget, failures |-> failures,
   tries |-> 2, max_burst |-> 2]

(* A fast and a crossed domain, one window.                                *)
Crossing ==
  Use(<<Far, Fast>>,
      {For("capture", Span(12, 5)), For("arm", Span(4, 2))},
      {Plain("read"), Plain("poll"), Plain("abort")}, 3, 0)
(* Two windows, of domains of one clock; slots that share words.           *)
Slots ==
  Use(<<Packed, Wide>>,
      {For("capture", Twice(4)), For("arm", Span(8, 1))},
      {Plain("read"), Plain("poll"), For("read", [windows |-> 2])}, 2, 0)
(* Run-length and raw.                                                     *)
Mixed ==
  Use(<<Runs, Fast>>,
      {For("arm", [seconds |-> 6, pre_seconds |-> 2, pre_lines |-> 2]), For("arm", Twice(6)),
       For("arm", [seconds |-> 12, pre_lines |-> 5]), For("capture", [seconds |-> 5]),
       [For("arm", Span(6, 2)) EXCEPT !.overrides = [runs |-> [pre_lines |-> 4]]]},
      {Plain("read"), Plain("poll")}, 2, 0)
(* A ring that ends inside a word, aborted.                                *)
Ring ==
  Use(<<PackedRuns>>,
      {For("arm", [seconds |-> 6, pre_lines |-> 1]), For("arm", [pre_lines |-> 3])},
      {Plain("read"), Plain("abort")}, 3, 0)
(* Refusals, of the group and of one member after another was armed.       *)
Refused ==
  Use(<<Fast, Unclocked, Far>>,
      {For("arm", Span(4, 0)), [For("arm", Span(4, 0)) EXCEPT !.overrides = [unclocked |-> [count |-> 2]]],
       [For("arm", Twice(4)) EXCEPT !.overrides = [unclocked |-> [count |-> 2]]],
       [For("arm", Span(4, 0)) EXCEPT !.overrides = [unclocked |-> [count |-> 2, pretrigger |-> 2]]],
       For("arm", Span(4, 4)), [For("arm", Span(4, 0)) EXCEPT !.overrides = [other |-> [count |-> 1]]]},
      {Plain("read"), For("read", Span(4, 0)), Plain("poll")}, 3, 0)
(* The link fails once.                                                    *)
Failing ==
  Use(<<Fast, Far>>,
      {For("capture", Span(4, 2)), For("arm", Span(4, 0)), Own(2, [count |-> 3, windows |-> 1, pretrigger |-> 0])},
      {Plain("poll"), For("read", Span(4, 0))}, 2, 1)

PassingUses == {Crossing, Slots, Mixed, Ring, Refused, Failing}

(* Two windows, with a crossed domain.                                     *)
CrossedWindows ==
  {Use(<<[Far EXCEPT !.max_windows = 2, !.rate = 1], Fast>>, {For("capture", Twice(4))}, {}, 1, 0)}

(* A capture over one that still runs.                                    *)
Rearms == {Use(<<Fast, Far>>, {For("capture", Span(4, 2)), For("arm", Span(8, 1))}, {}, 2, 0)}
=============================================================================
