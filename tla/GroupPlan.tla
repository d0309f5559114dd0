------------------------------ MODULE GroupPlan ------------------------------
(***************************************************************************)
(* What a correlated group computes without touching the hardware: the     *)
(* parameters of each member for a window given in real time (la/plan.py), *)
(* the words a readback moves (la/blocks/buffer), and where the samples of *)
(* several members go on one time axis (la/compose.py).                    *)
(*                                                                         *)
(* Durations are in quarters of a unit of time, rates in samples per unit. *)
(* A member is a record: name, rle, rate (0 unknown), depth, max_length,   *)
(* max_windows, spw (samples per word), wps (words per sample).            *)
(***************************************************************************)
EXTENDS Integers, Sequences, SequencesExt, FiniteSets

CONSTANTS None, CycleLimit

Least(a, b) == IF a < b THEN a ELSE b
Smallest(S) == CHOOSE n \in S : \A k \in S : n <= k

(* Python's round: to the nearest, halves to the even one.                 *)
Rounded(duration, rate) ==
  LET n == duration * rate
      q == n \div 4
  IN CASE n % 4 < 2 -> q [] n % 4 > 2 -> q + 1 [] OTHER -> q + (q % 2)
----------------------------------------------------------------------------
(* GroupWindow: seconds (or None), pre_seconds, windows, pre_lines.        *)

LegalWindow(w) ==
  /\ w.seconds # None => w.seconds > 0 /\ w.pre_seconds < w.seconds
  /\ w.pre_seconds >= 0 /\ w.windows >= 1 /\ w.pre_lines >= 0

DefaultWindow == [seconds |-> None, pre_seconds |-> 0, windows |-> 1, pre_lines |-> 0]

(* A window with the given fields replaced.                                *)
Merged(base, fields) ==
  [f \in DOMAIN base |-> IF f \in DOMAIN fields /\ fields[f] # None THEN fields[f] ELSE base[f]]

Override(params, by) == [f \in DOMAIN params \union DOMAIN by |-> IF f \in DOMAIN by THEN by[f] ELSE params[f]]

(* Control.max_samples.                                                    *)
MaxSamples(m, windows) == Least(m.max_length, m.depth \div windows)

PostSeconds(w) == IF w.seconds = None THEN 0 ELSE w.seconds - w.pre_seconds

RawRefused(m, w, override) ==
  "count" \notin DOMAIN override /\ (m.rate = 0 \/ w.seconds = None \/ Rounded(w.seconds, m.rate) < 1)

RawParams(m, w, override) ==
  LET count == Least(Rounded(w.seconds, m.rate), MaxSamples(m, w.windows))
  IN IF "count" \in DOMAIN override
     THEN Override([windows |-> w.windows, pretrigger |-> 0], override)
     ELSE Override([windows |-> w.windows, count |-> count,
                    pretrigger |-> Least(Rounded(w.pre_seconds, m.rate), count - 1)], override)

(* __divergence: what is captured is not what was asked.                   *)
RawNotes(m, w, params) ==
  IF m.rate = 0 \/ w.seconds = None THEN {}
  ELSE (IF params.count # Rounded(w.seconds, m.rate) THEN {"count"} ELSE {})
       \union (IF params.pretrigger # Rounded(w.pre_seconds, m.rate) THEN {"pretrigger"} ELSE {})

RleRefused(m, w) == PostSeconds(w) # 0 /\ m.rate = 0
RleParamsToDepth(m, w, override) ==   \* mutant: a ring of the whole buffer
  Override([pre_lines |-> Least(w.pre_lines, m.depth), max_seconds |-> PostSeconds(w)], override)
RleParams(m, w, override) ==
  Override([pre_lines |-> Least(w.pre_lines, m.depth - 1), max_seconds |-> PostSeconds(w)], override)
RleNotes(m, w) == IF w.pre_lines >= m.depth THEN {"pre_lines"} ELSE {}

OverrideOf(overrides, m) == IF m.name \in DOMAIN overrides THEN overrides[m.name] ELSE <<>>

(* GroupWindow.resolve: refused for the whole group, or every member's     *)
(* parameters.                                                             *)
PlanRefused(w, controls, overrides) ==
  \/ ~LegalWindow(w)
  \/ ~(DOMAIN overrides \subseteq {m.name : m \in ToSet(controls)})
  \/ w.windows > 1 /\ \E m \in ToSet(controls) : m.rle
  \/ \E m \in ToSet(controls) :
       IF m.rle THEN RleRefused(m, w) ELSE RawRefused(m, w, OverrideOf(overrides, m))

Plan(w, controls, overrides) ==
  [i \in DOMAIN controls |->
     LET m == controls[i] IN
       IF m.rle THEN RleParams(m, w, OverrideOf(overrides, m))
       ELSE RawParams(m, w, OverrideOf(overrides, m))]

(* Control.validate_capture and RleControl.validate_capture.               *)
ValidCapture(m, p) ==
  IF m.rle
  THEN /\ p.pre_lines \in 0..m.depth-1 /\ p.max_seconds >= 0
       /\ m.rate # 0 => Rounded(p.max_seconds, m.rate) < CycleLimit
  ELSE /\ p.count >= 1 /\ p.count <= m.max_length
       /\ p.windows \in 1..m.max_windows
       /\ p.count * p.windows <= m.depth
       /\ p.pretrigger >= 0 /\ p.pretrigger < p.count
----------------------------------------------------------------------------
(* Buffer: the words of a transfer.                                        *)

TransferWords(m, start, count) ==
  IF count <= 0 THEN 0
  ELSE IF m.wps > 1 THEN count * m.wps
  ELSE (start + count - 1) \div m.spw - start \div m.spw + 1

(* read_contiguous: the words it does read, from the first sample's to the *)
(* last one's.                                                             *)
MovedWords(m, start, count) ==
  LET words == IF m.wps > 1 THEN count * m.wps
               ELSE (start + count - 1) \div m.spw - start \div m.spw + 1
  IN IF words < 0 THEN 0 ELSE words

(* Buffer.read_window: the slot a head is in.                              *)
Slot(head, count) == (head \div count) * count

(* __transfer: a region in bursts, full ones first.                        *)
Bursts(words, max_burst) ==
  [k \in 1..((words + max_burst - 1) \div max_burst) |-> Least(max_burst, words - (k - 1) * max_burst)]

(* The regions of a readback, as <<start, count>>: the slot of each window *)
(* of a raw member; the whole ring of a run-length one, when it has any,   *)
(* and its post region up to the end pointer.                              *)
RawRegions(heads, count) == [w \in DOMAIN heads |-> <<Slot(heads[w], count), count>>]
RleRegions(pre_lines, end) ==
  (IF pre_lines = 0 THEN <<>> ELSE <<<<0, pre_lines>>>>) \o <<<<pre_lines, end - pre_lines>>>>
PlannedWords(m, regions) ==
  LET upTo[k \in 0..Len(regions)] ==
        IF k = 0 THEN 0 ELSE upTo[k - 1] + TransferWords(m, regions[k][1], regions[k][2])
  IN upTo[Len(regions)]
PlannedBursts(m, regions, max_burst) ==
  LET upTo[k \in 0..Len(regions)] ==
        IF k = 0 THEN <<>> ELSE upTo[k - 1] \o Bursts(MovedWords(m, regions[k][1], regions[k][2]), max_burst)
  IN upTo[Len(regions)]
----------------------------------------------------------------------------
(* ComposedTrace.  A trace is a record: period, and either windows (the    *)
(* lengths) and trigger, or runs (the dwells), trigger_run and latency.    *)

Total(s) == FoldLeft(+, 0, s)
IsRle(t) == "runs" \in DOMAIN t
WindowCount(t) == IF IsRle(t) THEN 1 ELSE Len(t.windows)

RleTrigger(t) == Total(SubSeq(t.runs, 1, t.trigger_run)) - t.latency

(* The cycle of each sample, or run, from the trigger; and where the last  *)
(* one stops holding.                                                      *)
Events(t, w) ==
  IF IsRle(t) THEN [i \in DOMAIN t.runs |-> Total(SubSeq(t.runs, 1, i - 1)) - RleTrigger(t)]
  ELSE [i \in 1..t.windows[w] |-> i - 1 - t.trigger]
End(t, w) ==
  IF IsRle(t) THEN Total(t.runs) - RleTrigger(t) ELSE t.windows[w] - t.trigger

Composable(traces) ==
  /\ traces # <<>> /\ \A i \in DOMAIN traces : traces[i].period # 0
  /\ Cardinality({WindowCount(traces[i]) : i \in DOMAIN traces}) = 1

Largest(S) == CHOOSE n \in S : \A k \in S : k <= n

PlaceWindow(placed, ticks, end) ==
  LET origin == placed.end - Smallest(ticks)
  IN [triggers |-> Append(placed.triggers, origin), end |-> origin + end]

(* The tick of each window's trigger, and of the end of the trace.         *)
Composed(traces) ==
  LET Ticks(w) == UNION {{Events(traces[i], w)[k] * traces[i].period : k \in DOMAIN Events(traces[i], w)} :
                           i \in DOMAIN traces}
      Ends(w) == Largest({End(traces[i], w) * traces[i].period : i \in DOMAIN traces})
  IN FoldLeft(LAMBDA placed, w : PlaceWindow(placed, Ticks(w), Ends(w)),
              [triggers |-> <<>>, end |-> 0], [w \in 1..WindowCount(traces[1]) |-> w])

(* When an event of the composed trace is, in ticks.                       *)
TickOf(traces, i, w, k) == Composed(traces).triggers[w] + Events(traces[i], w)[k] * traces[i].period
==============================================================================
