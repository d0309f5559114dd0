--------------------------- MODULE TriggerControl ---------------------------
(***************************************************************************)
(* The trigger blocks of the logic analyzer.  The value block              *)
(* (control/trigger_control.vhd) compares the sample of this clock; the    *)
(* edge block (control/trigger_control_edge.vhd) registers the sample and  *)
(* its predecessor first.  Value, mask and the probed bits are abstracted  *)
(* to one Boolean per sample: it satisfies the configured condition.       *)
(***************************************************************************)
EXTENDS Integers

VARIABLES
  trigger,   \* trigger_o, the one-cycle tick
  fired,     \* fired_s: no second tick until enable drops
  raw,       \* raw_reg_s/delayed_s: the previous sample was a match
  en1, en2   \* enable_i of the two previous clocks

triggerVars == <<trigger, fired, raw, en1, en2>>

(* Cycles between a sample and the tick it causes: control.pkg's           *)
(* trigger_control_latency_c and trigger_control_edge_latency_c.           *)
BlockLatencyShort(edge) == IF edge THEN 1 ELSE 0   \* mutant: one cycle short
BlockLatency(edge) == IF edge THEN 2 ELSE 1

TriggerInit == trigger = FALSE /\ fired = FALSE /\ raw = FALSE /\ en1 = FALSE /\ en2 = FALSE

FireAgain(enable, match) ==   \* mutant: no hold-off
  /\ trigger' = (enable /\ match)
  /\ fired' = FALSE

FireOnce(enable, match) ==   \* mutant: enable does not re-arm
  /\ trigger' = (enable /\ match /\ ~fired)
  /\ fired' = (fired \/ (enable /\ match))

(* The tick and its hold-off, given that the compare matches.              *)
Fire(enable, match) ==
  /\ trigger' = (enable /\ match /\ ~fired)
  /\ fired' = (enable /\ (match \/ fired))

(* Process match of the value block.                                       *)
MatchValue(enable, matched) ==
  /\ Fire(enable, matched)
  /\ UNCHANGED <<raw, en1, en2>>

MatchEdgeAtOnce(enable, matched) ==   \* mutant: the history is not gated
  /\ Fire(enable, raw)
  /\ raw' = matched
  /\ en1' = enable
  /\ en2' = en1

(* Process match of the edge block: the condition of a sample spans it and *)
(* the one before, so both must have been taken while enabled.             *)
MatchEdge(enable, matched) ==
  /\ Fire(enable, raw /\ en1 /\ en2)
  /\ raw' = matched
  /\ en1' = enable
  /\ en2' = en1

Match(edge, enable, matched) ==
  IF edge THEN MatchEdge(enable, matched) ELSE MatchValue(enable, matched)
============================================================================
