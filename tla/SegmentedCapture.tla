-------------------------- MODULE SegmentedCapture --------------------------
(***************************************************************************)
(* What a raw capture promises its reader, without a clock, a write        *)
(* pointer or a buffer: after an arm, windows complete one at a time and   *)
(* in order, up to the number armed for; each is the sequence of samples   *)
(* around its own trigger, oldest first, with the trigger sample at index  *)
(* pre_trigger_len; and a completed window stays as it is until the next   *)
(* arm.  A sample is written as its distance from the trigger sample.      *)
(***************************************************************************)
EXTENDS Integers, Sequences

CONSTANT Configs

VARIABLES
  busy,      \* an acquisition is under way
  plan,      \* what it was armed with
  windows    \* the windows it has completed

captureVars == <<busy, plan, windows>>

PerfectWindow(c) == [i \in 1..c.capture_len |-> i - 1 - c.pre_trigger_len]

Init == busy = FALSE /\ plan \in Configs /\ windows = <<>>

Arm ==
  /\ ~busy
  /\ busy' = TRUE
  /\ plan' \in Configs
  /\ windows' = <<>>

Complete ==
  /\ busy
  /\ windows' = Append(windows, PerfectWindow(plan))
  /\ busy' = (Len(windows') < plan.window_count)
  /\ UNCHANGED plan

Abort ==
  /\ busy
  /\ busy' = FALSE
  /\ UNCHANGED <<plan, windows>>

Next == Arm \/ Complete \/ Abort

Spec == Init /\ [][Next]_captureVars
============================================================================
