--------------------------- MODULE CaptureControl ---------------------------
(***************************************************************************)
(* The register block in front of a capture core,                          *)
(* control/capture_control.vhd: COMMAND becomes one-cycle arm and abort    *)
(* pulses, the configuration is held, and the head of each completed       *)
(* window is stored in order.                                              *)
(***************************************************************************)
EXTENDS Integers

CONSTANT HeadSlots      \* window_count_c, entries of the head array

ASSUME HeadSlotsAssumption == HeadSlots \in Nat \ {0}

VARIABLES
  arm_s, abort_s,       \* the pulses, one clock after the write
  config,               \* CAPTURE_LEN, PRE_TRIGGER_LEN and WINDOW_COUNT
  heads, head_wr        \* the head array and its write index

controlVars == <<arm_s, abort_s, config, heads, head_wr>>

(* What the bus does in a clock.  The host writes the three configuration  *)
(* registers in one burst, which is one access here.                       *)
NoAccess == [op |-> "none"]
CommandArm == [op |-> "arm"]
CommandAbort == [op |-> "abort"]
WriteConfig(c) == [op |-> "config", value |-> c]

WriteRegs(access) ==
  /\ arm_s' = (access.op = "arm")
  /\ abort_s' = (access.op = "abort")
  /\ config' = IF access.op = "config" THEN access.value ELSE config

(* arm_s clears the index before a head of the same clock can be stored.   *)
HeadStore(head_we, head) ==
  IF arm_s THEN head_wr' = 0 /\ UNCHANGED heads
  ELSE IF head_we /\ head_wr < HeadSlots
  THEN heads' = [heads EXCEPT ![head_wr] = head] /\ head_wr' = head_wr + 1
  ELSE UNCHANGED <<heads, head_wr>>

(* Out of reset.  The array carries none and is read only below head_wr.   *)
ResetConfig == [capture_len |-> 0, pre_trigger_len |-> 0, window_count |-> 1]

ControlInit ==
  /\ arm_s = FALSE /\ abort_s = FALSE
  /\ config = ResetConfig
  /\ heads = [w \in 0..HeadSlots-1 |-> 0]
  /\ head_wr = 0
============================================================================
