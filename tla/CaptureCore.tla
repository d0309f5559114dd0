---------------------------- MODULE CaptureCore ----------------------------
(***************************************************************************)
(* The logic-analyzer capture core, capture/capture_core.vhd: it owns the  *)
(* write pointer of the trace buffer and fills window_count slots of       *)
(* capture_len samples, each rolling inside its slot until a trigger is    *)
(* accepted.  One step of Step is one rising edge of the capture clock;    *)
(* its parameters are the inputs sampled at that edge.                     *)
(*                                                                         *)
(* The data of a sample is abstracted to its age: mem[a] is the number of  *)
(* samples its window has taken since the one held by address a.  Ages     *)
(* stop when the window completes, so the window reads back in time order  *)
(* exactly when its ages count down to 0.                                  *)
(***************************************************************************)
EXTENDS Integers

CONSTANTS
  Depth,     \* words of the trace buffer, 2**depth_l2_c
  Latency,   \* trigger_latency_c
  Configs    \* the configurations the host arms with

(* Control.validate_capture, together with the register widths: the window *)
(* holds the trigger sample, and the slots fit the buffer.                 *)
LegalConfigs ==
  {c \in [capture_len : 1..Depth, pre_trigger_len : 0..Depth, window_count : 1..Depth] :
     /\ c.pre_trigger_len < c.capture_len
     /\ c.capture_len * c.window_count <= Depth}

ASSUME DepthAssumption == Depth \in Nat \ {0}
ASSUME LatencyAssumption == Latency \in 0..Depth
ASSUME ConfigsAssumption == Configs \subseteq LegalConfigs

VARIABLES
  state,        \* "IDLE", "ARMED" or "CAPTURING"
  triggered,    \* a window was accepted since the arm
  cfg,          \* the configuration latched by the arm
  window_idx,   \* the window being filled
  pre_count,    \* history kept so far, saturating at Back
  samples_rem,  \* samples left to write after this one's
  offset,       \* the write pointer, inside the slot
  slot_base,    \* first address of the slot
  head_offset,  \* offset of the oldest sample kept, set by the trigger
  mem           \* the trace buffer: ages, or Stale

regs == <<state, triggered, cfg, window_idx, pre_count, samples_rem,
          offset, slot_base, head_offset>>

Stale == -1     \* a sample of an earlier acquisition
Addresses == 0..Depth-1
States == {"IDLE", "ARMED", "CAPTURING"}

(* Registers are capture_len_width_c = depth_l2_c + 1 bits wide, addresses *)
(* depth_l2_c bits.                                                        *)
Reg(n) == n % (2 * Depth)
Addr(n) == n % Depth
----------------------------------------------------------------------------
(* Combinational signals.                                                  *)

Back == Reg(cfg.pre_trigger_len + Latency)
PostTotalExclusive == Reg(cfg.capture_len - cfg.pre_trigger_len - 1)   \* mutant
PostTotal == Reg(cfg.capture_len - cfg.pre_trigger_len)
Ready == state = "ARMED" /\ pre_count >= cfg.pre_trigger_len
WriteAddrInBuffer == Addr(offset)   \* mutant: every window in the first slot
WriteAddr == Addr(slot_base + offset)

HeadOffAtTick ==   \* mutant: the trigger sample is the tick's
  IF offset >= cfg.pre_trigger_len THEN offset - cfg.pre_trigger_len
  ELSE Reg(offset - cfg.pre_trigger_len + cfg.capture_len)

HeadOff ==
  IF offset >= Back THEN offset - Back ELSE Reg(offset - Back + cfg.capture_len)

Accepts(abort, trigger) ==
  state = "ARMED" /\ ~abort /\ trigger /\ pre_count >= Back

AcceptsWhole == PostTotal <= Latency + 1   \* the window is already full

(* head_we_o and head_o.                                                   *)
HeadWe(abort, trigger) ==
  \/ Accepts(abort, trigger) /\ AcceptsWhole
  \/ state = "CAPTURING" /\ ~abort /\ samples_rem = 1

HeadO == Addr(slot_base + Addr(IF state = "ARMED" THEN HeadOff ELSE head_offset))
----------------------------------------------------------------------------
(* The write side of the buffer, trace/trace_buffer.vhd: every clock spent *)
(* ARMED or CAPTURING stores one sample.  An age never needs to grow past  *)
(* Depth.                                                                  *)
Slot == {a \in Addresses : slot_base <= a /\ a < slot_base + cfg.capture_len}

WriteSample ==
  mem' = [a \in Addresses |->
            IF a = WriteAddr THEN 0
            ELSE IF a \in Slot /\ mem[a] # Stale /\ mem[a] < Depth THEN mem[a] + 1
            ELSE mem[a]]

NextOffset == IF offset = Reg(cfg.capture_len - 1) THEN 0 ELSE Reg(offset + 1)
NextPreCountUnbounded == pre_count + 1   \* mutant
NextPreCount == IF pre_count < Back THEN pre_count + 1 ELSE pre_count

CompleteOneMore ==   \* mutant: <= for <
  IF Reg(window_idx + 1) <= cfg.window_count
  THEN /\ window_idx' = Reg(window_idx + 1)
       /\ slot_base' = Addr(slot_base + cfg.capture_len)
       /\ offset' = 0 /\ pre_count' = 0 /\ state' = "ARMED"
  ELSE /\ state' = "IDLE" /\ offset' = NextOffset
       /\ UNCHANGED <<window_idx, slot_base, pre_count>>

(* A window is full: the next slot is armed, or the core is done.          *)
CompleteWindow ==
  IF Reg(window_idx + 1) < cfg.window_count
  THEN /\ window_idx' = Reg(window_idx + 1)
       /\ slot_base' = Addr(slot_base + cfg.capture_len)
       /\ offset' = 0
       /\ pre_count' = 0
       /\ state' = "ARMED"
  ELSE /\ state' = "IDLE"
       /\ offset' = NextOffset
       /\ pre_count' = IF state = "ARMED" THEN NextPreCount ELSE pre_count
       /\ UNCHANGED <<window_idx, slot_base>>
----------------------------------------------------------------------------
(* One action per branch of the transition process.                        *)

Idle(arm) ==
  /\ state = "IDLE" /\ ~arm
  /\ UNCHANGED <<regs, mem>>

(* The buffer is not cleared: what it holds is from now on of an earlier   *)
(* acquisition.                                                            *)
Arm(arm, c) ==
  /\ state = "IDLE" /\ arm
  /\ state' = "ARMED"
  /\ triggered' = FALSE
  /\ cfg' = c
  /\ window_idx' = 0
  /\ slot_base' = 0
  /\ offset' = 0
  /\ pre_count' = 0
  /\ mem' = [a \in Addresses |-> Stale]
  /\ UNCHANGED <<samples_rem, head_offset>>

Abort(abort) ==
  /\ state # "IDLE" /\ abort
  /\ WriteSample
  /\ offset' = NextOffset
  /\ pre_count' = IF state = "ARMED" THEN NextPreCount ELSE pre_count
  /\ state' = "IDLE"
  /\ UNCHANGED <<triggered, cfg, window_idx, samples_rem, slot_base, head_offset>>

Fill(abort, trigger) ==
  /\ state = "ARMED" /\ ~abort /\ ~Accepts(abort, trigger)
  /\ WriteSample
  /\ offset' = NextOffset
  /\ pre_count' = NextPreCount
  /\ UNCHANGED <<state, triggered, cfg, window_idx, samples_rem, slot_base, head_offset>>

Accept(abort, trigger) ==
  /\ Accepts(abort, trigger) /\ ~AcceptsWhole
  /\ WriteSample
  /\ offset' = NextOffset
  /\ pre_count' = NextPreCount
  /\ triggered' = TRUE
  /\ head_offset' = HeadOff
  /\ samples_rem' = Reg(PostTotal - 1 - Latency)
  /\ state' = "CAPTURING"
  /\ UNCHANGED <<cfg, window_idx, slot_base>>

AcceptAndComplete(abort, trigger) ==
  /\ Accepts(abort, trigger) /\ AcceptsWhole
  /\ WriteSample
  /\ triggered' = TRUE
  /\ head_offset' = HeadOff
  /\ CompleteWindow
  /\ UNCHANGED <<cfg, samples_rem>>

Capture(abort) ==
  /\ state = "CAPTURING" /\ ~abort /\ samples_rem # 1
  /\ WriteSample
  /\ offset' = NextOffset
  /\ samples_rem' = Reg(samples_rem - 1)
  /\ UNCHANGED <<state, triggered, cfg, window_idx, pre_count, slot_base, head_offset>>

CaptureLast(abort) ==
  /\ state = "CAPTURING" /\ ~abort /\ samples_rem = 1
  /\ WriteSample
  /\ CompleteWindow
  /\ UNCHANGED <<triggered, cfg, samples_rem, head_offset>>

Step(arm, abort, trigger, c) ==
  \/ Idle(arm)
  \/ Arm(arm, c)
  \/ Abort(abort)
  \/ Fill(abort, trigger)
  \/ Accept(abort, trigger)
  \/ AcceptAndComplete(abort, trigger)
  \/ Capture(abort)
  \/ CaptureLast(abort)

(* Reset clears state and triggered; the other registers carry none, and   *)
(* the arm loads each of them before it is used.                           *)
CoreInit ==
  /\ state = "IDLE"
  /\ triggered = FALSE
  /\ cfg \in Configs
  /\ window_idx = 0 /\ pre_count = 0 /\ samples_rem = 0 /\ offset = 0
  /\ slot_base = 0 /\ head_offset = 0
  /\ mem = [a \in Addresses |-> Stale]
============================================================================
