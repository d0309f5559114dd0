--------------------------- MODULE CaptureWindows ---------------------------
(***************************************************************************)
(* The capture core by itself: its inputs are arbitrary at every clock,    *)
(* and a tick says that the sample taken Latency clocks earlier met the    *)
(* condition.  History variables record the heads it emits, as the host    *)
(* will find them, and the age of the trigger sample in each window.       *)
(***************************************************************************)
EXTENDS CaptureCore

VARIABLES
  done,     \* windows completed since the arm
  emitted,  \* head_o of each
  hit,      \* age of the trigger sample of the window being captured
  hits      \* that age in each completed window

coreVars == <<regs, mem, done, emitted, hit, hits>>

HitNow(abort, trigger) == IF Accepts(abort, trigger) THEN Latency ELSE hit + 1

NoHeads == [w \in Addresses |-> 0]

Record(arm, abort, trigger) ==
  /\ hit' = IF state' = "CAPTURING" THEN HitNow(abort, trigger) ELSE 0
  /\ IF HeadWe(abort, trigger)
     THEN /\ done' = done + 1
          /\ emitted' = [emitted EXCEPT ![done] = HeadO]
          /\ hits' = [hits EXCEPT ![done] = HitNow(abort, trigger)]
     ELSE IF state = "IDLE" /\ arm
     THEN done' = 0 /\ emitted' = NoHeads /\ hits' = NoHeads
     ELSE UNCHANGED <<done, emitted, hits>>

Init ==
  /\ CoreInit
  /\ done = 0 /\ hit = 0
  /\ emitted = NoHeads
  /\ hits = NoHeads

Next ==
  \E arm, abort, trigger \in BOOLEAN, c \in Configs :
    Step(arm, abort, trigger, c) /\ Record(arm, abort, trigger)

Spec == Init /\ [][Next]_coreVars
----------------------------------------------------------------------------
Busy == state \in {"ARMED", "CAPTURING"}
PastLatency == cfg.capture_len - cfg.pre_trigger_len > Latency
Wrap(n) == IF n < cfg.capture_len THEN n ELSE n - cfg.capture_len

TypeOK ==
  /\ state \in States /\ triggered \in BOOLEAN
  /\ cfg \in Configs
  /\ window_idx \in Addresses
  /\ pre_count \in 0..2*Depth-1 /\ samples_rem \in 0..Depth /\ offset \in Addresses
  /\ slot_base \in Addresses /\ head_offset \in 0..2*Depth-1
  /\ mem \in [Addresses -> Stale..Depth]
  /\ done \in 0..Depth /\ emitted \in [Addresses -> Addresses]
  /\ hit \in 0..Depth /\ hits \in [Addresses -> 0..Depth]

(* Whatever the inputs do, a sample is only ever written inside the slot   *)
(* of the window being filled, and no slot leaves the buffer: the segments *)
(* of capture/capture_core.vhd sit back to back.                           *)
SlotsInBuffer ==
  Busy => /\ slot_base = window_idx * cfg.capture_len
          /\ slot_base + cfg.capture_len <= Depth
          /\ offset < cfg.capture_len
          /\ WriteAddr \in Slot

(* The host reads capture_len samples from head_o, wrapping within the     *)
(* slot, and finds consecutive samples oldest first with the trigger       *)
(* sample at index pre_trigger_len, for every completed window and until   *)
(* the next arm -- provided the window reaches past the trigger's latency. *)
WindowsInOrder ==
  PastLatency =>
    \A w \in 0..done-1 :
      LET base == w * cfg.capture_len
          rot  == emitted[w] - base
      IN  /\ rot \in 0..cfg.capture_len-1
          /\ \A i \in 0..cfg.capture_len-1 :
               hits[w] - mem[base + Wrap(rot + i)] = i - cfg.pre_trigger_len
----------------------------------------------------------------------------
(* The inductive invariant.                                                *)

(* The head array and the slots agree on how many windows there are.       *)
Counting ==
  /\ Busy => done = window_idx /\ window_idx < cfg.window_count
  /\ done <= cfg.window_count
  /\ Busy => SlotsInBuffer

(* The age of the cell at offset o of the current slot, if it was written. *)
AgeAt(o) == IF o < offset THEN offset - 1 - o ELSE cfg.capture_len + offset - 1 - o

(* How much history the current slot is certain to hold.                   *)
Kept == IF state = "ARMED" THEN pre_count ELSE cfg.pre_trigger_len + hit + 1

CurrentSlot ==
  Busy => \A o \in 0..cfg.capture_len-1 :
            /\ mem[slot_base + o] \in {Stale, AgeAt(o)}
            /\ (o < offset \/ AgeAt(o) < Kept) => mem[slot_base + o] = AgeAt(o)

FutureSlots ==
  Busy => \A a \in Addresses : a >= slot_base + cfg.capture_len => mem[a] = Stale

Filling == state = "ARMED" => pre_count <= cfg.pre_trigger_len + Latency

(* After the trigger: the samples still to come complete the window, and   *)
(* head_offset is where the oldest sample to keep lies.                    *)
Capturing ==
  state = "CAPTURING" =>
    /\ PastLatency
    /\ hit >= Latency
    /\ samples_rem >= 1
    /\ samples_rem = cfg.capture_len - cfg.pre_trigger_len - 1 - hit
    /\ head_offset \in 0..cfg.capture_len-1
    /\ AgeAt(head_offset) = cfg.pre_trigger_len + hit

(* A completed window holds its samples in order from its head.            *)
InOrder(w) ==
  LET base == w * cfg.capture_len
      rot  == emitted[w] - base
  IN  /\ rot \in 0..cfg.capture_len-1
      /\ hits[w] = cfg.capture_len - cfg.pre_trigger_len - 1
      /\ \A i \in 0..cfg.capture_len-1 :
           mem[base + Wrap(rot + i)] = cfg.capture_len - 1 - i

CompletedSlots == PastLatency => \A w \in 0..done-1 : InOrder(w)

IInv ==
  TypeOK /\ Counting /\ CurrentSlot /\ FutureSlots /\ Filling /\ Capturing /\ CompletedSlots
=============================================================================
