---------------------------- MODULE CaptureBlock ----------------------------
(***************************************************************************)
(* A raw capture cluster in one clock domain, as the generator wires it:   *)
(* the control block's pulses and configuration drive the core, the core's *)
(* ready enables the trigger block, the tick returns to the core, and the  *)
(* heads of completed windows return to the control block.  Every step is  *)
(* one clock of all three.  The host writes registers between clocks of    *)
(* its choosing and reads the windows back with read_window.               *)
(***************************************************************************)
EXTENDS CaptureCore, TriggerControl, CaptureControl, Sequences

CONSTANTS
  Edge,        \* the trigger is an edge block
  Conditions   \* what a sample may be: {TRUE} is a match-all trigger

ASSUME LatencyMatchesBlock == Latency = BlockLatency(Edge)
ASSUME EdgeAssumption == Edge \in BOOLEAN
ASSUME ConditionsAssumption == Conditions \subseteq BOOLEAN

(* validate_capture: no more windows than the head array holds.            *)
ASSUME HeadsAssumption == \A c \in Configs : c.window_count <= HeadSlots

VARIABLES
  hit,         \* history: age of the sample that caused the last tick
  hits         \* history: that age in each completed window, as it completed

blockVars == <<regs, mem, triggerVars, controlVars, hit, hits>>

HeadWeNow == HeadWe(abort_s, trigger)

(* The sample that matches is this clock's for the value block, the        *)
(* previous one for the edge block.                                        *)
Older(age) == IF age < Depth THEN age + 1 ELSE age
MatchAge == IF Edge THEN 1 ELSE 0

NoHits == [w \in 0..HeadSlots-1 |-> 0]

TrackHits ==
  /\ hit' = IF trigger' THEN MatchAge ELSE Older(hit)
  /\ hits' = IF arm_s THEN NoHits
             ELSE IF HeadWeNow /\ head_wr < HeadSlots
             THEN [hits EXCEPT ![head_wr] = Older(hit)] ELSE hits

Clock(access, matched) ==
  /\ Step(arm_s, abort_s, trigger, config)
  /\ Match(Edge, Ready, matched)
  /\ WriteRegs(access)
  /\ HeadStore(HeadWeNow, HeadO)
  /\ TrackHits
----------------------------------------------------------------------------
(* What the host may do at a clock.  It configures, then arms, a control   *)
(* that reports idle; it may abort at any time.                            *)

HostMayArm == state = "IDLE" /\ ~arm_s

Run == \E m \in Conditions : Clock(NoAccess, m)
Configure == HostMayArm /\ \E m \in Conditions, c \in Configs : Clock(WriteConfig(c), m)
HostArm == HostMayArm /\ config \in Configs /\ \E m \in Conditions : Clock(CommandArm, m)
HostAbort == \E m \in Conditions : Clock(CommandAbort, m)

Init ==
  /\ CoreInit
  /\ TriggerInit
  /\ ControlInit
  /\ hit = 0
  /\ hits = NoHits

Next == Run \/ Configure \/ HostArm \/ HostAbort

Spec == Init /\ [][Next]_blockVars

(* The clock never stops, and the condition is met again and again; the    *)
(* host owes nothing.                                                      *)
Recurring == Clock(NoAccess, TRUE)
FairSpec == Spec /\ WF_blockVars(Recurring)
----------------------------------------------------------------------------
(* Buffer.read_window: the slot a head lies in, derotated.                 *)
ReadWindow(head, count) ==
  LET base == (head \div count) * count
      rot == head - base
  IN [j \in 1..count |-> mem[base + ((rot + j - 1) % count)]]

(* A completed window as the host reads it, each sample as its distance    *)
(* from the sample that met the trigger condition.                         *)
Window(w) ==
  LET read == ReadWindow(heads[w], cfg.capture_len)
  IN [j \in 1..cfg.capture_len |-> hits[w] - read[j]]

Windows == [k \in 1..head_wr |-> Window(k - 1)]
----------------------------------------------------------------------------
TypeOK ==
  /\ state \in States /\ triggered \in BOOLEAN
  /\ cfg \in Configs /\ config \in Configs \union {ResetConfig}
  /\ window_idx \in 0..HeadSlots-1
  /\ pre_count \in 0..2*Depth-1 /\ samples_rem \in 0..Depth /\ offset \in Addresses
  /\ slot_base \in Addresses /\ head_offset \in 0..2*Depth-1
  /\ mem \in [Addresses -> {Stale} \union 0..Depth]
  /\ trigger \in BOOLEAN /\ fired \in BOOLEAN /\ raw \in BOOLEAN
  /\ en1 \in BOOLEAN /\ en2 \in BOOLEAN
  /\ arm_s \in BOOLEAN /\ abort_s \in BOOLEAN
  /\ heads \in [0..HeadSlots-1 -> Addresses] /\ head_wr \in 0..HeadSlots
  /\ hit \in 0..Depth /\ hits \in [0..HeadSlots-1 -> 0..Depth]

(* Every completed window, read back from its head, is capture_len         *)
(* consecutive samples in time order with the one that met the condition   *)
(* at index pre_trigger_len: the promise of the header of                  *)
(* capture/capture_core.vhd, kept by the core's back-dating.               *)
WindowsInOrder ==
  \A k \in DOMAIN Windows :
    Windows[k] = [j \in 1..cfg.capture_len |-> j - 1 - cfg.pre_trigger_len]

(* The write index of the head array doubles as the completed-window count *)
(* of the acquisition under way (control/capture_control.vhd), so a head   *)
(* is found under the number of its window.                                *)
HeadIndexIsWindow == state # "IDLE" => head_wr = window_idx

(* A tick never reaches the core while it cannot use it: enable rises at   *)
(* pre_trigger_len, and pre_count has reached Back by the time the block's *)
(* pipeline delivers the tick.  A tick dropped here would leave the block  *)
(* holding off for ever, and one in CAPTURING would mark a second event.   *)
TickFindsContext ==
  trigger => \/ state = "ARMED" /\ pre_count >= Back
             \/ state = "IDLE"

(* A capture whose condition keeps being met needs no help: the core fills *)
(* its windows and idles on its own (Control.capture).                     *)
FillsOnItsOwn == state # "IDLE" ~> state = "IDLE"

----------------------------------------------------------------------------
(* The core of the cluster is CaptureWindows: what its environment may do  *)
(* there, the control and the trigger do here.                             *)
SoFar(array, count) == [w \in Addresses |-> IF w < count THEN array[w] ELSE 0]

Core == INSTANCE CaptureWindows WITH
  done <- head_wr, emitted <- SoFar(heads, head_wr), hits <- SoFar(hits, head_wr),
  hit <- IF state = "CAPTURING" THEN hit ELSE 0

(* The arm pulse finds the core idle and the configuration written.        *)
ArmInStep == arm_s => state = "IDLE" /\ config \in Configs

(* A tick is held off, and its sample is as old as the block is slow.  The *)
(* edge block's history of enables says how long the core has had its      *)
(* history, unless it is holding off.                                      *)
TickInStep ==
  /\ trigger => fired /\ hit = MatchAge
  /\ Edge /\ state = "ARMED" /\ ~fired =>
       /\ en1 => pre_count > cfg.pre_trigger_len
       /\ en1 /\ en2 => pre_count >= Back

IInv == Core!IInv /\ TypeOK /\ ArmInStep /\ TickInStep /\ TickFindsContext

(* The cluster in step: heads, ticks and registers are those of the window *)
(* under way.                                                              *)
ClusterInStep == HeadIndexIsWindow /\ IInv

(* The host sees a capture, whatever the clock, the buffer and the head    *)
(* array go through.                                                       *)
Abstract == INSTANCE SegmentedCapture WITH
  busy <- state # "IDLE", plan <- cfg, windows <- Windows

ImplementsSegmentedCapture == Abstract!Spec
============================================================================
