----------------------------- MODULE RleCapture -----------------------------
(***************************************************************************)
(* A run-length encoding capture cluster in one clock domain: the control  *)
(* block (control/capture_control_rle.vhd), the core and the trigger block *)
(* the core's ready enables.  Every step is one clock of all three.  The   *)
(* host reads both regions back and decodes them (RleControl).             *)
(***************************************************************************)
EXTENDS RleCore, TriggerControl, SequencesExt

CONSTANTS
  CycleWrap,  \* CYCLES counts modulo this, 2^32
  Caps,       \* the caps a capture may have, in cycles; 0 is none
  TriggerOn,  \* the values the trigger condition accepts
  Edge        \* the trigger is an edge block, programmed to a level match

ASSUME CycleAssumption == CycleWrap \in Nat \ {0}
ASSUME CapsAssumption == Caps \subseteq 0..CycleWrap-1

(* RleControl.validate_capture; the post region has a line at least.       *)
Plans == [pre_lines : 0..Depth-1, max_cycles : Caps]

VARIABLES
  arm_s, abort_s, plan,   \* the control block: pulses and configuration
  cycles,                 \* and its CYCLES register
  before,                 \* history: samples the ring was given, the latest ones
  after                   \* history: samples from the trigger's on

rleVars == <<core, line, triggerVars, arm_s, abort_s, plan, cycles,
             before, after>>

Latency == BlockLatency(Edge)
Reset == [pre_lines |-> 0, max_cycles |-> 0]

(* As many samples as the ring could ever hold.                            *)
RingSamples == 1 + CountMax * (Depth - 2)
Latest(s) == IF Len(s) > RingSamples THEN Tail(s) ELSE s

(* The samples of this clock that the core records.                        *)
TrackSamples(v) ==
  CASE core.state = "IDLE" ->
         IF arm_s THEN before' = <<>> /\ after' = <<>> ELSE UNCHANGED <<before, after>>
    [] core.state = "ARMED" /\ core'.state = "ARMED" ->
         /\ before' = IF core.pre_lines = 0 \/ Frozen(abort_s, trigger, v)
                      THEN before ELSE Latest(Append(before, v))
         /\ UNCHANGED after
    [] core'.state = "CAPTURING" /\ core' # core -> after' = Append(after, v) /\ UNCHANGED before
    [] OTHER -> UNCHANGED <<before, after>>

Clock(access, v) ==
  /\ CoreStep(arm_s, abort_s, trigger, plan, v)
  /\ Match(Edge, Ready, v \in TriggerOn)
  /\ arm_s' = (access.op = "arm") /\ abort_s' = (access.op = "abort")
  /\ plan' = IF access.op = "config" THEN access.value ELSE plan
  /\ cycles' = IF arm_s THEN 0
               ELSE IF core.state = "CAPTURING" THEN (cycles + 1) % CycleWrap
               ELSE cycles
  /\ TrackSamples(v)

Run == \E v \in Values : Clock([op |-> "none"], v)

(* The host configures and arms a control that reports idle.               *)
HostMayArm == core.state = "IDLE" /\ ~arm_s
Configure ==
  HostMayArm /\ \E v \in Values, p \in Plans : Clock([op |-> "config", value |-> p], v)
HostArm == HostMayArm /\ plan \in Plans /\ \E v \in Values : Clock([op |-> "arm"], v)
HostAbort == \E v \in Values : Clock([op |-> "abort"], v)

Init ==
  /\ \E v \in Values : CoreInit(v)
  /\ TriggerInit
  /\ arm_s = FALSE /\ abort_s = FALSE
  /\ plan = Reset /\ cycles = 0
  /\ before = <<>> /\ after = <<>>

Next == Run \/ Configure \/ HostArm \/ HostAbort

Spec == Init /\ [][Next]_rleVars

(* The clock never stops; the host owes nothing.                           *)
FairSpec == Spec /\ WF_rleVars(Run)
----------------------------------------------------------------------------
(* Readback, RleControl._read_regions and _decode: counts that no sample   *)
(* precedes are the orphans of a run whose sample was evicted.             *)

DecodeLine(out, l) ==
  IF ~l.repeat THEN Append(out, l.value)
  ELSE IF out = <<>> THEN out
  ELSE out \o [i \in 1..l.count |-> Last(out)]
Decode(lines) ==
  LET out[n \in 0..Len(lines)] ==
        IF n = 0 THEN <<>> ELSE DecodeLine(out[n - 1], lines[n])
  IN out[Len(lines)]

RingLines ==
  [i \in 1..core.nfilled |-> line[(core.head + i - 1) % core.pre_lines]]
PostLines == [i \in 1..EndPtr - core.pre_lines |-> line[core.pre_lines + i - 1]]

(* WaveformView.__markers: the trigger, skewed back into the ring.         *)
Trace == Decode(RingLines) \o Decode(PostLines)
Marker ==
  LET t == Len(Decode(RingLines)) - Latency IN IF t < 0 THEN 0 ELSE t
----------------------------------------------------------------------------
Encoded == {Sample(v) : v \in Values} \union {Repeat(n) : n \in 1..CountMax}
Registers ==
  [state : States, triggered : BOOLEAN, pre_lines : Lines, prev : Values, counting : BOOLEAN,
   count : 0..CountMax, wp : Lines, head : Lines, nfilled : Lines, run_sample : Lines,
   cycles : Nat]
TypeOK ==
  /\ core \in Registers
  /\ line \in [Lines -> {Stale} \union Encoded]
  /\ arm_s \in BOOLEAN /\ abort_s \in BOOLEAN /\ plan \in Plans \union {Reset}
  /\ cycles \in 0..CycleWrap-1
  /\ trigger \in BOOLEAN /\ fired \in BOOLEAN /\ raw \in BOOLEAN /\ en1 \in BOOLEAN /\ en2 \in BOOLEAN
  /\ before \in Seq(Values) /\ after \in Seq(Values)

(* What the ring decodes to is the latest samples, in order and without a  *)
(* gap, and is never empty: however runs spill and evict each other, a     *)
(* sample line survives (header of capture_core_rle.vhd).                  *)
RingIsRecent ==
  core.nfilled > 0 => LET decoded == Decode(RingLines)
                      IN decoded # <<>> /\ IsSuffix(decoded, before)

(* From the trigger's sample on, the post region decodes to every sample   *)
(* of every clock, and the ring's wrapping never touches it.               *)
PostIsComplete == core.triggered => Decode(PostLines) = after

(* CYCLES is the number of samples taken once the capture has ended, and   *)
(* max_cycles bounds them.                                                 *)
CyclesCountSamples ==
  core.triggered =>
    /\ core.state = "IDLE" => cycles = Len(after) % CycleWrap
    /\ core.state = "CAPTURING" /\ plan.max_cycles # 0 => Len(after) <= plan.max_cycles

(* The trigger marker sits on a sample that met the trigger condition, as  *)
(* long as the ring decodes to a sample for each clock of the trigger's    *)
(* latency (doc/instrument/logic_analyzer/capture-modes.rst).              *)
MarkerOnMatch ==
  core.triggered /\ core.state = "IDLE" /\ Len(Decode(RingLines)) >= Latency =>
    Trace[Marker + 1] \in TriggerOn

(* Under a running clock an armed core becomes ready for its trigger, even *)
(* if the signal never changes - freezing a run does not keep ready away - *)
(* and a triggered one ends by itself.                                     *)
KeepsGoing ==
  core.state # "IDLE" ~> core.state = "IDLE" \/ (core.state = "ARMED" /\ Ready)

(* The window of the ring, and the run at its end: a sample line, and the  *)
(* counts of it.                                                           *)
RingInStep ==
  /\ core.nfilled <= core.pre_lines
  /\ core.nfilled > 0 => core.head < core.pre_lines
  /\ \A i \in 1..core.nfilled : RingLines[i] \in Encoded
  /\ core.state = "ARMED" /\ core.nfilled > 0 =>
       /\ core.wp < core.pre_lines
       /\ IF Full THEN core.head = RingNext ELSE core.head = 0 /\ core.wp = core.nfilled - 1
       /\ before # <<>> /\ Last(before) = core.prev
       /\ \E s \in 1..core.nfilled :
            /\ RingLines[s] = Sample(core.prev)
            /\ core.run_sample = (core.head + s - 1) % core.pre_lines
            /\ \A i \in s + 1..core.nfilled : RingLines[i].repeat
            /\ core.counting = (s < core.nfilled)
            /\ core.counting => RingLines[core.nfilled] = Repeat(core.count)

(* The lines from the trigger's on.                                        *)
PostInStep ==
  core.triggered =>
    /\ core.state # "ARMED" /\ core.pre_lines <= core.wp
    /\ \A i \in core.pre_lines..core.wp : line[i] \in Encoded
    /\ after # <<>> /\ Last(after) = core.prev
    /\ ~line[core.pre_lines].repeat
    /\ core.counting => line[core.wp] = Repeat(core.count) /\ core.pre_lines < core.wp

(* The counters, and what the host may touch while they run.               *)
CountersInStep ==
  /\ core.state = "CAPTURING" => core.triggered
  /\ core.state # "IDLE" => ~arm_s
  /\ arm_s => plan \in Plans
  /\ core.state = "ARMED" => cycles = 0 /\ after = <<>>
  /\ core.state = "CAPTURING" => /\ core.cycles = Len(after)
                                 /\ cycles = (Len(after) - 1) % CycleWrap

(* The sample the trigger matched is as old as its block is slow.          *)
MatchInStep ==
  /\ (core.state = "ARMED" /\ trigger) \/ core.triggered =>
       LET decoded == Decode(RingLines)
       IN Len(decoded) >= Latency => decoded[Len(decoded) - Latency + 1] \in TriggerOn
  /\ core.state = "ARMED" /\ Edge /\ raw /\ en1 /\ core.nfilled > 0 => core.prev \in TriggerOn

(* What a capture under way has kept and counted.                          *)
KeptIsRecent ==
  /\ TypeOK /\ RingInStep /\ PostInStep /\ CountersInStep /\ MatchInStep
  /\ RingIsRecent /\ CyclesCountSamples

IInv == KeptIsRecent /\ PostIsComplete
=============================================================================
