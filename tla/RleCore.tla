------------------------------ MODULE RleCore ------------------------------
(***************************************************************************)
(* The run-length encoding capture core, capture/capture_core_rle.vhd: a   *)
(* ring of pre_lines lines while armed, then linear encoding to the end of *)
(* the buffer.  Every action is one clock of the core, given its arm and   *)
(* trigger inputs and the sample of that clock.                            *)
(***************************************************************************)
EXTENDS Integers

CONSTANTS
  Values,      \* what a sample may be
  Depth,       \* lines of the trace buffer
  CountMax     \* the largest count a line holds, count_max_c

ASSUME RleDepthAssumption == Depth \in Nat \ {0}
ASSUME CountMaxAssumption == CountMax \in Nat \ {0}

VARIABLES
  core,   \* the registers of the core
  line    \* the trace buffer

States == {"IDLE", "ARMED", "CAPTURING"}
Lines == 0..Depth-1

Stale == [none |-> TRUE]                 \* not written since the arm
Sample(v) == [repeat |-> FALSE, value |-> v]
Repeat(n) == [repeat |-> TRUE, count |-> n]

(* The registers without a reset are set by the first arm.                 *)
CoreInit(v) ==
  /\ core = [state |-> "IDLE", triggered |-> FALSE, pre_lines |-> 0,
             prev |-> v, counting |-> FALSE, count |-> 0, wp |-> 0, head |-> 0,
             nfilled |-> 0, run_sample |-> 0, cycles |-> 0]
  /\ line = [i \in Lines |-> Stale]

Ready == core.state = "ARMED" /\ core.nfilled >= core.pre_lines
EndPtr == core.wp + 1
----------------------------------------------------------------------------
(* The ring.                                                               *)

RingNext == IF core.wp = core.pre_lines - 1 THEN 0 ELSE core.wp + 1

Full == core.nfilled >= core.pre_lines

(* Append an entry: the window grows, or its oldest line is evicted.       *)
RingAdvance ==
  [core EXCEPT !.wp = RingNext,
               !.nfilled = IF Full THEN @ ELSE @ + 1,
               !.head = IF ~Full THEN @
                        ELSE IF @ = core.pre_lines - 1 THEN 0 ELSE @ + 1]

(* A count line on top of the run would evict the run's own sample.        *)
NoRoomNever == FALSE        \* mutant: no cap
NoRoom == RingNext = core.run_sample

CountNext == (core.count + 1) % (CountMax + 1)
WriteLine(i, l) == line' = [line EXCEPT ![i] = l]
----------------------------------------------------------------------------
(* Idle and armed.                                                         *)

Rest(arm) == core.state = "IDLE" /\ ~arm /\ UNCHANGED <<core, line>>

(* What the buffer still holds belongs to an earlier acquisition: Stale.   *)
Arm(arm, pre_lines) ==
  /\ core.state = "IDLE" /\ arm
  /\ core' = [core EXCEPT !.state = "ARMED", !.triggered = FALSE,
                          !.pre_lines = pre_lines, !.counting = FALSE,
                          !.wp = 0, !.head = 0, !.nfilled = 0]
  /\ line' = [i \in Lines |-> Stale]

AbortArmed(abort) ==
  /\ core.state = "ARMED" /\ abort
  /\ core' = [core EXCEPT !.state = "IDLE"]
  /\ UNCHANGED line

(* The trigger sample is the first line after the ring.                    *)
Trigger(abort, trigger, v) ==
  /\ core.state = "ARMED" /\ ~abort /\ trigger
  /\ WriteLine(core.pre_lines, Sample(v))
  /\ core' = [core EXCEPT !.state = "CAPTURING", !.triggered = TRUE, !.prev = v,
                          !.counting = FALSE, !.count = 0,
                          !.wp = core.pre_lines, !.cycles = 1]

Waiting(abort, trigger) == core.state = "ARMED" /\ ~abort /\ ~trigger

NoRing(abort, trigger) ==
  Waiting(abort, trigger) /\ core.pre_lines = 0 /\ UNCHANGED <<core, line>>

First(abort, trigger, v) ==
  /\ Waiting(abort, trigger) /\ core.pre_lines > 0 /\ core.nfilled = 0
  /\ WriteLine(0, Sample(v))
  /\ core' = [core EXCEPT !.prev = v, !.counting = FALSE, !.wp = 0, !.head = 0,
                          !.nfilled = 1, !.run_sample = 0]

Filling(abort, trigger) ==
  Waiting(abort, trigger) /\ core.pre_lines > 0 /\ core.nfilled > 0

Extend(abort, trigger, v) ==
  /\ Filling(abort, trigger) /\ v = core.prev
  /\ core.counting /\ core.count # CountMax
  /\ WriteLine(core.wp, Repeat(CountNext))
  /\ core' = [core EXCEPT !.count = CountNext]

(* A run that repeats and has no count line with room left.                *)
Spilling(abort, trigger, v) ==
  /\ Filling(abort, trigger) /\ v = core.prev
  /\ core.counting => core.count = CountMax

(* The run freezes until the value changes or the trigger fires.           *)
Frozen(abort, trigger, v) == Spilling(abort, trigger, v) /\ NoRoom
Freeze(abort, trigger, v) == Frozen(abort, trigger, v) /\ UNCHANGED <<core, line>>

Spill(abort, trigger, v) ==
  /\ Spilling(abort, trigger, v) /\ ~NoRoom
  /\ WriteLine(RingNext, Repeat(1))
  /\ core' = [RingAdvance EXCEPT !.counting = TRUE, !.count = 1]

Distinct(abort, trigger, v) ==
  /\ Filling(abort, trigger) /\ v # core.prev
  /\ WriteLine(RingNext, Sample(v))
  /\ core' = [RingAdvance EXCEPT !.prev = v, !.counting = FALSE,
                                 !.run_sample = RingNext]
----------------------------------------------------------------------------
(* After the trigger: where the sample of this clock would be written.     *)

ExtendsFullCount(v) == v = core.prev /\ core.counting   \* mutant
ExtendsRun(v) == v = core.prev /\ core.counting /\ core.count # CountMax
NextLine(v) == IF ExtendsRun(v) THEN core.wp ELSE core.wp + 1

CapReached(max_cycles) == max_cycles # 0 /\ core.cycles >= max_cycles

Stopping(abort, max_cycles, v) ==
  abort \/ CapReached(max_cycles) \/ NextLine(v) >= Depth

StopIgnored(abort, max_cycles, v) ==   \* mutant
  /\ core.state = "CAPTURING" /\ Stopping(abort, max_cycles, v)
  /\ UNCHANGED <<core, line>>
Stop(abort, max_cycles, v) ==
  /\ core.state = "CAPTURING" /\ Stopping(abort, max_cycles, v)
  /\ core' = [core EXCEPT !.state = "IDLE"]
  /\ UNCHANGED line

RepeatAfter(abort, max_cycles, v) ==
  /\ core.state = "CAPTURING" /\ ~Stopping(abort, max_cycles, v) /\ v = core.prev
  /\ LET n == IF ExtendsRun(v) THEN CountNext ELSE 1
     IN /\ WriteLine(NextLine(v), Repeat(n))
        /\ core' = [core EXCEPT !.counting = TRUE, !.count = n,
                                !.wp = NextLine(v), !.cycles = @ + 1]

DistinctAfter(abort, max_cycles, v) ==
  /\ core.state = "CAPTURING" /\ ~Stopping(abort, max_cycles, v) /\ v # core.prev
  /\ WriteLine(NextLine(v), Sample(v))
  /\ core' = [core EXCEPT !.prev = v, !.counting = FALSE, !.count = 0,
                          !.wp = NextLine(v), !.cycles = @ + 1]

CoreStep(arm, abort, trigger, plan, v) ==
  \/ Rest(arm)
  \/ Arm(arm, plan.pre_lines)
  \/ AbortArmed(abort)
  \/ Trigger(abort, trigger, v)
  \/ NoRing(abort, trigger)
  \/ First(abort, trigger, v)
  \/ Extend(abort, trigger, v)
  \/ Freeze(abort, trigger, v)
  \/ Spill(abort, trigger, v)
  \/ Distinct(abort, trigger, v)
  \/ Stop(abort, plan.max_cycles, v)
  \/ RepeatAfter(abort, plan.max_cycles, v)
  \/ DistinctAfter(abort, plan.max_cycles, v)
============================================================================
