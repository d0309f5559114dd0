------------------------- MODULE CaptureBlockProofs -------------------------
(***************************************************************************)
(* For a whole cluster - control, value or edge trigger, core - of any     *)
(* depth, head array and set of legal configurations: ticks and heads are  *)
(* those of the window under way, and what the host reads back is a        *)
(* SegmentedCapture.  The core's part is what CaptureWindowsProofs proves, *)
(* once the cluster is shown to drive it as CaptureWindows' environment.   *)
(***************************************************************************)
EXTENDS CaptureBlock, TLAPS

CoreProofs == INSTANCE CaptureWindowsProofs WITH
  done <- head_wr, emitted <- SoFar(heads, head_wr), hits <- SoFar(hits, head_wr),
  hit <- IF state = "CAPTURING" THEN hit ELSE 0

(* The two instances of the core are one.                                  *)
LEMMA SameInvariant == CoreProofs!IInv <=> Core!IInv
  BY DEF CoreProofs!IInv, CoreProofs!TypeOK, CoreProofs!Counting, CoreProofs!CurrentSlot,
     CoreProofs!FutureSlots, CoreProofs!Filling, CoreProofs!Capturing,
     CoreProofs!CompletedSlots, CoreProofs!InOrder, CoreProofs!Busy, CoreProofs!SlotsInBuffer,
     CoreProofs!AgeAt, CoreProofs!Kept, CoreProofs!PastLatency, CoreProofs!Wrap,
     CoreProofs!Addresses, CoreProofs!Stale, CoreProofs!States, CoreProofs!Slot,
     CoreProofs!WriteAddr, CoreProofs!Addr,
     Core!IInv, Core!TypeOK, Core!Counting, Core!CurrentSlot,
     Core!FutureSlots, Core!Filling, Core!Capturing,
     Core!CompletedSlots, Core!InOrder, Core!Busy, Core!SlotsInBuffer,
     Core!AgeAt, Core!Kept, Core!PastLatency, Core!Wrap,
     Core!Addresses, Core!Stale, Core!States, Core!Slot, Core!WriteAddr, Core!Addr

LEMMA SameSignals ==
  /\ CoreProofs!Addresses = Addresses /\ CoreProofs!HeadO = HeadO
  /\ \A abort, tick :
       /\ CoreProofs!HeadWe(abort, tick) <=> HeadWe(abort, tick)
       /\ CoreProofs!Accepts(abort, tick) <=> Accepts(abort, tick)
  BY DEF CoreProofs!Addresses, Addresses, CoreProofs!HeadO, HeadO, CoreProofs!HeadOff, HeadOff,
     CoreProofs!Back, Back, CoreProofs!Reg, Reg, CoreProofs!Addr, Addr,
     CoreProofs!HeadWe, HeadWe, CoreProofs!Accepts, Accepts,
     CoreProofs!AcceptsWhole, AcceptsWhole, CoreProofs!PostTotal, PostTotal

LEMMA SameStep ==
  ASSUME NEW arm, NEW abort, NEW tick, NEW c, Step(arm, abort, tick, c)
  PROVE  CoreProofs!Step(arm, abort, tick, c)
<1> USE DEF CoreProofs!Reg, Reg, CoreProofs!Addr, Addr, CoreProofs!Back, Back,
        CoreProofs!PostTotal, PostTotal, CoreProofs!Accepts, Accepts,
        CoreProofs!AcceptsWhole, AcceptsWhole, CoreProofs!regs, regs
<1>1. CoreProofs!WriteSample <=> WriteSample
  BY DEF CoreProofs!WriteSample, WriteSample, CoreProofs!WriteAddr, WriteAddr, CoreProofs!Slot,
     Slot, CoreProofs!Addresses, Addresses, CoreProofs!Stale, Stale
<1>2. CoreProofs!NextOffset = NextOffset /\ CoreProofs!NextPreCount = NextPreCount
      /\ CoreProofs!HeadOff = HeadOff
  BY DEF CoreProofs!NextOffset, NextOffset, CoreProofs!NextPreCount, NextPreCount,
     CoreProofs!HeadOff, HeadOff
<1>3. CoreProofs!CompleteWindow <=> CompleteWindow
  BY <1>2 DEF CoreProofs!CompleteWindow, CompleteWindow
<1>4. Idle(arm) => CoreProofs!Idle(arm)
  BY DEF CoreProofs!Idle, Idle
<1>5. Arm(arm, c) => CoreProofs!Arm(arm, c)
  BY DEF CoreProofs!Arm, Arm, CoreProofs!Addresses, Addresses, CoreProofs!Stale, Stale
<1>6. Abort(abort) => CoreProofs!Abort(abort)
  BY <1>1, <1>2 DEF CoreProofs!Abort, Abort
<1>7. Fill(abort, tick) => CoreProofs!Fill(abort, tick)
  BY <1>1, <1>2 DEF CoreProofs!Fill, Fill
<1>8. Accept(abort, tick) => CoreProofs!Accept(abort, tick)
  BY <1>1, <1>2 DEF CoreProofs!Accept, Accept
<1>9. AcceptAndComplete(abort, tick) => CoreProofs!AcceptAndComplete(abort, tick)
  BY <1>1, <1>2, <1>3 DEF CoreProofs!AcceptAndComplete, AcceptAndComplete
<1>10. Capture(abort) => CoreProofs!Capture(abort)
  BY <1>1, <1>2 DEF CoreProofs!Capture, Capture
<1>11. CaptureLast(abort) => CoreProofs!CaptureLast(abort)
  BY <1>1, <1>3 DEF CoreProofs!CaptureLast, CaptureLast
<1> QED
  BY <1>4, <1>5, <1>6, <1>7, <1>8, <1>9, <1>10, <1>11 DEF Step, CoreProofs!Step

(* The core's steps keep its invariant, wherever they come from.           *)
LEMMA CoreKept ==
  ASSUME Core!IInv, NEW arm \in BOOLEAN, NEW abort \in BOOLEAN, NEW tick \in BOOLEAN,
         NEW c \in Configs, Step(arm, abort, tick, c), CoreProofs!Record(arm, abort, tick)
  PROVE  Core!IInv'
<1>1. CoreProofs!Next
  BY SameStep DEF CoreProofs!Next
<1>2. CoreProofs!IInv'
  BY <1>1, SameInvariant, CoreProofs!NextIInv, DepthAssumption, LatencyAssumption,
     ConfigsAssumption DEF LegalConfigs, CoreProofs!LegalConfigs
<1> QED BY <1>2, SameInvariant, PTL

----------------------------------------------------------------------------
(* Facts of the cluster.                                                   *)

LEMMA ConfigFacts ==
  ASSUME NEW c \in Configs
  PROVE  /\ c.capture_len \in 1..Depth /\ c.pre_trigger_len \in 0..c.capture_len-1
         /\ c.window_count \in 1..Depth /\ c.window_count <= HeadSlots
  BY ConfigsAssumption, DepthAssumption, HeadsAssumption DEF LegalConfigs

(* The block is as slow as the core expects, one clock more than the age   *)
(* its tick is raised at.                                                  *)
LEMMA LatencyFacts ==
  /\ Depth \in Nat \ {0} /\ Latency \in 1..Depth /\ Latency = MatchAge + 1
  /\ Edge => Latency = 2
  /\ ~Edge => Latency = 1
  BY DepthAssumption, LatencyAssumption, LatencyMatchesBlock, EdgeAssumption
     DEF BlockLatency, MatchAge

LEMMA BackFacts ==
  ASSUME cfg \in Configs
  PROVE  Back = cfg.pre_trigger_len + Latency
  BY ConfigFacts, LatencyFacts DEF Back, Reg

(* What the core's invariant says of the cluster's registers.              *)
LEMMA CoreFacts ==
  ASSUME Core!IInv
  PROVE  /\ state \in States /\ triggered \in BOOLEAN /\ cfg \in Configs
         /\ window_idx \in Nat
         /\ pre_count \in 0..2*Depth-1 /\ samples_rem \in 0..Depth /\ offset \in Addresses
         /\ slot_base \in Addresses /\ head_offset \in 0..2*Depth-1
         /\ mem \in [Addresses -> {Stale} \union 0..Depth]
         /\ head_wr \in 0..cfg.window_count
         /\ state # "IDLE" => head_wr = window_idx /\ head_wr < cfg.window_count
         /\ state = "CAPTURING" => hit \in Nat /\ hit < Depth
<1>1. Core!TypeOK /\ Core!Counting /\ Core!Capturing
  BY DEF Core!IInv
<1>2. /\ state \in States /\ triggered \in BOOLEAN /\ cfg \in Configs
      /\ window_idx \in Nat
      /\ pre_count \in 0..2*Depth-1 /\ samples_rem \in 0..Depth /\ offset \in Addresses
      /\ slot_base \in Addresses /\ head_offset \in 0..2*Depth-1
      /\ head_wr \in Nat
  BY <1>1, DepthAssumption DEF Core!TypeOK, Core!States, States, Core!Addresses, Addresses
<1>3. mem \in [Addresses -> {Stale} \union 0..Depth]
  <2>1. Core!Stale..Depth = {Stale} \union 0..Depth
    BY DepthAssumption DEF Core!Stale, Stale
  <2> QED BY <1>1, <2>1 DEF Core!TypeOK, Core!Addresses, Addresses
<1>4. /\ head_wr \in 0..cfg.window_count
      /\ state # "IDLE" => head_wr = window_idx /\ head_wr < cfg.window_count
  BY <1>1, <1>2, ConfigFacts, DepthAssumption DEF Core!Counting, Core!Busy, States
<1>5. state = "CAPTURING" => hit \in Nat /\ hit < Depth
  <2> SUFFICES ASSUME state = "CAPTURING" PROVE hit \in Nat /\ hit < Depth
    OBVIOUS
  <2>1. hit \in 0..Depth
    BY <1>1 DEF Core!TypeOK
  <2>2. samples_rem >= 1 /\ samples_rem = cfg.capture_len - cfg.pre_trigger_len - 1 - hit
    BY <1>1 DEF Core!Capturing
  <2> QED BY <1>2, <2>1, <2>2, ConfigFacts, DepthAssumption
<1> QED BY <1>2, <1>3, <1>4, <1>5

----------------------------------------------------------------------------
(* A clock of the cluster.                                                 *)

(* Where the core may go from a state.                                     *)
Moves ==
  /\ state = "IDLE" =>
       \/ ~arm_s /\ UNCHANGED <<regs, mem>>
       \/ arm_s /\ state' = "ARMED" /\ cfg' = config /\ pre_count' = 0 /\ window_idx' = 0
  /\ state # "IDLE" => cfg' = cfg
  /\ state = "ARMED" /\ ~trigger =>
       \/ state' = "IDLE"
       \/ state' = "ARMED" /\ pre_count' = NextPreCount
  /\ state = "ARMED" /\ state' = "CAPTURING" => Accepts(abort_s, trigger)
  /\ state' = "CAPTURING" => ~HeadWeNow
  /\ state' # "IDLE" \/ window_idx' = window_idx

LEMMA ClockMoves ==
  ASSUME state \in States, NEW c, c = IF arm_s THEN config ELSE cfg,
         Step(arm_s, abort_s, trigger, c)
  PROVE  Moves
  BY DEF Step, Idle, Arm, Abort, Fill, Accept, AcceptAndComplete, Capture, CaptureLast, Accepts,
     CompleteWindow, Moves, States, regs, HeadWeNow, HeadWe

(* The configuration matters to the core when it is armed, and then it is  *)
(* a legal one.                                                            *)
LEMMA StepOfConfig ==
  ASSUME Core!IInv, ArmInStep, Step(arm_s, abort_s, trigger, config)
  PROVE  \E c \in Configs : /\ c = IF arm_s THEN config ELSE cfg
                            /\ Step(arm_s, abort_s, trigger, c)
<1> DEFINE c == IF arm_s THEN config ELSE cfg
<1>1. c \in Configs
  BY CoreFacts DEF ArmInStep
<1>2. Step(arm_s, abort_s, trigger, c)
  BY DEF Step, Arm
<1> QED BY <1>1, <1>2

(* The age of the sample behind a tick, as the core counts it.             *)
LEMMA HitFacts ==
  ASSUME IInv, NEW access, NEW matched, Clock(access, matched), Moves
  PROVE  /\ Accepts(abort_s, trigger) => Older(hit) = Latency
         /\ state = "CAPTURING" => Older(hit) = hit + 1
         /\ state' = "CAPTURING" => hit' = Older(hit)
<1>1. Accepts(abort_s, trigger) => Older(hit) = Latency /\ fired /\ Ready
  <2> SUFFICES ASSUME Accepts(abort_s, trigger)
               PROVE  Older(hit) = Latency /\ fired /\ Ready
    OBVIOUS
  <2>1. hit = MatchAge /\ fired
    BY DEF Accepts, IInv, TickInStep
  <2>2. Older(hit) = Latency
    BY <2>1, LatencyFacts, EdgeAssumption DEF Older, MatchAge
  <2>3. Ready
    <3>1. cfg \in Configs /\ pre_count \in Nat
      BY CoreFacts, DepthAssumption DEF IInv
    <3> QED BY <3>1, BackFacts, ConfigFacts, LatencyFacts DEF Accepts, Ready
  <2> QED BY <2>1, <2>2, <2>3
<1>2. state = "CAPTURING" => Older(hit) = hit + 1 /\ ~Ready
  BY CoreFacts DEF IInv, Older, Ready
<1>3. state' = "CAPTURING" => hit' = Older(hit)
  <2> SUFFICES ASSUME state' = "CAPTURING" PROVE ~trigger'
    BY DEF Clock, TrackHits
  <2>1. Accepts(abort_s, trigger) \/ state = "CAPTURING"
    BY CoreFacts DEF Moves, IInv, States, regs
  <2> QED BY <1>1, <1>2, <2>1 DEF Clock, Match, MatchEdge, MatchValue, Fire
<1> QED BY <1>1, <1>2, <1>3

(* Storing in an array is storing in what is read of it.                   *)
LEMMA Stored ==
  ASSUME NEW n \in Addresses, n < HeadSlots, NEW a, NEW b, NEW w \in Addresses,
         \A x \in 0..HeadSlots-1 : x # n => b[x] = a[x]
  PROVE  /\ w = n => SoFar(b, n + 1)[w] = b[n]
         /\ w # n => SoFar(b, n + 1)[w] = SoFar(a, n)[w]
<1>1. n \in Nat /\ n \in 0..HeadSlots-1 /\ w \in Nat
  BY HeadSlotsAssumption, DepthAssumption DEF Addresses
<1>2. SoFar(b, n + 1)[w] = IF w < n + 1 THEN b[w] ELSE 0
  BY DEF SoFar
<1>3. SoFar(a, n)[w] = IF w < n THEN a[w] ELSE 0
  BY DEF SoFar
<1>4. CASE w = n
  BY <1>1, <1>2, <1>4
<1>5. CASE w # n
  <2>1. w < n + 1 <=> w < n
    BY <1>1, <1>5
  <2>2. w < n => b[w] = a[w]
    BY <1>1, <1>5, HeadSlotsAssumption
  <2> QED BY <1>2, <1>3, <1>5, <2>1, <2>2
<1> QED BY <1>4, <1>5

(* The control block and the histories record what the core emits.         *)
LEMMA Recorded ==
  ASSUME IInv, NEW access, NEW matched, Clock(access, matched), Moves
  PROVE  CoreProofs!Record(arm_s, abort_s, trigger)
<1>1. /\ head_wr \in Nat /\ head_wr \in 0..Depth
      /\ heads \in [0..HeadSlots-1 -> Addresses] /\ hits \in [0..HeadSlots-1 -> 0..Depth]
      /\ state # "IDLE" => ~arm_s /\ head_wr < HeadSlots /\ head_wr \in Addresses
  <2>1. /\ cfg \in Configs /\ head_wr \in 0..cfg.window_count
        /\ state # "IDLE" => head_wr < cfg.window_count
    BY CoreFacts DEF IInv
  <2>2. cfg.window_count \in 1..Depth /\ cfg.window_count <= HeadSlots
    BY <2>1, ConfigFacts
  <2> QED BY <2>1, <2>2, DepthAssumption, HeadSlotsAssumption
          DEF IInv, TypeOK, ArmInStep, Addresses
<1>2. HeadWeNow => state # "IDLE"
  BY DEF HeadWeNow, HeadWe, Accepts
<1>3. CoreProofs!HitNow(abort_s, trigger) =
        IF Accepts(abort_s, trigger) THEN Latency
        ELSE (IF state = "CAPTURING" THEN hit ELSE 0) + 1
  BY SameSignals DEF CoreProofs!HitNow
<1>4. (IF state' = "CAPTURING" THEN hit' ELSE 0) =
        IF state' = "CAPTURING" THEN CoreProofs!HitNow(abort_s, trigger) ELSE 0
  <2> SUFFICES ASSUME state' = "CAPTURING"
               PROVE  hit' = CoreProofs!HitNow(abort_s, trigger)
    OBVIOUS
  <2>1. Accepts(abort_s, trigger) \/ state = "CAPTURING"
    BY CoreFacts DEF Moves, IInv, States, regs
  <2> QED BY <1>3, <2>1, HitFacts
<1>5. ASSUME HeadWeNow
      PROVE  /\ head_wr' = head_wr + 1
             /\ SoFar(heads, head_wr)' = [SoFar(heads, head_wr) EXCEPT ![head_wr] = HeadO]
             /\ SoFar(hits, head_wr)' =
                  [SoFar(hits, head_wr) EXCEPT ![head_wr] = CoreProofs!HitNow(abort_s, trigger)]
  <2>1. /\ ~arm_s /\ head_wr < HeadSlots /\ head_wr \in Addresses
        /\ heads' = [heads EXCEPT ![head_wr] = HeadO] /\ head_wr' = head_wr + 1
        /\ hits' = [hits EXCEPT ![head_wr] = Older(hit)]
    BY <1>1, <1>2, <1>5 DEF Clock, HeadStore, TrackHits
  <2>2. Older(hit) = CoreProofs!HitNow(abort_s, trigger)
    BY <1>3, <1>5, HitFacts DEF HeadWeNow, HeadWe
  <2>3. SoFar(heads, head_wr)' = [SoFar(heads, head_wr) EXCEPT ![head_wr] = HeadO]
    <3>1. \A x \in 0..HeadSlots-1 : x # head_wr => heads'[x] = heads[x]
      BY <1>1, <2>1
    <3>2. heads'[head_wr] = HeadO
      BY <1>1, <2>1, DepthAssumption, HeadSlotsAssumption DEF Addresses
    <3>3. head_wr \in Addresses /\ head_wr < HeadSlots
      BY <2>1
    <3>4. \A w \in Addresses :
            /\ w = head_wr => SoFar(heads', head_wr + 1)[w] = heads'[head_wr]
            /\ w # head_wr => SoFar(heads', head_wr + 1)[w] = SoFar(heads, head_wr)[w]
      BY <3>1, <3>3, Stored
    <3> QED BY <2>1, <3>2, <3>4 DEF SoFar, Addresses
  <2>4. SoFar(hits, head_wr)' = [SoFar(hits, head_wr) EXCEPT ![head_wr] = Older(hit)]
    <3>1. \A x \in 0..HeadSlots-1 : x # head_wr => hits'[x] = hits[x]
      BY <1>1, <2>1
    <3>2. hits'[head_wr] = Older(hit)
      BY <1>1, <2>1, DepthAssumption, HeadSlotsAssumption DEF Addresses
    <3>3. head_wr \in Addresses /\ head_wr < HeadSlots
      BY <2>1
    <3>4. \A w \in Addresses :
            /\ w = head_wr => SoFar(hits', head_wr + 1)[w] = hits'[head_wr]
            /\ w # head_wr => SoFar(hits', head_wr + 1)[w] = SoFar(hits, head_wr)[w]
      BY <3>1, <3>3, Stored
    <3> QED BY <2>1, <3>2, <3>4 DEF SoFar, Addresses
  <2> QED BY <2>1, <2>2, <2>3, <2>4
<1>6. ASSUME ~HeadWeNow, arm_s
      PROVE  /\ head_wr' = 0 /\ SoFar(heads, head_wr)' = CoreProofs!NoHeads
             /\ SoFar(hits, head_wr)' = CoreProofs!NoHeads
  <2>1. head_wr' = 0
    BY <1>6 DEF Clock, HeadStore
  <2>2. \A w \in Addresses : ~(w < 0)
    BY DepthAssumption DEF Addresses
  <2> QED BY <2>1, <2>2, SameSignals DEF SoFar, CoreProofs!NoHeads
<1>7. ASSUME ~HeadWeNow, ~arm_s
      PROVE  UNCHANGED <<head_wr, SoFar(heads, head_wr), SoFar(hits, head_wr)>>
  BY <1>7 DEF Clock, HeadStore, TrackHits, SoFar
<1>8. arm_s => state = "IDLE"
  BY DEF IInv, ArmInStep
<1> QED BY <1>4, <1>5, <1>6, <1>7, <1>8, SameSignals DEF CoreProofs!Record, HeadWeNow

(* A clock of the trigger: a tick is raised when the core has the history  *)
(* it needs, and finds it so at the next clock.                            *)
LEMMA TickClock ==
  ASSUME IInv, NEW access, NEW matched, Clock(access, matched), Moves
  PROVE  TickInStep' /\ TickFindsContext'
<1> DEFINE P == cfg.pre_trigger_len
<1>1. /\ cfg \in Configs /\ P \in Nat /\ pre_count \in Nat
      /\ Back = P + Latency /\ state \in States
  BY CoreFacts, BackFacts, ConfigFacts, DepthAssumption DEF IInv
<1>2. ASSUME Ready, ~fired
      PROVE  /\ state' \in {"IDLE", "ARMED"} /\ cfg' = cfg
             /\ state' = "ARMED" => pre_count' = NextPreCount
  BY <1>2 DEF Moves, Ready, IInv, TickInStep
<1>3. ASSUME Ready, ~fired, state' = "ARMED"
      PROVE  /\ pre_count' > cfg'.pre_trigger_len /\ Back' = Back
             /\ pre_count >= Back \/ pre_count + 1 >= Back => pre_count' >= Back'
  <2>1. cfg' = cfg /\ pre_count' = NextPreCount /\ pre_count >= P
    BY <1>2, <1>3 DEF Ready
  <2>2. Back' = Back
    BY <2>1 DEF Back
  <2> QED BY <1>1, <2>1, <2>2, LatencyFacts DEF NextPreCount
<1>4. trigger' => Ready /\ ~fired /\ fired' /\ hit' = MatchAge /\ (Edge => en1 /\ en2)
  BY EdgeAssumption DEF Clock, Match, MatchEdge, MatchValue, Fire, TrackHits
<1>5. Edge /\ ~fired' /\ en1' => Ready /\ ~fired /\ (en2' => en1)
  BY DEF Clock, Match, MatchEdge, Fire
<1>6. Ready => state = "ARMED" /\ pre_count >= P
  BY DEF Ready
<1>7. Edge /\ Ready /\ ~fired =>
        /\ en1 => pre_count > P
        /\ en1 /\ en2 => pre_count >= Back
  BY <1>6 DEF IInv, TickInStep
<1>8. TickFindsContext'
  <2> SUFFICES ASSUME trigger', state' # "IDLE"
               PROVE  state' = "ARMED" /\ pre_count' >= Back'
    BY DEF TickFindsContext
  <2>1. state' = "ARMED"
    BY <1>2, <1>4
  <2>2. pre_count >= Back \/ pre_count + 1 >= Back
    <3>1. CASE Edge
      BY <1>4, <1>7, <3>1
    <3>2. CASE ~Edge
      BY <1>1, <1>4, <1>6, <3>2, LatencyFacts
    <3> QED BY <3>1, <3>2
  <2> QED BY <1>3, <1>4, <2>1, <2>2
<1>9. TickInStep'
  <2>1. trigger' => fired' /\ hit' = MatchAge'
    BY <1>4 DEF MatchAge
  <2>2. ASSUME Edge, state' = "ARMED", ~fired', en1'
        PROVE  pre_count' > cfg'.pre_trigger_len
    BY <1>3, <1>5, <2>2
  <2>3. ASSUME Edge, state' = "ARMED", ~fired', en1', en2'
        PROVE  pre_count' >= Back'
    <3>1. Ready /\ ~fired /\ pre_count > P
      BY <1>5, <1>7, <2>3
    <3>2. pre_count + 1 >= Back
      BY <1>1, <2>3, <3>1, LatencyFacts
    <3> QED BY <1>3, <2>3, <3>1, <3>2
  <2> QED BY <2>1, <2>2, <2>3 DEF TickInStep
<1> QED BY <1>8, <1>9

(* A clock of the control block arms with what the host wrote.             *)
LEMMA ArmClock ==
  ASSUME IInv, Next, Moves
  PROVE  ArmInStep' /\ config' \in Configs \union {ResetConfig} /\ arm_s' \in BOOLEAN
         /\ abort_s' \in BOOLEAN
<1>1. config \in Configs \union {ResetConfig}
  BY DEF IInv, TypeOK
<1>2. CASE Run \/ HostAbort
  BY <1>1, <1>2 DEF Run, HostAbort, Clock, WriteRegs, NoAccess, CommandAbort, ArmInStep
<1>3. CASE Configure
  BY <1>3 DEF Configure, Clock, WriteRegs, WriteConfig, ArmInStep
<1>4. CASE HostArm
  BY <1>4 DEF HostArm, HostMayArm, Clock, WriteRegs, CommandArm, ArmInStep, Moves, regs
<1> QED BY <1>2, <1>3, <1>4 DEF Next

LEMMA ClockOfNext ==
  ASSUME Next
  PROVE  \E access, matched : matched \in BOOLEAN /\ Clock(access, matched)
  BY ConditionsAssumption DEF Next, Run, Configure, HostArm, HostAbort

(* What the cluster's registers are after a clock.                         *)
LEMMA CoreFactsNext ==
  ASSUME Core!IInv'
  PROVE  /\ state' \in States /\ triggered' \in BOOLEAN /\ cfg' \in Configs
         /\ window_idx' \in Nat
         /\ pre_count' \in 0..2*Depth-1 /\ samples_rem' \in 0..Depth /\ offset' \in Addresses
         /\ slot_base' \in Addresses /\ head_offset' \in 0..2*Depth-1
         /\ mem' \in [Addresses -> {Stale} \union 0..Depth]
         /\ head_wr' \in 0..cfg'.window_count
         /\ state' # "IDLE" => head_wr' = window_idx' /\ head_wr' < cfg'.window_count
<1>1. (/\ state \in States /\ triggered \in BOOLEAN /\ cfg \in Configs
       /\ window_idx \in Nat
       /\ pre_count \in 0..2*Depth-1 /\ samples_rem \in 0..Depth /\ offset \in Addresses
       /\ slot_base \in Addresses /\ head_offset \in 0..2*Depth-1
       /\ mem \in [Addresses -> {Stale} \union 0..Depth]
       /\ head_wr \in 0..cfg.window_count
       /\ (state # "IDLE" => head_wr = window_idx /\ head_wr < cfg.window_count))'
  BY CoreFacts, PTL
<1>2. Addresses' = Addresses
  BY DEF Addresses
<1> QED BY <1>1, <1>2 DEF Stale, States

LEMMA ModIn ==
  ASSUME NEW n \in Int, NEW d \in Nat \ {0}
  PROVE  n % d \in 0..d-1
  OBVIOUS

LEMMA TypeClock ==
  ASSUME IInv, Core!IInv', NEW access, NEW matched \in BOOLEAN, Clock(access, matched), Moves,
         config' \in Configs \union {ResetConfig}, arm_s' \in BOOLEAN, abort_s' \in BOOLEAN
  PROVE  TypeOK'
<1>1. /\ cfg' \in Configs /\ head_wr' \in 0..HeadSlots
      /\ window_idx' \in 0..HeadSlots-1
  <2>1. /\ cfg' \in Configs /\ window_idx' \in Nat /\ head_wr' \in 0..cfg'.window_count
        /\ state' # "IDLE" => head_wr' = window_idx' /\ head_wr' < cfg'.window_count
    BY CoreFactsNext
  <2>2. cfg'.window_count \in 1..Depth /\ cfg'.window_count <= HeadSlots
    BY <2>1, ConfigFacts
  <2>3. state' = "IDLE" => window_idx' = window_idx
    BY DEF Moves
  <2>4. window_idx \in 0..HeadSlots-1
    BY DEF IInv, TypeOK
  <2> QED BY <2>1, <2>2, <2>3, <2>4, DepthAssumption, HeadSlotsAssumption
<1>2. heads' \in [0..HeadSlots-1 -> Addresses]
  <2>1. heads \in [0..HeadSlots-1 -> Addresses] /\ HeadO \in Addresses
    <3>1. \A n \in Int : Addr(n) \in Addresses
      BY ModIn, DepthAssumption DEF Addr, Addresses
    <3>2. slot_base \in Int /\ \A a \in Addresses : slot_base + a \in Int
      BY CoreFacts, DepthAssumption DEF IInv, Addresses
    <3>3. (IF state = "ARMED" THEN HeadOff ELSE head_offset) \in Int
      <4>1. cfg \in Configs /\ offset \in Int /\ head_offset \in Int
        BY CoreFacts, DepthAssumption DEF IInv, Addresses
      <4>2. \A n \in Int : n % (2 * Depth) \in Int
        BY DepthAssumption
      <4> QED BY <4>1, <4>2, BackFacts, ConfigFacts, LatencyFacts DEF HeadOff, Reg
    <3>4. HeadO \in Addresses
      BY <3>1, <3>2, <3>3 DEF HeadO
    <3> QED BY <3>4 DEF IInv, TypeOK
  <2> QED BY <2>1 DEF Clock, HeadStore
<1>3. hit' \in 0..Depth /\ hits' \in [0..HeadSlots-1 -> 0..Depth]
  <2>1. /\ hit \in 0..Depth /\ hits \in [0..HeadSlots-1 -> 0..Depth]
        /\ MatchAge \in 0..Depth
    BY LatencyFacts DEF IInv, TypeOK, MatchAge
  <2>2. Older(hit) \in 0..Depth /\ 0 \in 0..Depth
    BY <2>1, DepthAssumption DEF Older
  <2>3. NoHits \in [0..HeadSlots-1 -> 0..Depth]
    BY <2>2 DEF NoHits
  <2>4. hit' \in 0..Depth
    BY <2>1, <2>2 DEF Clock, TrackHits
  <2>5. hits' \in [0..HeadSlots-1 -> 0..Depth]
    BY <2>1, <2>2, <2>3 DEF Clock, TrackHits
  <2> QED BY <2>4, <2>5
<1>4. trigger' \in BOOLEAN /\ fired' \in BOOLEAN /\ raw' \in BOOLEAN
      /\ en1' \in BOOLEAN /\ en2' \in BOOLEAN
  BY EdgeAssumption DEF IInv, TypeOK, Clock, Match, MatchEdge, MatchValue, Fire, Ready
<1>5. /\ state' \in States /\ triggered' \in BOOLEAN
      /\ pre_count' \in 0..2*Depth-1 /\ samples_rem' \in 0..Depth /\ offset' \in Addresses
      /\ slot_base' \in Addresses /\ head_offset' \in 0..2*Depth-1
      /\ mem' \in [Addresses -> {Stale} \union 0..Depth]
  BY CoreFactsNext
<1> QED BY <1>1, <1>2, <1>3, <1>4, <1>5 DEF TypeOK, Addresses, Stale, States

(* Nothing happens without a clock.                                        *)
LEMMA NoClock ==
  ASSUME IInv, UNCHANGED blockVars
  PROVE  IInv'
<1> USE DEF blockVars, regs, triggerVars, controlVars
<1>1. TypeOK' /\ ArmInStep' /\ TickInStep' /\ TickFindsContext'
  BY DEF IInv, TypeOK, ArmInStep, TickInStep, TickFindsContext, MatchAge, Back, Addresses,
     Stale, States
<1>2. Core!IInv'
  <2>1. UNCHANGED CoreProofs!coreVars
    BY DEF CoreProofs!coreVars, CoreProofs!regs, SoFar
  <2>2. CoreProofs!IInv'
    BY <2>1, SameInvariant, CoreProofs!NextIInv, DepthAssumption, LatencyAssumption,
       ConfigsAssumption DEF IInv, LegalConfigs, CoreProofs!LegalConfigs
  <2> QED BY <2>2, SameInvariant, PTL
<1> QED BY <1>1, <1>2 DEF IInv

LEMMA NextIInv ==
  ASSUME IInv, [Next]_blockVars
  PROVE  IInv'
<1>1. CASE Next
  <2>1. PICK access, matched : matched \in BOOLEAN /\ Clock(access, matched)
    BY <1>1, ClockOfNext
  <2>2. PICK c \in Configs : /\ c = IF arm_s THEN config ELSE cfg
                             /\ Step(arm_s, abort_s, trigger, c)
    BY <2>1, StepOfConfig DEF IInv, Clock
  <2>3. arm_s \in BOOLEAN /\ abort_s \in BOOLEAN /\ trigger \in BOOLEAN /\ state \in States
    BY DEF IInv, TypeOK
  <2>4. Moves
    BY <2>2, <2>3, ClockMoves
  <2>5. CoreProofs!Record(arm_s, abort_s, trigger)
    BY <2>1, <2>4, Recorded
  <2>6. Core!IInv'
    BY <2>2, <2>3, <2>5, CoreKept DEF IInv
  <2>7. /\ ArmInStep' /\ config' \in Configs \union {ResetConfig}
        /\ arm_s' \in BOOLEAN /\ abort_s' \in BOOLEAN
    BY <1>1, <2>4, ArmClock
  <2>8. TickInStep' /\ TickFindsContext'
    BY <2>1, <2>4, TickClock
  <2>9. TypeOK'
    BY <2>1, <2>4, <2>6, <2>7, TypeClock
  <2> QED BY <2>6, <2>7, <2>8, <2>9 DEF IInv
<1>2. CASE UNCHANGED blockVars
  BY <1>2, NoClock
<1> QED BY <1>1, <1>2

LEMMA InitIInv ==
  ASSUME Init
  PROVE  IInv
<1>1. /\ Depth \in Nat \ {0} /\ HeadSlots \in Nat \ {0}
      /\ 0 \in Addresses /\ 0 \in 0..HeadSlots-1 /\ 0 \in 0..Depth
  BY DepthAssumption, HeadSlotsAssumption DEF Addresses
<1>2. Core!IInv
  <2>1. head_wr = 0 /\ \A w \in Addresses : ~(w < 0)
    BY <1>1 DEF Init, ControlInit, Addresses
  <2>2. SoFar(heads, head_wr) = CoreProofs!NoHeads /\ SoFar(hits, head_wr) = CoreProofs!NoHeads
    BY <2>1, SameSignals DEF SoFar, CoreProofs!NoHeads
  <2>3. CoreProofs!Init
    BY <2>1, <2>2 DEF Init, CoreInit, CoreProofs!Init, CoreProofs!CoreInit,
       CoreProofs!Addresses, Addresses, CoreProofs!Stale, Stale
  <2> QED BY <2>3, SameInvariant, CoreProofs!InitIInv, DepthAssumption, LatencyAssumption,
          ConfigsAssumption DEF LegalConfigs, CoreProofs!LegalConfigs
<1>3. TypeOK
  <2>1. heads \in [0..HeadSlots-1 -> Addresses] /\ hits \in [0..HeadSlots-1 -> 0..Depth]
    BY <1>1 DEF Init, ControlInit, NoHits
  <2>2. mem \in [Addresses -> {Stale} \union 0..Depth]
    BY DEF Init, CoreInit
  <2>3. 0 \in 0..2*Depth-1 /\ 0 \in 0..HeadSlots
    BY <1>1
  <2>4. /\ state \in States /\ triggered \in BOOLEAN /\ cfg \in Configs
        /\ config \in Configs \union {ResetConfig}
        /\ trigger \in BOOLEAN /\ fired \in BOOLEAN /\ raw \in BOOLEAN
        /\ en1 \in BOOLEAN /\ en2 \in BOOLEAN /\ arm_s \in BOOLEAN /\ abort_s \in BOOLEAN
    BY DEF Init, CoreInit, TriggerInit, ControlInit, States
  <2>5. /\ window_idx \in 0..HeadSlots-1 /\ pre_count \in 0..2*Depth-1
        /\ samples_rem \in 0..Depth /\ offset \in Addresses /\ slot_base \in Addresses
        /\ head_offset \in 0..2*Depth-1 /\ head_wr \in 0..HeadSlots /\ hit \in 0..Depth
    BY <1>1, <2>3 DEF Init, CoreInit, ControlInit
  <2> QED BY <2>1, <2>2, <2>4, <2>5 DEF TypeOK
<1>4. ArmInStep /\ TickInStep /\ TickFindsContext
  BY DEF Init, CoreInit, TriggerInit, ControlInit, ArmInStep, TickInStep, TickFindsContext
<1> QED BY <1>2, <1>3, <1>4 DEF IInv

(* The cluster stays in step: the head array counts the core's windows, a  *)
(* tick finds an armed core with the history it back-dates into, and every *)
(* completed slot reads in time order, whatever the host, the aborts and   *)
(* the samples do.                                                         *)
THEOREM ClusterStaysInStep == Spec => []ClusterInStep
<1>1. IInv => HeadIndexIsWindow
  BY CoreFacts DEF IInv, HeadIndexIsWindow
<1> QED BY <1>1, InitIInv, NextIInv, PTL DEF Spec, ClusterInStep
----------------------------------------------------------------------------
(* What the host reads.                                                    *)

(* A head's slot and its place there, by division.                         *)
LEMMA Division ==
  ASSUME NEW w \in Nat, NEW l \in Nat \ {0}, NEW r \in 0..l-1
  PROVE  (w * l + r) \div l = w
<1> DEFINE n == w * l + r
           q == n \div l
<1>1. n \in Nat
  OBVIOUS
<1>2. q \in Int /\ q * l <= n /\ n < q * l + l
  BY <1>1
<1>3. w * l <= n /\ n < w * l + l
  OBVIOUS
<1> HIDE DEF n, q
<1>4. ~(q < w)
  <2> SUFFICES ASSUME q < w PROVE FALSE
    OBVIOUS
  <2>1. PICK d \in Nat : w = q + 1 + d
    <3>1. w - q - 1 \in Nat
      BY <1>2
    <3> QED BY <1>2, <3>1
  <2>2. w * l = q * l + l + d * l /\ d * l \in Nat
    BY <1>2, <2>1
  <2> QED BY <1>1, <1>2, <1>3, <2>2
<1>5. ~(q > w)
  <2> SUFFICES ASSUME q > w PROVE FALSE
    OBVIOUS
  <2>1. PICK d \in Nat : q = w + 1 + d
    <3>1. q - w - 1 \in Nat
      BY <1>2
    <3> QED BY <1>2, <3>1
  <2>2. q * l = w * l + l + d * l /\ d * l \in Nat
    BY <1>2, <2>1
  <2> QED BY <1>1, <1>2, <1>3, <2>2
<1>6. q = w
  BY <1>2, <1>4, <1>5
<1> QED BY <1>6 DEF n, q

LEMMA Rotation ==
  ASSUME NEW l \in Nat \ {0}, NEW n \in Nat, n < 2 * l
  PROVE  n % l = IF n < l THEN n ELSE n - l
  OBVIOUS

LEMMA RotatedIndex ==
  ASSUME NEW l \in Nat \ {0}, NEW rot \in 0..l-1, NEW j \in 1..l
  PROVE  (rot + j - 1) % l =
           IF rot + (j - 1) < l THEN rot + (j - 1) ELSE (rot + (j - 1)) - l
<1> DEFINE n == rot + j - 1
<1>1. n \in Nat /\ n < 2 * l /\ rot + (j - 1) = n
  OBVIOUS
<1> HIDE DEF n
<1>2. n % l = IF n < l THEN n ELSE n - l
  BY <1>1, Rotation
<1> QED BY <1>1, <1>2 DEF n

(* Read back, every completed window is perfect.                           *)
LEMMA WindowsPerfect ==
  ASSUME IInv, cfg.capture_len - cfg.pre_trigger_len > Latency
  PROVE  /\ Windows = [k \in 1..head_wr |-> Abstract!PerfectWindow(cfg)]
         /\ head_wr \in Nat
<1> DEFINE L == cfg.capture_len
           P == cfg.pre_trigger_len
<1>1. /\ L \in Nat \ {0} /\ P \in 0..L-1 /\ head_wr \in Nat
      /\ \A w \in 0..head_wr-1 : w \in Addresses /\ w \in Nat
  <2>1. cfg \in Configs /\ head_wr \in 0..cfg.window_count
    BY CoreFacts DEF IInv
  <2> QED BY <2>1, ConfigFacts, DepthAssumption DEF Addresses
<1>2. ASSUME NEW w \in 0..head_wr-1
      PROVE  Window(w) = Abstract!PerfectWindow(cfg)
  <2> DEFINE rot == heads[w] - w * L
  <2>1. SoFar(heads, head_wr)[w] = heads[w] /\ SoFar(hits, head_wr)[w] = hits[w]
    BY <1>1 DEF SoFar
  <2>2. Core!InOrder(w)
    BY DEF IInv, Core!IInv, Core!CompletedSlots, Core!PastLatency
  <2>3. /\ rot \in 0..L-1
        /\ hits[w] = L - P - 1
        /\ \A i \in 0..L-1 : mem[w * L + Core!Wrap(rot + i)] = L - 1 - i
    BY <2>1, <2>2 DEF Core!InOrder
  <2>4. heads[w] = w * L + rot /\ w * L \in Nat
    <3>1. heads[w] \in Int
      <4>1. heads \in [0..HeadSlots-1 -> Addresses] /\ w \in 0..HeadSlots-1
        BY <1>1, HeadSlotsAssumption DEF IInv, TypeOK
      <4> QED BY <4>1, DepthAssumption DEF Addresses
    <3>2. w * L \in Nat
      BY <1>1
    <3> QED BY <3>1, <3>2
  <2> HIDE DEF rot
  <2>5. (heads[w] \div L) * L = w * L /\ heads[w] - w * L = rot
    <3>1. (w * L + rot) \div L = w
      BY <1>1, <2>3, Division
    <3> QED BY <2>4, <3>1 DEF rot
  <2>6. ASSUME NEW j \in 1..L
        PROVE  hits[w] - ReadWindow(heads[w], L)[j] = j - 1 - P
    <3>1. (rot + j - 1) % L = Core!Wrap(rot + (j - 1))
      <4>1. (rot + j - 1) % L =
              IF rot + (j - 1) < L THEN rot + (j - 1) ELSE (rot + (j - 1)) - L
        BY <1>1, <2>3, RotatedIndex
      <4> QED BY <4>1 DEF Core!Wrap
    <3>2. ReadWindow(heads[w], L)[j] = mem[w * L + ((rot + j - 1) % L)]
      BY <2>5 DEF ReadWindow
    <3>3. mem[w * L + Core!Wrap(rot + (j - 1))] = L - 1 - (j - 1)
      BY <1>1, <2>3
    <3> QED BY <1>1, <2>3, <3>1, <3>2, <3>3
  <2> QED BY <2>6 DEF Window, Abstract!PerfectWindow
<1>3. \A k \in 1..head_wr : k - 1 \in 0..head_wr-1
  BY <1>1
<1> QED BY <1>1, <1>2, <1>3 DEF Windows

(* What a clock does to the acquisition under way.                         *)
Outcome ==
  \/ state' = state /\ cfg' = cfg /\ ~arm_s /\ ~HeadWeNow
  \/ state # "IDLE" /\ state' # "IDLE" /\ cfg' = cfg /\ ~HeadWeNow
  \/ state = "IDLE" /\ arm_s /\ state' = "ARMED" /\ cfg' = config
  \/ state # "IDLE" /\ state' = "IDLE" /\ cfg' = cfg /\ ~HeadWeNow
  \/ /\ state # "IDLE" /\ HeadWeNow /\ cfg' = cfg
     /\ state' # "IDLE" <=> Reg(window_idx + 1) < cfg.window_count

LEMMA ClockOutcome ==
  ASSUME state \in States, Step(arm_s, abort_s, trigger, config)
  PROVE  Outcome
  BY DEF Step, Idle, Arm, Abort, Fill, Accept, AcceptAndComplete, Capture, CaptureLast, Accepts,
     CompleteWindow, Outcome, States, regs, HeadWeNow, HeadWe

(* A clock is a step of the capture the host sees, or none.                *)
LEMMA RefineClock ==
  ASSUME IInv, IInv', NEW access, NEW matched, Clock(access, matched),
         \A c \in Configs : c.capture_len - c.pre_trigger_len > Latency
  PROVE  [Abstract!Next]_(Abstract!captureVars)
<1> DEFINE W(n, c) == [k \in 1..n |-> Abstract!PerfectWindow(c)]
<1>1. /\ Windows = W(head_wr, cfg) /\ head_wr \in Nat /\ cfg \in Configs
      /\ head_wr <= cfg.window_count /\ cfg.window_count <= Depth
      /\ state # "IDLE" => /\ ~arm_s /\ head_wr < HeadSlots
                           /\ head_wr = window_idx /\ head_wr < cfg.window_count
  <2>1. /\ cfg \in Configs /\ head_wr \in 0..cfg.window_count
        /\ state # "IDLE" => head_wr = window_idx /\ head_wr < cfg.window_count
    BY CoreFacts DEF IInv
  <2> QED BY <2>1, ConfigFacts, WindowsPerfect, DepthAssumption, HeadSlotsAssumption
          DEF IInv, ArmInStep
<1>2. Windows' = W(head_wr', cfg')
  <2>1. cfg' \in Configs
    BY CoreFactsNext DEF IInv
  <2>2. (IInv /\ cfg.capture_len - cfg.pre_trigger_len > Latency =>
          Windows = [k \in 1..head_wr |-> Abstract!PerfectWindow(cfg)])'
    BY WindowsPerfect, PTL
  <2> QED BY <2>1, <2>2 DEF Abstract!PerfectWindow
<1>3. Outcome
  BY ClockOutcome DEF Clock, IInv, TypeOK
<1>4. /\ HeadWeNow /\ state # "IDLE" => head_wr' = head_wr + 1
      /\ ~HeadWeNow /\ ~arm_s => head_wr' = head_wr
      /\ arm_s => head_wr' = 0
  BY <1>1 DEF Clock, HeadStore
<1> HIDE DEF W
<1>5. CASE state' = state /\ cfg' = cfg /\ ~arm_s /\ ~HeadWeNow
  BY <1>1, <1>2, <1>4, <1>5 DEF Abstract!captureVars
<1>6. CASE state # "IDLE" /\ state' # "IDLE" /\ cfg' = cfg /\ ~HeadWeNow
  BY <1>1, <1>2, <1>4, <1>6 DEF Abstract!captureVars
<1>7. CASE state = "IDLE" /\ arm_s /\ state' = "ARMED" /\ cfg' = config
  <2>1. cfg' \in Configs
    BY <1>7 DEF IInv, ArmInStep
  <2>2. Windows' = << >>
    BY <1>2, <1>4, <1>7 DEF W
  <2> QED BY <1>7, <2>1, <2>2 DEF Abstract!Next, Abstract!Arm
<1>8. CASE state # "IDLE" /\ state' = "IDLE" /\ cfg' = cfg /\ ~HeadWeNow
  BY <1>1, <1>2, <1>4, <1>8 DEF Abstract!Next, Abstract!Abort
<1>9. CASE /\ state # "IDLE" /\ HeadWeNow /\ cfg' = cfg
           /\ state' # "IDLE" <=> Reg(window_idx + 1) < cfg.window_count
  <2>1. head_wr' = head_wr + 1 /\ Windows' = W(head_wr + 1, cfg)
    BY <1>2, <1>4, <1>9
  <2>2. Windows' = Append(Windows, Abstract!PerfectWindow(cfg)) /\ Len(Windows') = head_wr + 1
    BY <1>1, <2>1 DEF W
  <2>3. Reg(window_idx + 1) = head_wr + 1
    <3>1. /\ head_wr + 1 \in Nat /\ head_wr + 1 < 2 * Depth /\ 2 * Depth \in Nat \ {0}
          /\ window_idx = head_wr
      BY <1>1, <1>9, ConfigFacts, DepthAssumption
    <3>2. (head_wr + 1) % (2 * Depth) = head_wr + 1
      BY <3>1, Rotation
    <3> QED BY <3>1, <3>2 DEF Reg
  <2> QED BY <1>9, <2>2, <2>3 DEF Abstract!Next, Abstract!Complete
<1> QED BY <1>3, <1>5, <1>6, <1>7, <1>8, <1>9 DEF Outcome

(* A raw cluster is a segmented capture: armed with configurations that    *)
(* reach past the trigger's latency, it completes the windows it was armed *)
(* for one by one, each perfect when read back from its head, and keeps    *)
(* them until the next arm - under any timing of host, samples and aborts. *)
THEOREM ClusterIsSegmentedCapture ==
  ASSUME \A c \in Configs : c.capture_len - c.pre_trigger_len > Latency
  PROVE  Spec => ImplementsSegmentedCapture
<1>1. Init => Abstract!Init
  <2> SUFFICES ASSUME Init PROVE Abstract!Init
    OBVIOUS
  <2>1. Windows = << >>
    BY DEF Init, ControlInit, Windows
  <2> QED BY <2>1 DEF Init, CoreInit, Abstract!Init
<1>2. IInv /\ IInv' /\ [Next]_blockVars => [Abstract!Next]_(Abstract!captureVars)
  <2> SUFFICES ASSUME IInv, IInv', [Next]_blockVars
               PROVE  [Abstract!Next]_(Abstract!captureVars)
    OBVIOUS
  <2>1. CASE Next
    BY <2>1, ClockOfNext, RefineClock
  <2>2. CASE UNCHANGED blockVars
    BY <2>2 DEF blockVars, regs, controlVars, Abstract!captureVars, Windows, Window, ReadWindow
  <2> QED BY <2>1, <2>2
<1> QED BY <1>1, <1>2, InitIInv, NextIInv, PTL DEF Spec, ImplementsSegmentedCapture, Abstract!Spec
=============================================================================
