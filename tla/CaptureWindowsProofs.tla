------------------------ MODULE CaptureWindowsProofs ------------------------
(***************************************************************************)
(* For every buffer depth, trigger latency and set of legal                *)
(* configurations: the capture core writes only inside the slot of the     *)
(* window being filled, and every window it completes reads back in time   *)
(* order with the trigger sample in its place.                             *)
(***************************************************************************)
EXTENDS CaptureWindows, TLAPS

----------------------------------------------------------------------------
(* Arithmetic of the registers and of the slots.                           *)

(* A register keeps a value that fits its width.                           *)
LEMMA RegKeeps == \A n \in 0..2*Depth-1 : Reg(n) = n
  BY DepthAssumption DEF Reg

(* A buffer address keeps a value inside the buffer, and is one always.    *)
LEMMA AddrKeeps == \A n \in Addresses : Addr(n) = n
  BY DepthAssumption DEF Addr, Addresses

(* Whatever is computed, a buffer address is inside the buffer.            *)
LEMMA AddrType == \A n \in Int : Addr(n) \in Addresses
  BY DepthAssumption DEF Addr, Addresses

(* Whatever is computed, a register holds a value of its width.            *)
LEMMA RegType == \A n \in Int : Reg(n) \in 0..2*Depth-1
  BY DepthAssumption DEF Reg

(* What a legal configuration is, field by field.                          *)
LEMMA ConfigFacts ==
  ASSUME NEW c \in Configs
  PROVE  /\ c.capture_len \in 1..Depth
         /\ c.pre_trigger_len \in 0..c.capture_len-1
         /\ c.window_count \in 1..Depth
         /\ c.capture_len * c.window_count <= Depth
  BY ConfigsAssumption, DepthAssumption DEF LegalConfigs

(* Slots follow one another and the last of them ends inside the buffer.   *)
LEMMA SlotAfter ==
  ASSUME NEW len \in Nat, NEW w \in Nat
  PROVE  /\ w * len \in Nat
         /\ (w + 1) * len = w * len + len
  OBVIOUS

(* Slots of earlier windows end where those of later ones begin.           *)
LEMMA SlotOrder ==
  ASSUME NEW len \in Nat, NEW v \in Nat, NEW w \in Nat, v < w
  PROVE  v * len + len <= w * len
<1> DEFINE k == w - (v + 1)
<1>1. k \in Nat
  OBVIOUS
<1>2. w * len = (v + 1) * len + k * len
  <2>1. w = (v + 1) + k
    OBVIOUS
  <2> HIDE DEF k
  <2>2. ((v + 1) + k) * len = (v + 1) * len + k * len
    BY <1>1
  <2> QED BY <2>1, <2>2
<1>3. k * len \in Nat
  BY <1>1
<1> HIDE DEF k
<1>4. (v + 1) * len = v * len + len
  OBVIOUS
<1> QED BY <1>2, <1>3, <1>4

(* The slot of each window armed for lies inside the buffer.               *)
LEMMA SlotFits ==
  ASSUME NEW c \in Configs, NEW w \in Nat, w < c.window_count
  PROVE  w * c.capture_len \in Nat /\ w * c.capture_len + c.capture_len <= Depth
<1>1. c.capture_len \in Nat /\ c.window_count \in Nat
  BY ConfigFacts, DepthAssumption
<1>2. w * c.capture_len + c.capture_len <= c.window_count * c.capture_len
  BY <1>1, SlotOrder
<1>3. c.window_count * c.capture_len = c.capture_len * c.window_count
  BY <1>1
<1> QED BY <1>1, <1>2, <1>3, ConfigFacts, SlotAfter, DepthAssumption
----------------------------------------------------------------------------
(* The combinational signals, once the widths are known to suffice.        *)
LEMMA Signals ==
  ASSUME TypeOK
  PROVE  /\ Back = cfg.pre_trigger_len + Latency
         /\ PostTotal = cfg.capture_len - cfg.pre_trigger_len
         /\ offset < cfg.capture_len =>
              NextOffset = IF offset = cfg.capture_len - 1 THEN 0 ELSE offset + 1
         /\ NextPreCount = IF pre_count < Back THEN pre_count + 1 ELSE pre_count
<1>1. /\ cfg.capture_len \in 1..Depth
      /\ cfg.pre_trigger_len \in 0..cfg.capture_len-1
  BY ConfigFacts DEF TypeOK
<1>2. Back = cfg.pre_trigger_len + Latency
  BY <1>1, RegKeeps, DepthAssumption, LatencyAssumption DEF Back
<1>3. PostTotal = cfg.capture_len - cfg.pre_trigger_len
  BY <1>1, RegKeeps, DepthAssumption DEF PostTotal
<1>4. ASSUME offset < cfg.capture_len
      PROVE  NextOffset = IF offset = cfg.capture_len - 1 THEN 0 ELSE offset + 1
  <2>1. Reg(cfg.capture_len - 1) = cfg.capture_len - 1
    BY <1>1, RegKeeps, DepthAssumption
  <2>2. Reg(offset + 1) = offset + 1
    BY <1>1, <1>4, RegKeeps, DepthAssumption DEF TypeOK, Addresses
  <2> QED BY <2>1, <2>2 DEF NextOffset
<1> QED BY <1>2, <1>3, <1>4 DEF NextPreCount

(* The age an address of the current slot has when the write pointer is at *)
(* off, if it was written; AgeAt is this at the pointer's own position.    *)
AgeFrom(off, o) ==
  IF o < off THEN off - 1 - o ELSE cfg.capture_len + off - 1 - o

(* Storing a sample makes every sample of the slot one older, puts the new *)
(* one where the oldest was, and touches no other slot.                    *)
LEMMA Written ==
  ASSUME TypeOK, Counting, CurrentSlot, Busy, WriteSample
  PROVE  /\ mem' \in [Addresses -> Stale..Depth]
         /\ NextOffset \in 0..cfg.capture_len-1
         /\ \A a \in Addresses :
              (a < slot_base \/ a >= slot_base + cfg.capture_len) => mem'[a] = mem[a]
         /\ \A o \in 0..cfg.capture_len-1 :
              /\ mem'[slot_base + o] \in {Stale, AgeFrom(NextOffset, o)}
              /\ (o < NextOffset \/ AgeFrom(NextOffset, o) < Kept + 1)
                   => mem'[slot_base + o] = AgeFrom(NextOffset, o)
<1> DEFINE L == cfg.capture_len
<1>1. /\ L \in 1..Depth /\ cfg.pre_trigger_len \in 0..L-1
  BY ConfigFacts DEF TypeOK
<1>2. /\ slot_base \in Nat /\ slot_base + L <= Depth
      /\ offset \in 0..L-1
  <2>1. slot_base \in 0..Depth-1 /\ offset \in 0..Depth-1
    BY DEF TypeOK, Addresses
  <2>2. slot_base + L <= Depth /\ offset < L
    BY DEF Counting, SlotsInBuffer
  <2> QED BY <1>1, <2>1, <2>2, DepthAssumption
<1>3. WriteAddr = slot_base + offset
  BY <1>1, <1>2, AddrKeeps, DepthAssumption DEF WriteAddr, Addresses
<1>4. NextOffset = IF offset = L - 1 THEN 0 ELSE offset + 1
  BY <1>1, <1>2, Signals, DepthAssumption
<1>5. \A a \in Addresses : mem[a] \in -1..Depth
  BY DEF TypeOK, Stale
<1>6. \A a \in Addresses :
        mem'[a] = IF a = slot_base + offset THEN 0
                  ELSE IF slot_base <= a /\ a < slot_base + L
                          /\ mem[a] # -1 /\ mem[a] < Depth THEN mem[a] + 1
                  ELSE mem[a]
  BY <1>3 DEF WriteSample, Slot, Stale
<1>7. mem' \in [Addresses -> Stale..Depth]
  <2>1. \A a \in Addresses : mem'[a] \in -1..Depth
    BY <1>5, <1>6, DepthAssumption
  <2> QED BY <2>1 DEF WriteSample, Stale
<1>8. ASSUME NEW o \in 0..L-1
      PROVE  /\ slot_base + o \in Addresses
             /\ mem[slot_base + o] \in {-1, AgeFrom(offset, o)}
             /\ (o < offset \/ AgeFrom(offset, o) < Kept)
                  => mem[slot_base + o] = AgeFrom(offset, o)
  BY <1>1, <1>2, DepthAssumption DEF CurrentSlot, Addresses, AgeAt, AgeFrom, Stale
<1>9. ASSUME NEW o \in 0..L-1
      PROVE  /\ mem'[slot_base + o] \in {Stale, AgeFrom(NextOffset, o)}
             /\ (o < NextOffset \/ AgeFrom(NextOffset, o) < Kept + 1)
                  => mem'[slot_base + o] = AgeFrom(NextOffset, o)
  <2>0. Kept \in Int
    BY <1>1 DEF Kept, TypeOK
  <2>1. CASE o = offset
    <3>1. mem'[slot_base + o] = 0
      BY <1>6, <1>8, <2>1
    <3>2. AgeFrom(NextOffset, o) = 0
      BY <1>1, <1>2, <1>4, <2>1, DepthAssumption DEF AgeFrom
    <3> QED BY <3>1, <3>2 DEF Stale
  <2>2. CASE o # offset
    <3>1. AgeFrom(NextOffset, o) = AgeFrom(offset, o) + 1
      BY <1>1, <1>2, <1>4, <2>2, DepthAssumption DEF AgeFrom
    <3>2. AgeFrom(offset, o) \in 0..Depth-1
      BY <1>1, <1>2, <2>2, DepthAssumption DEF AgeFrom
    <3>3. mem'[slot_base + o] = IF mem[slot_base + o] # -1 /\ mem[slot_base + o] < Depth
                                THEN mem[slot_base + o] + 1 ELSE mem[slot_base + o]
      BY <1>1, <1>2, <1>6, <1>8, <2>2
    <3>4. mem[slot_base + o] = AgeFrom(offset, o)
             => mem'[slot_base + o] = AgeFrom(NextOffset, o)
      BY <3>1, <3>2, <3>3, DepthAssumption
    <3>5. mem[slot_base + o] = -1 => mem'[slot_base + o] = -1
      BY <3>3
    <3>6. (o < NextOffset \/ AgeFrom(NextOffset, o) < Kept + 1)
             => (o < offset \/ AgeFrom(offset, o) < Kept)
      BY <1>1, <1>2, <1>4, <2>0, <2>2, <3>1, <3>2
    <3> QED BY <1>8, <3>4, <3>5, <3>6 DEF Stale
  <2> QED BY <2>1, <2>2
<1>10. \A a \in Addresses :
         (a < slot_base \/ a >= slot_base + L) => mem'[a] = mem[a]
  BY <1>1, <1>2, <1>6 DEF Addresses
<1>11. NextOffset \in 0..L-1
  BY <1>1, <1>2, <1>4
<1> QED BY <1>7, <1>9, <1>10, <1>11
----------------------------------------------------------------------------
(* Completed windows.                                                      *)

(* A window stays in order while nothing is written at or below its slot.  *)
LEMMA WindowKept ==
  ASSUME cfg \in Configs, cfg' = cfg, NEW w \in Nat, InOrder(w),
         emitted'[w] = emitted[w], hits'[w] = hits[w],
         \A a \in 0..w*cfg.capture_len+cfg.capture_len-1 : mem'[a] = mem[a]
  PROVE  InOrder(w)'
<1> DEFINE L == cfg.capture_len
           base == w * L
           rot == emitted[w] - base
<1>1. L \in Nat \ {0}
  BY ConfigFacts, DepthAssumption
<1>2. base \in Nat
  BY <1>1, SlotAfter
<1>3. rot \in 0..L-1
  BY DEF InOrder
<1> HIDE DEF base, rot
<1>4. ASSUME NEW i \in 0..L-1
      PROVE  base + Wrap(rot + i) \in 0..base+L-1
  BY <1>1, <1>2, <1>3 DEF Wrap
<1>5. \A i \in 0..L-1 : mem'[base + Wrap(rot + i)] = mem[base + Wrap(rot + i)]
  BY <1>4 DEF base
<1> USE DEF base, rot
<1>6. \A i \in 0..L-1 : Wrap(rot + i)' = Wrap(rot + i)
  BY DEF Wrap
<1> QED BY <1>5, <1>6 DEF InOrder

(* From a head whose sample is the oldest of a full slot, reading on with  *)
(* wrap-around meets the ages in descending order.                         *)
LEMMA DescendingAges ==
  ASSUME cfg \in Configs,
         NEW off \in 0..cfg.capture_len-1, NEW h \in 0..cfg.capture_len-1,
         AgeFrom(off, h) = cfg.capture_len - 1,
         NEW i \in 0..cfg.capture_len-1
  PROVE  /\ Wrap(h + i) \in 0..cfg.capture_len-1
         /\ AgeFrom(off, Wrap(h + i)) = cfg.capture_len - 1 - i
<1>1. cfg.capture_len \in Nat \ {0}
  BY ConfigFacts, DepthAssumption
<1>2. h = off
  BY <1>1 DEF AgeFrom
<1> QED BY <1>1, <1>2 DEF AgeFrom, Wrap

(* A clock that stores a sample leaves the windows already completed alone.*)
LEMMA OldWindowsKept ==
  ASSUME IInv, Busy, WriteSample, cfg' = cfg, PastLatency,
         NEW w \in 0..done-1, emitted'[w] = emitted[w], hits'[w] = hits[w]
  PROVE  InOrder(w)'
<1> DEFINE L == cfg.capture_len
<1>1. cfg \in Configs /\ L \in Nat /\ w \in Nat /\ done \in Nat
  BY ConfigFacts DEF IInv, TypeOK
<1>2. slot_base = done * L /\ slot_base \in 0..Depth-1
  BY DEF IInv, TypeOK, Counting, SlotsInBuffer, Addresses
<1>3. w * L + L <= slot_base
  BY <1>1, <1>2, SlotOrder
<1>4. w * L \in Nat
  BY <1>1, SlotAfter
<1>5. \A a \in Addresses : a < slot_base => mem'[a] = mem[a]
  BY Written DEF IInv
<1> HIDE DEF L
<1>6. \A a \in 0..w*L+L-1 : mem'[a] = mem[a]
  BY <1>1, <1>2, <1>3, <1>4, <1>5, DepthAssumption DEF Addresses
<1>7. InOrder(w)
  BY DEF IInv, CompletedSlots
<1> QED BY <1>1, <1>6, <1>7, WindowKept DEF L

(* The window completed by this clock is in order, given that the sample   *)
(* at the emitted head becomes the oldest of a slot that becomes full.     *)
LEMMA NewWindowInOrder ==
  ASSUME IInv, Busy, WriteSample, cfg' = cfg, PastLatency,
         NEW w \in Nat, w = done, NEW h \in 0..cfg.capture_len-1,
         AgeFrom(NextOffset, h) = cfg.capture_len - 1,
         Kept + 1 >= cfg.capture_len,
         emitted'[w] = slot_base + h,
         hits'[w] = cfg.capture_len - cfg.pre_trigger_len - 1
  PROVE  InOrder(w)'
<1> DEFINE L == cfg.capture_len
<1>1. cfg \in Configs /\ L \in Nat \ {0} /\ done \in Nat /\ Kept \in Int
  BY ConfigFacts, DepthAssumption DEF IInv, TypeOK, Kept
<1>2. slot_base = w * L /\ slot_base \in Nat
  BY DEF IInv, TypeOK, Counting, SlotsInBuffer, Addresses
<1>3. /\ NextOffset \in 0..L-1
      /\ \A o \in 0..L-1 :
           AgeFrom(NextOffset, o) < Kept + 1
             => mem'[slot_base + o] = AgeFrom(NextOffset, o)
  BY Written DEF IInv
<1>4. ASSUME NEW i \in 0..L-1
      PROVE  mem'[slot_base + Wrap(h + i)] = L - 1 - i
  <2>1. Wrap(h + i) \in 0..L-1 /\ AgeFrom(NextOffset, Wrap(h + i)) = L - 1 - i
    BY <1>1, <1>3, DescendingAges
  <2>2. AgeFrom(NextOffset, Wrap(h + i)) < Kept + 1
    BY <1>1, <2>1
  <2> QED BY <1>3, <2>1, <2>2
<1>5. \A i \in 0..L-1 : Wrap(h + i)' = Wrap(h + i)
  BY DEF Wrap
<1>6. emitted'[w] - w * L = h
  BY <1>1, <1>2
<1>7. /\ (emitted'[w] - w * L) \in 0..L-1
      /\ hits'[w] = L - cfg.pre_trigger_len - 1
      /\ \A i \in 0..L-1 :
           mem'[w * L + Wrap((emitted'[w] - w * L) + i)] = L - 1 - i
  BY <1>2, <1>4, <1>6
<1> QED BY <1>7 DEF InOrder, Wrap
----------------------------------------------------------------------------
(* The invariant holds at reset and every action preserves it.             *)

(* An emptied buffer and head array, and a zero in every register, are     *)
(* well typed.                                                             *)
LEMMA Cleared ==
  /\ [a \in Addresses |-> Stale] \in [Addresses -> Stale..Depth]
  /\ NoHeads \in [Addresses -> Addresses]
  /\ NoHeads \in [Addresses -> 0..Depth]
  /\ 0 \in Addresses /\ 0 \in 0..Depth /\ 0 \in 0..2*Depth-1
<1>1. /\ 0 \in Addresses /\ 0 \in 0..Depth /\ 0 \in 0..2*Depth-1
      /\ Stale \in Stale..Depth
  BY DepthAssumption DEF Addresses, Stale
<1> QED BY <1>1 DEF NoHeads

(* Reset establishes the invariant.                                        *)
LEMMA InitIInv == Init => IInv
<1> SUFFICES ASSUME Init PROVE IInv
  OBVIOUS
<1> USE DEF Init, CoreInit
<1>1. cfg.window_count \in Nat
  BY ConfigFacts
<1>2. TypeOK
  BY Cleared DEF TypeOK, States
<1>3. Counting
  BY <1>1 DEF Counting, Busy
<1>4. CurrentSlot /\ FutureSlots /\ Filling /\ Capturing
  BY DEF CurrentSlot, FutureSlots, Filling, Capturing, Busy
<1>5. CompletedSlots
  BY DEF CompletedSlots
<1> QED BY <1>2, <1>3, <1>4, <1>5 DEF IInv

(* An arm of the idle core establishes the invariant afresh.               *)
LEMMA ArmStep ==
  ASSUME IInv, NEW abort, NEW trigger, NEW c \in Configs,
         Arm(TRUE, c), Record(TRUE, abort, trigger)
  PROVE  IInv'
<1>1. /\ c.capture_len \in 1..Depth /\ c.pre_trigger_len \in Nat
      /\ c.window_count \in 1..Depth
  BY ConfigFacts
<1>2. state = "IDLE" /\ done' = 0 /\ emitted' = NoHeads /\ hits' = NoHeads /\ hit' = 0
  BY DEF Arm, Record, HeadWe, Accepts
<1> USE DEF Arm
<1>3. TypeOK'
  BY <1>2, Cleared DEF IInv, TypeOK, States
<1>4. Counting'
  <2>1. WriteAddr' = 0
    BY AddrKeeps, DepthAssumption DEF WriteAddr, Addresses
  <2>2. 0 \in Slot'
    BY <1>1, DepthAssumption DEF Slot, Addresses
  <2>3. 0 * c.capture_len = 0
    BY <1>1
  <2> QED BY <1>1, <1>2, <2>1, <2>2, <2>3, DepthAssumption DEF Counting, Busy, SlotsInBuffer
<1>5. CurrentSlot'
  <2> SUFFICES ASSUME NEW o \in 0..c.capture_len-1
               PROVE  /\ mem'[0 + o] = Stale
                      /\ ~(o < 0) /\ ~(AgeAt(o)' < 0)
    BY DEF CurrentSlot, Kept
  <2>1. 0 + o \in Addresses
    BY <1>1, DepthAssumption DEF Addresses
  <2> QED BY <1>1, <2>1 DEF AgeAt
<1>6. FutureSlots'
  BY DEF FutureSlots
<1>7. Filling' /\ Capturing'
  BY <1>1, LatencyAssumption, DepthAssumption DEF Filling, Capturing
<1>8. CompletedSlots'
  BY <1>2 DEF CompletedSlots
<1> QED BY <1>3, <1>4, <1>5, <1>6, <1>7, <1>8 DEF IInv

(* A clock without an arm leaves the idle core as it was.                  *)
LEMMA IdleStep ==
  ASSUME IInv, NEW abort, NEW trigger, Idle(FALSE), Record(FALSE, abort, trigger)
  PROVE  IInv'
<1>1. /\ state = "IDLE" /\ hit' = 0
      /\ UNCHANGED <<regs, mem, done, emitted, hits>>
  BY DEF Idle, Record, HeadWe, Accepts, regs
<1> USE <1>1 DEF regs
<1>2. TypeOK'
  BY DepthAssumption DEF IInv, TypeOK
<1>3. Counting' /\ CurrentSlot' /\ FutureSlots' /\ Filling' /\ Capturing'
  BY DEF IInv, Counting, CurrentSlot, FutureSlots, Filling, Capturing, Busy
<1>4. CompletedSlots'
  BY DEF IInv, CompletedSlots, PastLatency, InOrder, Wrap
<1> QED BY <1>2, <1>3, <1>4 DEF IInv

(* An abort keeps the windows already completed.                           *)
LEMMA AbortStep ==
  ASSUME IInv, NEW arm, NEW trigger, Abort(TRUE), Record(arm, TRUE, trigger)
  PROVE  IInv'
<1>1. Busy /\ WriteSample /\ cfg' = cfg /\ state' = "IDLE"
  BY DEF Abort, Busy, IInv, TypeOK, States
<1>2. UNCHANGED <<done, emitted, hits>>
  BY <1>1 DEF Record, HeadWe, Accepts, Busy
<1>3. hit' \in 0..Depth
  BY <1>1, ConfigFacts, DepthAssumption, LatencyAssumption
     DEF Record, HitNow, Accepts, Busy, IInv, TypeOK, Capturing
<1>4. NextOffset \in Addresses /\ mem' \in [Addresses -> Stale..Depth]
  <2>1. cfg.capture_len \in 1..Depth
    BY ConfigFacts DEF IInv, TypeOK
  <2>2. NextOffset \in 0..cfg.capture_len-1 /\ mem' \in [Addresses -> Stale..Depth]
    BY <1>1, Written DEF IInv
  <2> QED BY <2>1, <2>2, DepthAssumption DEF Addresses
<1>5. TypeOK'
  <2>1. pre_count' \in 0..2*Depth-1
    BY Signals, ConfigFacts, LatencyAssumption, DepthAssumption DEF Abort, IInv, TypeOK
  <2> QED BY <1>1, <1>2, <1>3, <1>4, <2>1 DEF Abort, IInv, TypeOK, States
<1>6. Counting' /\ CurrentSlot' /\ FutureSlots' /\ Filling' /\ Capturing'
  BY <1>1, <1>2 DEF IInv, Counting, CurrentSlot, FutureSlots, Filling, Capturing, Busy
<1>7. CompletedSlots'
  BY <1>1, <1>2, OldWindowsKept DEF CompletedSlots, PastLatency
<1> QED BY <1>5, <1>6, <1>7 DEF IInv

(* A clock that stores a sample and stays in the slot of its window.       *)
LEMMA SameSlot ==
  ASSUME IInv, Busy, Busy', WriteSample, offset' = NextOffset,
         UNCHANGED <<cfg, window_idx, slot_base, done>>,
         Kept' \in Int, Kept' <= Kept + 1
  PROVE  /\ offset' \in Addresses /\ mem' \in [Addresses -> Stale..Depth]
         /\ Counting' /\ CurrentSlot' /\ FutureSlots'
<1> DEFINE L == cfg.capture_len
<1>1. L \in 1..Depth /\ cfg.pre_trigger_len \in 0..L-1
  BY ConfigFacts DEF IInv, TypeOK
<1>2. /\ slot_base \in Nat /\ slot_base + L <= Depth
      /\ slot_base = window_idx * L
      /\ done = window_idx /\ window_idx < cfg.window_count
      /\ done <= cfg.window_count
  BY DEF IInv, TypeOK, Counting, SlotsInBuffer, Addresses
<1>3. /\ mem' \in [Addresses -> Stale..Depth]
      /\ NextOffset \in 0..L-1
      /\ \A a \in Addresses : (a < slot_base \/ a >= slot_base + L) => mem'[a] = mem[a]
      /\ \A o \in 0..L-1 :
           /\ mem'[slot_base + o] \in {Stale, AgeFrom(NextOffset, o)}
           /\ (o < NextOffset \/ AgeFrom(NextOffset, o) < Kept + 1)
                => mem'[slot_base + o] = AgeFrom(NextOffset, o)
  BY Written DEF IInv
<1>4. Kept \in Int
  BY <1>1 DEF Kept, IInv, TypeOK
<1>5. offset' \in Addresses
  BY <1>1, <1>3, DepthAssumption DEF Addresses
<1>6. Counting'
  <2>1. WriteAddr' = slot_base + NextOffset
    BY <1>1, <1>2, <1>3, AddrKeeps, DepthAssumption DEF WriteAddr, Addresses
  <2>2. (slot_base + NextOffset) \in Slot'
    <3>1. /\ (slot_base + NextOffset) \in Addresses
          /\ slot_base <= slot_base + NextOffset
          /\ slot_base + NextOffset < slot_base + L
      <4>1. NextOffset \in 0..L-1
        BY <1>3
      <4> QED BY <1>1, <1>2, <4>1, DepthAssumption DEF Addresses
    <3> QED BY <3>1 DEF Slot
  <2>3. SlotsInBuffer'
    BY <1>1, <1>2, <1>3, <2>1, <2>2 DEF SlotsInBuffer
  <2> QED BY <1>2, <2>3 DEF Counting
<1>7. CurrentSlot'
  <2> SUFFICES ASSUME NEW o \in 0..L-1
               PROVE  /\ mem'[slot_base + o] \in {Stale, AgeFrom(NextOffset, o)}
                      /\ (o < NextOffset \/ AgeFrom(NextOffset, o) < Kept')
                           => mem'[slot_base + o] = AgeFrom(NextOffset, o)
    BY DEF CurrentSlot, AgeAt, AgeFrom
  <2>1. AgeFrom(NextOffset, o) \in Int
    BY <1>1, <1>3 DEF AgeFrom
  <2> QED BY <1>3, <1>4, <2>1
<1>8. FutureSlots'
  BY <1>1, <1>2, <1>3 DEF FutureSlots, IInv
<1> QED BY <1>3, <1>5, <1>6, <1>7, <1>8

(* A clock that fills history keeps the invariant.                         *)
LEMMA FillStep ==
  ASSUME IInv, NEW arm, NEW trigger, Fill(FALSE, trigger), Record(arm, FALSE, trigger)
  PROVE  IInv'
<1>1. /\ Busy /\ Busy' /\ WriteSample /\ state = "ARMED" /\ state' = "ARMED"
      /\ UNCHANGED <<cfg, window_idx, slot_base>>
  BY DEF Fill, Busy
<1>2. UNCHANGED <<done, emitted, hits>> /\ hit' = 0
  BY <1>1 DEF Fill, Record, HeadWe
<1>3. /\ pre_count \in Nat /\ pre_count <= cfg.pre_trigger_len + Latency
      /\ cfg.pre_trigger_len \in 0..Depth-1
  BY <1>1, ConfigFacts, DepthAssumption DEF IInv, TypeOK, Filling
<1>4. /\ pre_count' \in Nat
      /\ pre_count' <= pre_count + 1
      /\ pre_count' <= cfg.pre_trigger_len + Latency
  BY <1>3, Signals, LatencyAssumption DEF Fill, IInv
<1>5. /\ offset' \in Addresses /\ mem' \in [Addresses -> Stale..Depth]
      /\ Counting' /\ CurrentSlot' /\ FutureSlots'
  BY <1>1, <1>2, <1>3, <1>4, SameSlot DEF Fill, Kept
<1>6. TypeOK'
  <2>1. pre_count' \in 0..2*Depth-1
    BY <1>3, <1>4, LatencyAssumption, DepthAssumption
  <2> QED BY <1>1, <1>2, <1>5, <2>1, Cleared DEF Fill, IInv, TypeOK
<1>7. Filling' /\ Capturing'
  BY <1>1, <1>4 DEF Filling, Capturing
<1>8. CompletedSlots'
  BY <1>1, <1>2, OldWindowsKept DEF CompletedSlots, PastLatency
<1> QED BY <1>5, <1>6, <1>7, <1>8 DEF IInv

(* A clock that captures a sample after the trigger keeps it.              *)
LEMMA CaptureStep ==
  ASSUME IInv, NEW arm, NEW trigger, Capture(FALSE), Record(arm, FALSE, trigger)
  PROVE  IInv'
<1> DEFINE L == cfg.capture_len
           P == cfg.pre_trigger_len
<1>1. /\ Busy /\ Busy' /\ WriteSample /\ state = "CAPTURING" /\ state' = "CAPTURING"
      /\ UNCHANGED <<cfg, window_idx, slot_base, head_offset>>
  BY DEF Capture, Busy
<1>2. UNCHANGED <<done, emitted, hits>> /\ hit' = hit + 1
  BY <1>1 DEF Capture, Record, HitNow, HeadWe, Accepts
<1>3. /\ L \in 1..Depth /\ P \in 0..L-1 /\ hit \in Nat /\ offset \in 0..L-1
      /\ samples_rem \in 2..Depth /\ samples_rem = L - P - 1 - hit
      /\ head_offset \in 0..L-1 /\ AgeAt(head_offset) = P + hit
      /\ hit >= Latency /\ PastLatency
  <2>1. L \in 1..Depth /\ P \in 0..L-1
    BY ConfigFacts DEF IInv, TypeOK
  <2>2. offset \in Nat /\ offset < L
    BY <1>1 DEF IInv, TypeOK, Counting, SlotsInBuffer, Addresses
  <2>3. hit \in Nat /\ samples_rem \in 0..Depth
    BY DEF IInv, TypeOK
  <2>4. samples_rem # 1
    BY DEF Capture
  <2> QED BY <1>1, <2>1, <2>2, <2>3, <2>4, DepthAssumption DEF IInv, Capturing
<1>4. samples_rem' = samples_rem - 1
  <2>1. Reg(samples_rem - 1) = samples_rem - 1
    BY <1>3, RegKeeps, DepthAssumption
  <2> QED BY <2>1 DEF Capture
<1>5. /\ offset' \in Addresses /\ mem' \in [Addresses -> Stale..Depth]
      /\ Counting' /\ CurrentSlot' /\ FutureSlots'
  BY <1>1, <1>2, <1>3, SameSlot DEF Capture, Kept
<1>6. TypeOK'
  <2>1. hit' \in 0..Depth /\ samples_rem' \in 0..Depth
    BY <1>2, <1>3, <1>4, DepthAssumption
  <2> QED BY <1>1, <1>2, <1>5, <2>1 DEF Capture, IInv, TypeOK
<1>7. Filling' /\ Capturing'
  <2>1. offset' = IF offset = L - 1 THEN 0 ELSE offset + 1
    BY <1>3, Signals, DepthAssumption DEF Capture, IInv
  <2>2. AgeAt(head_offset)' = P + hit + 1
    BY <1>1, <1>3, <2>1, DepthAssumption DEF AgeAt
  <2>3. PastLatency'
    BY <1>1, <1>3 DEF PastLatency
  <2> QED BY <1>1, <1>2, <1>3, <1>4, <2>2, <2>3, LatencyAssumption, DepthAssumption
          DEF Filling, Capturing
<1>8. CompletedSlots'
  BY <1>1, <1>2, OldWindowsKept DEF CompletedSlots, PastLatency
<1> QED BY <1>5, <1>6, <1>7, <1>8 DEF IInv

(* Accepting a trigger that leaves samples to come: the sample Latency     *)
(* clocks old is the trigger's, and the oldest to keep is Back old.        *)
LEMMA AcceptStep ==
  ASSUME IInv, NEW arm, Accept(FALSE, TRUE), Record(arm, FALSE, TRUE)
  PROVE  IInv'
<1> DEFINE L == cfg.capture_len
           P == cfg.pre_trigger_len
<1>1. /\ Busy /\ Busy' /\ WriteSample /\ state = "ARMED" /\ state' = "CAPTURING"
      /\ UNCHANGED <<cfg, window_idx, slot_base>>
  BY DEF Accept, Accepts, Busy
<1>2. UNCHANGED <<done, emitted, hits>> /\ hit' = Latency
  BY <1>1 DEF Accept, Record, HitNow, HeadWe
<1>3. /\ L \in 1..Depth /\ P \in 0..L-1 /\ offset \in 0..L-1
  <2>1. L \in 1..Depth /\ P \in 0..L-1
    BY ConfigFacts DEF IInv, TypeOK
  <2>2. offset \in Nat /\ offset < L
    BY <1>1 DEF IInv, TypeOK, Counting, SlotsInBuffer, Addresses
  <2> QED BY <2>1, <2>2, DepthAssumption
<1>4. /\ Back = P + Latency /\ PostTotal = L - P
      /\ NextOffset = IF offset = L - 1 THEN 0 ELSE offset + 1
  BY <1>3, Signals, DepthAssumption DEF IInv
<1>5. L - P > Latency + 1
  BY <1>3, <1>4, LatencyAssumption, DepthAssumption DEF Accept, AcceptsWhole
<1>6. samples_rem' = L - P - 1 - Latency /\ samples_rem' \in 1..Depth
  <2>1. Reg(PostTotal - 1 - Latency) = L - P - 1 - Latency
    BY <1>3, <1>4, <1>5, RegKeeps, LatencyAssumption, DepthAssumption
  <2> QED BY <1>3, <1>5, <2>1, LatencyAssumption, DepthAssumption DEF Accept
<1>7. head_offset' = IF offset >= P + Latency THEN offset - (P + Latency)
                     ELSE offset - (P + Latency) + L
  <2>1. offset < P + Latency => Reg(offset - Back + L) = offset - (P + Latency) + L
    BY <1>3, <1>4, <1>5, RegKeeps, LatencyAssumption, DepthAssumption
  <2> QED BY <1>3, <1>4, <2>1, LatencyAssumption, DepthAssumption DEF Accept, HeadOff
<1>8. /\ offset' \in Addresses /\ mem' \in [Addresses -> Stale..Depth]
      /\ Counting' /\ CurrentSlot' /\ FutureSlots'
  <2>1. Kept' = P + Latency + 1
    BY <1>1, <1>2 DEF Kept
  <2>2. Kept' <= Kept + 1
    BY <1>1, <1>3, <1>4, <2>1, LatencyAssumption DEF Accept, Accepts, Kept, IInv, TypeOK
  <2> QED BY <1>1, <1>2, <1>3, <2>1, <2>2, SameSlot, LatencyAssumption, DepthAssumption
          DEF Accept
<1>9. head_offset' \in 0..L-1
  BY <1>3, <1>5, <1>7, LatencyAssumption, DepthAssumption
<1>10. TypeOK'
  <2>1. pre_count' \in 0..2*Depth-1
    BY <1>3, <1>4, Signals, LatencyAssumption, DepthAssumption DEF Accept, IInv, TypeOK
  <2>2. hit' \in 0..Depth /\ samples_rem' \in 0..Depth /\ head_offset' \in 0..2*Depth-1
    BY <1>2, <1>3, <1>6, <1>9, LatencyAssumption, DepthAssumption
  <2> QED BY <1>1, <1>2, <1>8, <2>1, <2>2 DEF Accept, IInv, TypeOK, States
<1>11. Filling' /\ Capturing'
  <2>1. offset' = IF offset = L - 1 THEN 0 ELSE offset + 1
    BY <1>4 DEF Accept
  <2>2. AgeAt(head_offset)' = P + Latency
    BY <1>1, <1>3, <1>5, <1>7, <2>1, LatencyAssumption, DepthAssumption DEF AgeAt
  <2>3. PastLatency'
    BY <1>1, <1>3, <1>5, LatencyAssumption, DepthAssumption DEF PastLatency
  <2> QED BY <1>1, <1>2, <1>3, <1>6, <1>9, <2>2, <2>3, LatencyAssumption, DepthAssumption
          DEF Filling, Capturing
<1>12. CompletedSlots'
  BY <1>1, <1>2, OldWindowsKept DEF CompletedSlots, PastLatency
<1> QED BY <1>8, <1>10, <1>11, <1>12 DEF IInv

(* Completing a window, whichever branch does it: the next slot starts     *)
(* empty, or the core is idle.                                             *)
LEMMA Completing ==
  ASSUME IInv, Busy, WriteSample, CompleteWindow, cfg' = cfg,
         triggered' \in BOOLEAN, samples_rem' = samples_rem,
         head_offset' \in 0..2*Depth-1, hit' = 0, NEW age \in 0..Depth,
         done' = done + 1,
         emitted' = [emitted EXCEPT ![done] = HeadO],
         hits' = [hits EXCEPT ![done] = age],
         PastLatency =>
           \E h \in 0..cfg.capture_len-1 :
             /\ HeadO = slot_base + h
             /\ AgeFrom(NextOffset, h) = cfg.capture_len - 1
             /\ Kept + 1 >= cfg.capture_len
             /\ age = cfg.capture_len - cfg.pre_trigger_len - 1
  PROVE  IInv'
<1> DEFINE L == cfg.capture_len
           more == window_idx + 1 < cfg.window_count
<1>1. /\ cfg \in Configs /\ L \in 1..Depth /\ cfg.pre_trigger_len \in 0..L-1
      /\ cfg.window_count \in 1..Depth
  BY ConfigFacts DEF IInv, TypeOK
<1>2. /\ slot_base \in 0..Depth-1 /\ slot_base + L <= Depth
      /\ slot_base = window_idx * L
      /\ done = window_idx /\ window_idx \in 0..Depth-1 /\ window_idx < cfg.window_count
  BY DEF IInv, TypeOK, Counting, SlotsInBuffer, Addresses
<1>3. /\ mem' \in [Addresses -> Stale..Depth]
      /\ NextOffset \in 0..L-1
      /\ \A a \in Addresses : (a < slot_base \/ a >= slot_base + L) => mem'[a] = mem[a]
  BY Written DEF IInv
<1>4. Reg(window_idx + 1) = window_idx + 1
  BY <1>2, RegKeeps, DepthAssumption
<1>5. HeadO \in Addresses
  <2>1. Addr(IF state = "ARMED" THEN HeadOff ELSE head_offset) \in Int
    <3>1. HeadOff \in Int /\ head_offset \in Int
      <4>1. Back \in Int
        BY <1>1, Signals, LatencyAssumption, DepthAssumption DEF IInv
      <4>2. offset \in Int /\ head_offset \in Int
        BY DepthAssumption DEF IInv, TypeOK, Addresses
      <4>3. Reg(offset - Back + L) \in Int
        <5>1. (offset - Back + L) \in Int
          BY <1>1, <4>1, <4>2
        <5> QED BY <5>1, RegType, DepthAssumption
      <4> QED BY <4>1, <4>2, <4>3 DEF HeadOff
    <3> QED BY <3>1, AddrType, DepthAssumption DEF Addresses
  <2> QED BY <1>2, <2>1, AddrType, DepthAssumption DEF HeadO
<1>6. /\ emitted' \in [Addresses -> Addresses] /\ hits' \in [Addresses -> 0..Depth]
      /\ emitted'[done] = HeadO /\ hits'[done] = age
      /\ \A w \in 0..done-1 : emitted'[w] = emitted[w] /\ hits'[w] = hits[w]
  <2>1. done \in Addresses
    BY <1>2, DepthAssumption DEF Addresses
  <2>2. emitted \in [Addresses -> Addresses] /\ hits \in [Addresses -> 0..Depth]
    BY DEF IInv, TypeOK
  <2>3. 0..done-1 \subseteq Addresses /\ done \notin 0..done-1
    BY <1>2, DepthAssumption DEF Addresses
  <2> QED BY <1>5, <2>1, <2>2, <2>3
<1>7. CompletedSlots'
  <2> SUFFICES ASSUME PastLatency, NEW w \in 0..done
               PROVE  InOrder(w)'
    BY <1>2 DEF CompletedSlots, PastLatency
  <2>1. CASE w \in 0..done-1
    BY <1>6, <2>1, OldWindowsKept
  <2>2. CASE w = done
    <3>1. PICK h \in 0..L-1 : /\ HeadO = slot_base + h
                              /\ AgeFrom(NextOffset, h) = L - 1
                              /\ Kept + 1 >= L
                              /\ age = L - cfg.pre_trigger_len - 1
      OBVIOUS
    <3>2. w \in Nat /\ emitted'[w] = slot_base + h /\ hits'[w] = L - cfg.pre_trigger_len - 1
      BY <1>2, <1>6, <2>2, <3>1
    <3> QED BY <2>2, <3>1, <3>2, NewWindowInOrder
  <2> QED BY <1>2, <2>1, <2>2
<1>8. CASE more
  <2>1. /\ state' = "ARMED" /\ window_idx' = window_idx + 1 /\ offset' = 0 /\ pre_count' = 0
        /\ slot_base' = Addr(slot_base + L)
    BY <1>4, <1>8 DEF CompleteWindow
  <2>2. /\ slot_base + L = (window_idx + 1) * L
        /\ slot_base + L + L <= Depth
    <3>1. window_idx \in Nat /\ window_idx + 1 \in Nat /\ L \in Nat
      BY <1>1, <1>2
    <3> HIDE DEF L
    <3>2. (window_idx + 1) * L = slot_base + L
      <4>1. (window_idx + 1) * L = window_idx * L + L
        BY <3>1, SlotAfter
      <4> QED BY <1>2, <4>1
    <3> USE DEF L
    <3>3. (window_idx + 1) * L + L <= Depth
      BY <1>1, <1>8, <3>1, SlotFits
    <3> QED BY <3>2, <3>3
  <2>3. slot_base' = slot_base + L /\ slot_base' \in Addresses
    <3>1. (slot_base + L) \in Addresses
      BY <1>1, <1>2, <2>2, DepthAssumption DEF Addresses
    <3> QED BY <2>1, <3>1, AddrKeeps
  <2>4. TypeOK'
    <3>1. window_idx' \in Addresses /\ done' \in 0..Depth
      BY <1>1, <1>2, <1>8, <2>1, DepthAssumption DEF Addresses
    <3> QED BY <1>1, <1>3, <1>6, <2>1, <2>3, <3>1, Cleared DEF IInv, TypeOK, States
  <2>5. Counting'
    <3>1. WriteAddr' = slot_base + L
      BY <1>1, <1>2, <2>1, <2>3, AddrKeeps, DepthAssumption DEF WriteAddr, Addresses
    <3>2. (slot_base + L) \in Slot'
      BY <1>1, <1>2, <2>3, DepthAssumption DEF Slot
    <3>3. SlotsInBuffer'
      BY <1>1, <2>1, <2>2, <2>3, <3>1, <3>2 DEF SlotsInBuffer
    <3> QED BY <1>1, <1>2, <1>8, <2>1, <3>3 DEF Counting
  <2>6. \A a \in Addresses : a >= slot_base + L => mem'[a] = Stale
    BY <1>3 DEF IInv, FutureSlots
  <2>7. CurrentSlot'
    <3> SUFFICES ASSUME NEW o \in 0..L-1
                 PROVE  /\ mem'[slot_base + L + o] = Stale
                        /\ ~(o < 0) /\ ~(AgeFrom(0, o) < 0)
      BY <2>1, <2>3 DEF CurrentSlot, AgeAt, AgeFrom, Kept
    <3>1. (slot_base + L + o) \in Addresses /\ slot_base + L + o >= slot_base + L
      BY <1>1, <1>2, <2>2, DepthAssumption DEF Addresses
    <3> QED BY <1>1, <2>6, <3>1 DEF AgeFrom
  <2>8. FutureSlots'
    <3> SUFFICES ASSUME NEW a \in Addresses, a >= slot_base + L + L
                 PROVE  mem'[a] = Stale
      BY <2>3 DEF FutureSlots
    <3> QED BY <1>1, <1>2, <2>6, DepthAssumption DEF Addresses
  <2>9. Filling' /\ Capturing'
    BY <1>1, <2>1, LatencyAssumption, DepthAssumption DEF Filling, Capturing
  <2> QED BY <1>7, <2>4, <2>5, <2>7, <2>8, <2>9 DEF IInv
<1>9. CASE ~more
  <2>1. /\ state' = "IDLE" /\ offset' = NextOffset
        /\ pre_count' = IF state = "ARMED" THEN NextPreCount ELSE pre_count
        /\ UNCHANGED <<window_idx, slot_base>>
    BY <1>4, <1>9 DEF CompleteWindow
  <2>2. TypeOK'
    <3>1. pre_count' \in 0..2*Depth-1
      BY <1>1, <2>1, Signals, LatencyAssumption, DepthAssumption DEF IInv, TypeOK
    <3>2. offset' \in Addresses
      BY <1>1, <1>3, <2>1, DepthAssumption DEF Addresses
    <3>3. done' \in 0..Depth
      BY <1>2, DepthAssumption
    <3> QED BY <1>3, <1>6, <2>1, <3>1, <3>2, <3>3, Cleared DEF IInv, TypeOK, States
  <2>3. Counting' /\ CurrentSlot' /\ FutureSlots' /\ Filling' /\ Capturing'
    BY <1>1, <1>2, <2>1 DEF Counting, CurrentSlot, FutureSlots, Filling, Capturing, Busy
  <2> QED BY <1>7, <2>2, <2>3 DEF IInv
<1> QED BY <1>8, <1>9

(* What both completing actions record.                                    *)
LEMMA RecordComplete ==
  ASSUME IInv, NEW arm, NEW trigger, HeadWe(FALSE, trigger), Record(arm, FALSE, trigger)
  PROVE  /\ Busy
         /\ (state' # "CAPTURING" => hit' = 0) /\ done' = done + 1
         /\ emitted' = [emitted EXCEPT ![done] = HeadO]
         /\ hits' = [hits EXCEPT ![done] = HitNow(FALSE, trigger)]
<1>1. Busy
  BY DEF HeadWe, Accepts, Busy
<1> QED BY <1>1 DEF Record

(* A head inside the slot is emitted as it is.                             *)
LEMMA HeadInSlot ==
  ASSUME IInv, Busy, NEW h \in 0..cfg.capture_len-1,
         h = IF state = "ARMED" THEN HeadOff ELSE head_offset
  PROVE  HeadO = slot_base + h
<1>1. /\ cfg.capture_len \in 1..Depth
      /\ slot_base \in 0..Depth-1 /\ slot_base + cfg.capture_len <= Depth
  BY ConfigFacts DEF IInv, TypeOK, Counting, SlotsInBuffer, Addresses
<1>2. Addr(h) = h /\ Addr(slot_base + h) = slot_base + h
  BY <1>1, AddrKeeps, DepthAssumption DEF Addresses
<1> QED BY <1>2 DEF HeadO

(* A trigger whose window is already full completes it in order.           *)
LEMMA AcceptAndCompleteStep ==
  ASSUME IInv, NEW arm, AcceptAndComplete(FALSE, TRUE), Record(arm, FALSE, TRUE)
  PROVE  IInv'
<1> DEFINE L == cfg.capture_len
           P == cfg.pre_trigger_len
<1>1. /\ state = "ARMED" /\ WriteSample /\ CompleteWindow /\ cfg' = cfg
      /\ triggered' \in BOOLEAN /\ samples_rem' = samples_rem /\ head_offset' = HeadOff
      /\ pre_count >= Back /\ HeadWe(FALSE, TRUE)
  BY DEF AcceptAndComplete, Accepts, HeadWe
<1>2. /\ Busy /\ hit' = 0 /\ done' = done + 1
      /\ emitted' = [emitted EXCEPT ![done] = HeadO]
      /\ hits' = [hits EXCEPT ![done] = Latency]
  BY <1>1, RecordComplete DEF HitNow, AcceptAndComplete, CompleteWindow
<1>3. /\ L \in 1..Depth /\ P \in 0..L-1 /\ offset \in 0..L-1 /\ pre_count \in Nat
  <2>1. L \in 1..Depth /\ P \in 0..L-1
    BY ConfigFacts DEF IInv, TypeOK
  <2>2. offset \in Nat /\ offset < L
    BY <1>2 DEF IInv, TypeOK, Counting, SlotsInBuffer, Addresses
  <2>3. pre_count \in Nat
    BY DEF IInv, TypeOK
  <2> QED BY <2>1, <2>2, <2>3, DepthAssumption
<1>4. /\ Back = P + Latency /\ PostTotal = L - P
      /\ NextOffset = IF offset = L - 1 THEN 0 ELSE offset + 1
  BY <1>3, Signals, DepthAssumption DEF IInv
<1>5. head_offset' \in 0..2*Depth-1
  <2>1. offset \in Int /\ Back \in Int /\ (offset - Back + L) \in Int
    BY <1>3, <1>4, LatencyAssumption, DepthAssumption
  <2>2. Reg(offset - Back + L) \in 0..2*Depth-1
    BY <2>1, RegType
  <2>3. offset >= Back => offset - Back \in 0..2*Depth-1
    BY <1>3, <1>4, LatencyAssumption, DepthAssumption
  <2> QED BY <1>1, <2>2, <2>3 DEF HeadOff
<1>6. ASSUME PastLatency
      PROVE  /\ HeadOff \in 0..L-1 /\ HeadO = slot_base + HeadOff
             /\ AgeFrom(NextOffset, HeadOff) = L - 1
             /\ Kept + 1 >= L
             /\ Latency = L - P - 1
  <2>1. L - P = Latency + 1
    BY <1>3, <1>4, <1>6, LatencyAssumption, DepthAssumption
       DEF PastLatency, AcceptAndComplete, AcceptsWhole
  <2>2. Back = L - 1
    BY <1>3, <1>4, <2>1, LatencyAssumption, DepthAssumption
  <2>3. offset < Back => Reg(offset - Back + L) = offset + 1
    BY <1>3, <2>2, RegKeeps, DepthAssumption
  <2>4. HeadOff = IF offset = L - 1 THEN 0 ELSE offset + 1
    BY <1>3, <2>2, <2>3 DEF HeadOff
  <2>5. HeadOff \in 0..L-1
    BY <1>3, <2>4
  <2>6. AgeFrom(NextOffset, HeadOff) = L - 1
    BY <1>3, <1>4, <2>4 DEF AgeFrom
  <2>7. HeadO = slot_base + HeadOff
    BY <1>1, <1>2, <2>5, HeadInSlot
  <2>8. Kept + 1 >= L
    BY <1>1, <1>3, <2>2 DEF Kept
  <2> QED BY <1>2, <1>3, <2>1, <2>5, <2>6, <2>7, <2>8, LatencyAssumption, DepthAssumption
<1>7. Latency \in 0..Depth
  BY LatencyAssumption
<1> QED BY <1>1, <1>2, <1>5, <1>6, <1>7, Completing

(* The last sample after the trigger completes its window in order.        *)
LEMMA CaptureLastStep ==
  ASSUME IInv, NEW arm, NEW trigger, CaptureLast(FALSE), Record(arm, FALSE, trigger)
  PROVE  IInv'
<1> DEFINE L == cfg.capture_len
           P == cfg.pre_trigger_len
<1>1. /\ state = "CAPTURING" /\ WriteSample /\ CompleteWindow /\ samples_rem = 1
      /\ UNCHANGED <<triggered, cfg, samples_rem, head_offset>>
      /\ HeadWe(FALSE, trigger)
  BY DEF CaptureLast, HeadWe
<1>2. /\ Busy /\ hit' = 0 /\ done' = done + 1
      /\ emitted' = [emitted EXCEPT ![done] = HeadO]
      /\ hits' = [hits EXCEPT ![done] = hit + 1]
  BY <1>1, RecordComplete DEF HitNow, Accepts, CompleteWindow
<1>3. /\ L \in 1..Depth /\ P \in 0..L-1 /\ offset \in 0..L-1
      /\ hit \in Nat /\ hit = L - P - 2
      /\ head_offset \in 0..L-1 /\ AgeAt(head_offset) = P + hit
  <2>1. L \in 1..Depth /\ P \in 0..L-1 /\ hit \in Nat
    BY ConfigFacts DEF IInv, TypeOK
  <2>2. offset \in Nat /\ offset < L
    BY <1>2 DEF IInv, TypeOK, Counting, SlotsInBuffer, Addresses
  <2> QED BY <1>1, <2>1, <2>2, DepthAssumption DEF IInv, Capturing
<1>4. NextOffset = IF offset = L - 1 THEN 0 ELSE offset + 1
  BY <1>3, Signals, DepthAssumption DEF IInv
<1>5. AgeFrom(NextOffset, head_offset) = L - 1
  BY <1>3, <1>4, DepthAssumption DEF AgeAt, AgeFrom
<1>6. HeadO = slot_base + head_offset
  BY <1>1, <1>2, <1>3, HeadInSlot
<1>7. Kept + 1 >= L /\ hit + 1 = L - P - 1
  BY <1>1, <1>2, <1>3 DEF Kept
<1>8. (hit + 1) \in 0..Depth /\ head_offset' \in 0..2*Depth-1 /\ triggered' \in BOOLEAN
  BY <1>1, <1>3, <1>7, DepthAssumption DEF IInv, TypeOK
<1> QED BY <1>1, <1>2, <1>3, <1>5, <1>6, <1>7, <1>8, Completing

(* The invariant is inductive.                                             *)
LEMMA NextIInv == IInv /\ [Next]_coreVars => IInv'
<1> SUFFICES ASSUME IInv, [Next]_coreVars PROVE IInv'
  OBVIOUS
<1>1. CASE Next
  <2> SUFFICES ASSUME NEW arm \in BOOLEAN, NEW abort \in BOOLEAN,
                      NEW trigger \in BOOLEAN, NEW c \in Configs,
                      Step(arm, abort, trigger, c), Record(arm, abort, trigger)
               PROVE  IInv'
    BY <1>1 DEF Next
  <2>1. CASE Idle(arm)
    <3>1. arm = FALSE
      BY <2>1 DEF Idle
    <3> QED BY <2>1, <3>1, IdleStep
  <2>2. CASE Arm(arm, c)
    <3>1. arm = TRUE
      BY <2>2 DEF Arm
    <3> QED BY <2>2, <3>1, ArmStep
  <2>3. CASE Abort(abort)
    <3>1. abort = TRUE
      BY <2>3 DEF Abort
    <3> QED BY <2>3, <3>1, AbortStep
  <2>4. CASE Fill(abort, trigger)
    <3>1. abort = FALSE
      BY <2>4 DEF Fill
    <3> QED BY <2>4, <3>1, FillStep
  <2>5. CASE Accept(abort, trigger)
    <3>1. abort = FALSE /\ trigger = TRUE
      BY <2>5 DEF Accept, Accepts
    <3> QED BY <2>5, <3>1, AcceptStep
  <2>6. CASE AcceptAndComplete(abort, trigger)
    <3>1. abort = FALSE /\ trigger = TRUE
      BY <2>6 DEF AcceptAndComplete, Accepts
    <3> QED BY <2>6, <3>1, AcceptAndCompleteStep
  <2>7. CASE Capture(abort)
    <3>1. abort = FALSE
      BY <2>7 DEF Capture
    <3> QED BY <2>7, <3>1, CaptureStep
  <2>8. CASE CaptureLast(abort)
    <3>1. abort = FALSE
      BY <2>8 DEF CaptureLast
    <3> QED BY <2>8, <3>1, CaptureLastStep
  <2> QED BY <2>1, <2>2, <2>3, <2>4, <2>5, <2>6, <2>7, <2>8 DEF Step
<1>2. CASE UNCHANGED coreVars
  BY <1>2 DEF coreVars, regs, IInv, TypeOK, Counting, Busy, SlotsInBuffer, WriteAddr, Slot,
     CurrentSlot, AgeAt, Kept, FutureSlots, Filling, Capturing, CompletedSlots,
     PastLatency, InOrder, Wrap
<1> QED BY <1>1, <1>2
----------------------------------------------------------------------------
(* The capture core keeps its registers and the buffer well typed, and its *)
(* inductive invariant, for every depth, latency and configuration.        *)
THEOREM InvariantHolds == Spec => []IInv
  BY InitIInv, NextIInv, PTL DEF Spec

(* No register of the core ever leaves its range.                          *)
THEOREM TypeCorrect == Spec => []TypeOK
<1>1. IInv => TypeOK
  BY DEF IInv
<1> QED BY <1>1, InvariantHolds, PTL

(* Samples are written only inside the slot of the window being filled,    *)
(* and no slot leaves the trace buffer, whatever triggers, aborts and arms *)
(* arrive and in whatever order.                                           *)
THEOREM SlotsStayInBuffer == Spec => []SlotsInBuffer
<1>1. IInv => SlotsInBuffer
  BY DEF IInv, Counting, SlotsInBuffer
<1> QED BY <1>1, InvariantHolds, PTL

(* Every completed window reads back oldest first with its trigger sample  *)
(* at index pre_trigger_len until the next arm, whenever the window        *)
(* reaches past the trigger's latency.                                     *)
THEOREM CompletedWindowsInOrder == Spec => []WindowsInOrder
<1>1. IInv => WindowsInOrder
  <2> SUFFICES ASSUME IInv, PastLatency, NEW w \in 0..done-1
               PROVE  /\ emitted[w] - w * cfg.capture_len \in 0..cfg.capture_len-1
                      /\ \A i \in 0..cfg.capture_len-1 :
                           hits[w] - mem[w * cfg.capture_len
                                         + Wrap(emitted[w] - w * cfg.capture_len + i)]
                             = i - cfg.pre_trigger_len
    BY DEF WindowsInOrder
  <2>1. InOrder(w)
    BY DEF IInv, CompletedSlots
  <2>2. cfg.capture_len \in Int /\ cfg.pre_trigger_len \in Int
    BY ConfigFacts, DepthAssumption DEF IInv, TypeOK
  <2> QED BY <2>1, <2>2 DEF InOrder
<1> QED BY <1>1, InvariantHolds, PTL
=============================================================================
