--------------------------- MODULE BusExplorerProofs ---------------------------
(***************************************************************************)
(* For every explorer, crossed or not, whatever its target answers and     *)
(* whenever the clocks tick: the answer taken is that of the access in     *)
(* progress, scan results belong to the addresses the slots hold, and one  *)
(* task that fires and polls sees its own command completed.               *)
(***************************************************************************)
EXTENDS BusExplorer, SequenceTheorems, WellFoundedInduction, TLAPS

----------------------------------------------------------------------------
(* The registers of the shell, by what they are for.                       *)
LinkOf(s) == <<s.state, s.tag, s.orphan>>
AccessOf(s) == <<s.rmw, s.scan_op, s.write_issue, s.address_issue, s.wdata_issue>>
ConfigOf(s) ==
  <<s.timeout, s.address, s.wdata, s.wmask, s.slot_enable, s.scan_enable, s.slot_addr>>
PendingOf(s) == <<s.pending, s.pending_op>>
StatusOf(s) == <<s.busy, s.done, s.error, s.rdata>>
ScanOf(s) ==
  <<s.slot_ptr, s.scan_slot, s.scan_stale, s.scan_valid, s.scan_error, s.scan_result>>

(* A clock takes from the timer, and nothing else.                         *)
LEMMA TickFacts ==
  ASSUME NEW s \in Registers
  PROVE  /\ Tick(s) \in Registers /\ Tick(s).timer <= s.timer
         /\ LinkOf(Tick(s)) = LinkOf(s) /\ AccessOf(Tick(s)) = AccessOf(s)
         /\ ConfigOf(Tick(s)) = ConfigOf(s) /\ PendingOf(Tick(s)) = PendingOf(s)
         /\ StatusOf(Tick(s)) = StatusOf(s) /\ ScanOf(Tick(s)) = ScanOf(s)
  BY DEF Registers, Tick, LinkOf, AccessOf, ConfigOf, PendingOf, StatusOf, ScanOf

(* An answer that is not waited for takes the orphan with it.              *)
LEMMA DropFacts ==
  ASSUME NEW s \in Registers, NEW r
  PROVE  /\ Drop(s, r) \in Registers /\ Drop(s, r).timer = s.timer
         /\ Drop(s, r).state = s.state /\ Drop(s, r).tag = s.tag
         /\ Drop(s, r).orphan = (s.orphan /\ r = Nothing)
         /\ AccessOf(Drop(s, r)) = AccessOf(s)
         /\ ConfigOf(Drop(s, r)) = ConfigOf(s) /\ PendingOf(Drop(s, r)) = PendingOf(s)
         /\ StatusOf(Drop(s, r)) = StatusOf(s) /\ ScanOf(Drop(s, r)) = ScanOf(s)
  BY ZenonT(60) DEF Registers, Drop, LinkOf, AccessOf, ConfigOf, PendingOf, StatusOf, ScanOf

(* A clock in the idle state.                                              *)
LEMMA IdleFacts ==
  ASSUME shell \in Registers, NEW r
  PROVE  LET s == Drop(Tick(shell), r)
         IN /\ s \in Registers /\ s.timer <= shell.timer
            /\ s.state = shell.state /\ s.tag = shell.tag
            /\ s.orphan = (shell.orphan /\ r = Nothing)
            /\ AccessOf(s) = AccessOf(shell)
            /\ ConfigOf(s) = ConfigOf(shell) /\ PendingOf(s) = PendingOf(shell)
            /\ StatusOf(s) = StatusOf(shell) /\ ScanOf(s) = ScanOf(shell)
<1> DEFINE s0 == Tick(shell)
<1>1. /\ s0 \in Registers /\ s0.timer <= shell.timer
      /\ LinkOf(s0) = LinkOf(shell) /\ AccessOf(s0) = AccessOf(shell)
      /\ ConfigOf(s0) = ConfigOf(shell) /\ PendingOf(s0) = PendingOf(shell)
      /\ StatusOf(s0) = StatusOf(shell) /\ ScanOf(s0) = ScanOf(shell)
  BY TickFacts
<1>2. s0.state = shell.state /\ s0.tag = shell.tag /\ s0.orphan = shell.orphan
  BY <1>1 DEF LinkOf
<1> HIDE DEF s0
<1>3. /\ Drop(s0, r) \in Registers /\ Drop(s0, r).timer = s0.timer
      /\ Drop(s0, r).state = s0.state /\ Drop(s0, r).tag = s0.tag
      /\ Drop(s0, r).orphan = (s0.orphan /\ r = Nothing)
      /\ AccessOf(Drop(s0, r)) = AccessOf(s0)
      /\ ConfigOf(Drop(s0, r)) = ConfigOf(s0) /\ PendingOf(Drop(s0, r)) = PendingOf(s0)
      /\ StatusOf(Drop(s0, r)) = StatusOf(s0) /\ ScanOf(Drop(s0, r)) = ScanOf(s0)
  BY <1>1, DropFacts
<1> QED BY <1>1, <1>2, <1>3 DEF s0

(* An access starts, after the one disowned when there is one.             *)
LEMMA StartFacts ==
  ASSUME NEW s \in Registers
  PROVE  /\ StartAccess(s) \in Registers /\ StartAccess(s).timer = s.timeout
         /\ StartAccess(s).state = (IF s.orphan THEN "DRAIN" ELSE "ISSUE")
         /\ StartAccess(s).tag = s.tag /\ StartAccess(s).orphan = s.orphan
         /\ AccessOf(StartAccess(s)) = AccessOf(s)
         /\ ConfigOf(StartAccess(s)) = ConfigOf(s) /\ PendingOf(StartAccess(s)) = PendingOf(s)
         /\ StatusOf(StartAccess(s)) = StatusOf(s) /\ ScanOf(StartAccess(s)) = ScanOf(s)
  BY DEF Registers, StartAccess, Restart, LinkOf, AccessOf, ConfigOf, PendingOf, StatusOf, ScanOf

(* A command's parameters are those of the configuration registers.        *)
LEMMA LatchFacts ==
  ASSUME NEW s \in Registers
  PROVE  /\ Latch(s) \in Registers /\ Latch(s).timer = s.timer
         /\ LinkOf(Latch(s)) = LinkOf(s)
         /\ ConfigOf(Latch(s)) = ConfigOf(s)
         /\ Latch(s).pending = FALSE /\ Latch(s).pending_op = s.pending_op
         /\ AccessOf(Latch(s)) = <<s.rmw, FALSE, s.write_issue, s.address, s.wdata>>
         /\ StatusOf(Latch(s)) = StatusOf(s) /\ ScanOf(Latch(s)) = ScanOf(s)
<1> DEFINE a == s.address
           d == s.wdata
           t == [s EXCEPT !.pending = FALSE, !.scan_op = FALSE, !.address_issue = a, !.wdata_issue = d]
<1>1. a \in TargetAddresses /\ d \in Words
  BY DEF Registers
<1>2. Latch(s) = t
  BY DEF Latch
<1> HIDE DEF a, d
<1>3. t \in Registers
  BY <1>1 DEF Registers
<1>4. /\ t.timer = s.timer /\ LinkOf(t) = LinkOf(s) /\ ConfigOf(t) = ConfigOf(s)
      /\ t.pending = FALSE /\ t.pending_op = s.pending_op
      /\ AccessOf(t) = <<s.rmw, FALSE, s.write_issue, a, d>>
      /\ StatusOf(t) = StatusOf(s) /\ ScanOf(t) = ScanOf(s)
  BY DEF Registers, LinkOf, AccessOf, ConfigOf, StatusOf, ScanOf
<1> QED BY <1>2, <1>3, <1>4 DEF a, d

(* An access ends: a scan read marks its slot, a command its outcome.      *)
LEMMA FinishFacts ==
  ASSUME NEW s \in Registers, NEW code \in Codes
  PROVE  /\ Finish(s, code) \in Registers /\ Finish(s, code).timer = s.timer
         /\ Finish(s, code).state = "IDLE"
         /\ Finish(s, code).tag = s.tag /\ Finish(s, code).orphan = s.orphan
         /\ AccessOf(Finish(s, code)) = AccessOf(s)
         /\ ConfigOf(Finish(s, code)) = ConfigOf(s) /\ PendingOf(Finish(s, code)) = PendingOf(s)
         /\ s.scan_op =>
              /\ StatusOf(Finish(s, code)) = StatusOf(s)
              /\ ScanOf(Finish(s, code)) =
                   <<s.slot_ptr, s.scan_slot, s.scan_stale, s.scan_valid,
                     IF code # "OK" /\ ~s.scan_stale
                     THEN s.scan_error \union {s.scan_slot} ELSE s.scan_error,
                     s.scan_result>>
         /\ ~s.scan_op =>
              /\ StatusOf(Finish(s, code)) = <<FALSE, TRUE, code, s.rdata>>
              /\ ScanOf(Finish(s, code)) = ScanOf(s)
<1>1. CASE ~s.scan_op
  BY ZenonT(60), <1>1 DEF Registers, Finish, LinkOf, AccessOf, ConfigOf, PendingOf, StatusOf, ScanOf
<1>2. CASE s.scan_op
  <2> DEFINE e == IF code # "OK" /\ ~s.scan_stale
                  THEN s.scan_error \union {s.scan_slot} ELSE s.scan_error
             t == [s EXCEPT !.state = "IDLE", !.scan_error = e]
  <2>1. e \in SUBSET Slots
    BY DEF Registers
  <2>2. Finish(s, code) = t
    BY <1>2 DEF Finish
  <2> HIDE DEF e
  <2>3. t \in Registers
    BY <2>1 DEF Registers
  <2>4. /\ t.timer = s.timer /\ t.state = "IDLE" /\ t.tag = s.tag /\ t.orphan = s.orphan
        /\ AccessOf(t) = AccessOf(s) /\ ConfigOf(t) = ConfigOf(s) /\ PendingOf(t) = PendingOf(s)
        /\ StatusOf(t) = StatusOf(s)
        /\ ScanOf(t) = <<s.slot_ptr, s.scan_slot, s.scan_stale, s.scan_valid, e, s.scan_result>>
    BY DEF Registers, AccessOf, ConfigOf, PendingOf, StatusOf, ScanOf
  <2> QED BY <1>2, <2>2, <2>3, <2>4 DEF e
<1> QED BY <1>1, <1>2
----------------------------------------------------------------------------
(* The moves of the engine: what becomes t of the registers, before the    *)
(* register write of the same clock.                                       *)

Rests(t, r) ==
  /\ shell.state = "IDLE" /\ t.state = "IDLE"
  /\ t.tag = shell.tag /\ t.orphan = (shell.orphan /\ r = Nothing) /\ ~shell.pending
  /\ AccessOf(t) = AccessOf(shell) /\ PendingOf(t) = PendingOf(shell)
  /\ StatusOf(t) = StatusOf(shell) /\ ScanOf(t) = ScanOf(shell)

Starts(t, r) ==
  /\ shell.state = "IDLE" /\ t.state = IF t.orphan THEN "DRAIN" ELSE "ISSUE"
  /\ t.tag = shell.tag /\ t.orphan = (shell.orphan /\ r = Nothing)
  /\ StatusOf(t) = StatusOf(shell) /\ t.pending_op = shell.pending_op

Takes(t, r) ==
  /\ Starts(t, r) /\ shell.pending /\ ~t.pending /\ shell.pending_op # "reserved"
  /\ AccessOf(t) = <<shell.pending_op = "masked", FALSE, shell.pending_op = "write",
                     shell.address, shell.wdata>>
  /\ ScanOf(t) = ScanOf(shell)

StartsScan(t, r) ==
  /\ Starts(t, r) /\ ~shell.pending /\ ~t.pending /\ shell.slot_enable # {}
  /\ t.scan_slot \in shell.slot_enable /\ ~t.scan_stale
  /\ AccessOf(t) = <<FALSE, TRUE, FALSE, shell.slot_addr[t.scan_slot], shell.wdata_issue>>
  /\ t.scan_valid = shell.scan_valid /\ t.scan_error = shell.scan_error

Refuses(t, r) ==
  /\ shell.state = "IDLE" /\ t.state = "IDLE"
  /\ t.tag = shell.tag /\ t.orphan = (shell.orphan /\ r = Nothing)
  /\ shell.pending /\ ~t.pending /\ shell.pending_op = "reserved"
  /\ AccessOf(t) = <<shell.rmw, FALSE, shell.write_issue, shell.address, shell.wdata>>
  /\ StatusOf(t) = <<FALSE, TRUE, "COMMAND", shell.rdata>> /\ ScanOf(t) = ScanOf(shell)

Keeps(t) ==
  /\ AccessOf(t) = AccessOf(shell) /\ PendingOf(t) = PendingOf(shell)
  /\ StatusOf(t) = StatusOf(shell) /\ ScanOf(t) = ScanOf(shell)

Waits(t, ready, r) ==
  /\ LinkOf(t) = LinkOf(shell) /\ Keeps(t)
  /\ \/ shell.state = "DRAIN" /\ r = Nothing
     \/ shell.state = "ISSUE" /\ ~ready
     \/ shell.state = "WAIT" /\ ~Answered(shell, r)

Drains(t, r) ==
  /\ shell.state = "DRAIN" /\ r # Nothing /\ LinkOf(t) = <<"ISSUE", shell.tag, FALSE>> /\ Keeps(t)

Issues(t, ready) ==
  /\ shell.state = "ISSUE" /\ ready /\ Keeps(t)
  /\ LinkOf(t) = <<"WAIT", shell.tag, shell.orphan>>

Ends(t, code) ==
  /\ AccessOf(t) = AccessOf(shell) /\ PendingOf(t) = PendingOf(shell)
  /\ shell.scan_op =>
       /\ StatusOf(t) = StatusOf(shell)
       /\ ScanOf(t) = <<shell.slot_ptr, shell.scan_slot, shell.scan_stale, shell.scan_valid,
                        IF code # "OK" /\ ~shell.scan_stale
                        THEN shell.scan_error \union {shell.scan_slot} ELSE shell.scan_error,
                        shell.scan_result>>
  /\ ~shell.scan_op =>
       StatusOf(t) = <<FALSE, TRUE, code, shell.rdata>> /\ ScanOf(t) = ScanOf(shell)

GivesUp(t, ready, r) ==
  /\ Ends(t, "TIMEOUT")
  /\ \/ shell.state = "DRAIN" /\ r = Nothing /\ LinkOf(t) = <<"IDLE", shell.tag, shell.orphan>>
     \/ shell.state = "ISSUE" /\ ~ready /\ LinkOf(t) = <<"IDLE", shell.tag, shell.orphan>>
     \/ shell.state = "WAIT" /\ ~Answered(shell, r) /\ LinkOf(t) = <<"IDLE", 1 - shell.tag, TRUE>>

Receives(t, r) == shell.state = "WAIT" /\ Answered(shell, r)

Scanned(t, r) ==
  /\ Receives(t, r) /\ shell.scan_op /\ LinkOf(t) = <<"IDLE", shell.tag, shell.orphan>>
  /\ AccessOf(t) = AccessOf(shell) /\ PendingOf(t) = PendingOf(shell)
  /\ StatusOf(t) = StatusOf(shell)
  /\ t.scan_slot = shell.scan_slot /\ t.scan_stale = shell.scan_stale
  /\ IF shell.scan_stale
     THEN t.scan_valid = shell.scan_valid /\ t.scan_error = shell.scan_error
     ELSE t.scan_valid \union t.scan_error
            = shell.scan_valid \union shell.scan_error \union {shell.scan_slot}

Merges(t, r) ==
  /\ Receives(t, r) /\ ~shell.scan_op /\ shell.rmw /\ ~r.error
  /\ LinkOf(t) = <<"ISSUE", shell.tag, shell.orphan>>
  /\ AccessOf(t) = <<FALSE, FALSE, TRUE, shell.address_issue,
                     Merge(r.rdata, shell.wdata, shell.wmask)>>
  /\ PendingOf(t) = PendingOf(shell) /\ ScanOf(t) = ScanOf(shell)
  /\ StatusOf(t) = <<shell.busy, shell.done, shell.error, r.rdata>>

Completes(t, r) ==
  /\ Receives(t, r) /\ ~shell.scan_op /\ (shell.rmw => r.error)
  /\ LinkOf(t) = <<"IDLE", shell.tag, shell.orphan>>
  /\ AccessOf(t) = AccessOf(shell) /\ PendingOf(t) = PendingOf(shell)
  /\ ScanOf(t) = ScanOf(shell)
  /\ StatusOf(t) = <<FALSE, TRUE, IF r.error THEN "SLVERR" ELSE "OK",
                     IF ~shell.rmw /\ shell.write_issue THEN shell.rdata ELSE r.rdata>>

Moves(t, ready, r) ==
  \/ Rests(t, r) \/ Takes(t, r) \/ StartsScan(t, r) \/ Refuses(t, r)
  \/ Waits(t, ready, r) \/ Drains(t, r) \/ Issues(t, ready) \/ GivesUp(t, ready, r)
  \/ Scanned(t, r) \/ Merges(t, r) \/ Completes(t, r)

(* The round-robin finds an enabled slot.                                  *)
LEMMA NextSlotEnabled ==
  ASSUME NEW s \in Registers, s.slot_enable # {}
  PROVE  NextSlot(s) \in s.slot_enable
<1> DEFINE After(i) == (s.slot_ptr + i) % SlotCount
           T == {i \in 1..SlotCount : After(i) \in s.slot_enable}
           lt == OpToRel(<, Nat)
<1>1. SlotCount \in Nat \ {0} /\ s.slot_ptr \in 0..SlotCount-1
      /\ s.slot_enable \in SUBSET (0..SlotCount-1)
  BY SlotCountAssumption DEF Registers, Slots
<1>2. T # {}
  <2> PICK e \in s.slot_enable : TRUE
    OBVIOUS
  <2> DEFINE p == s.slot_ptr
             n == SlotCount
  <2>1. p \in 0..n-1 /\ e \in 0..n-1 /\ n \in Nat \ {0}
    BY <1>1
  <2> HIDE DEF p, n
  <2>2. CASE e > p
    <3>1. e - p \in 1..n /\ (p + (e - p)) % n = e
      BY <2>1, <2>2
    <3> QED BY <3>1 DEF p, n
  <2>3. CASE e <= p
    <3>1. (e - p) + n \in 1..n /\ (p + ((e - p) + n)) = 1 * n + e
      BY <2>1, <2>3
    <3>2. (1 * n + e) % n = e
      BY <2>1
    <3> QED BY <3>1, <3>2 DEF p, n
  <2> QED BY <2>1, <2>2, <2>3
<1>3. \E i \in T : \A j \in T : ~(<<j, i>> \in lt)
  <2>1. T \subseteq Nat
    BY <1>1
  <2> QED BY <1>2, <2>1, NatLessThanWellFounded, WFMin
<1>4. \E i \in 1..SlotCount : After(i) \in s.slot_enable
                            /\ \A j \in 1..i-1 : After(j) \notin s.slot_enable
  <2>0. PICK i \in T : \A j \in T : ~(<<j, i>> \in lt)
    BY <1>3
  <2> DEFINE R == {ss \in Nat \X Nat : ss[1] < ss[2]}
  <2>1. lt = R
    BY DEF OpToRel
  <2>5. i \in 1..SlotCount /\ After(i) \in s.slot_enable
    OBVIOUS
  <2>7. T \subseteq 1..SlotCount /\ 1..SlotCount \subseteq Nat
    BY <1>1
  <2>2. \A j \in T : i \in Nat /\ j \in Nat /\ <<j, i>> \in Nat \X Nat
    BY <2>5, <2>7
  <2>3. \A j \in T : <<j, i>>[1] = j /\ <<j, i>>[2] = i
    OBVIOUS
  <2>4. \A j \in T : ~(j < i)
    BY <2>0, <2>1, <2>2, <2>3
  <2>6. ASSUME NEW j \in 1..i-1 PROVE After(j) \notin s.slot_enable
    <3> HIDE DEF After
    <3>1. j \in 1..SlotCount /\ j < i
      BY <1>1, <2>5
    <3> QED BY <2>4, <3>1
  <2> QED BY <2>5, <2>6
<1> QED BY <1>4 DEF NextSlot

(* A register write, which the engine's fields do not feel.                *)
LEMMA WriteFacts ==
  ASSUME NEW s \in Registers, NEW w \in RegisterWrites, NEW t, t = Write(s, w)
  PROVE  /\ t \in Registers /\ t.timeout = s.timeout /\ t.timer = s.timer
         /\ LinkOf(t) = LinkOf(s) /\ AccessOf(t) = AccessOf(s)
         /\ t.scan_slot = s.scan_slot /\ t.rdata = s.rdata
         /\ IF w.reg = "COMMAND"
            THEN /\ PendingOf(t) = <<TRUE, w.value>>
                 /\ t.busy /\ ~t.done /\ t.error = "OK"
            ELSE PendingOf(t) = PendingOf(s) /\ StatusOf(t) = StatusOf(s)
         /\ IF w.reg = "CONFIG"
            THEN t.address = w.value.address /\ t.wdata = w.value.wdata /\ t.wmask = w.value.wmask
            ELSE t.address = s.address /\ t.wdata = s.wdata /\ t.wmask = s.wmask
         /\ IF w.reg = "SLOT_ENABLE"
            THEN /\ t.scan_stale /\ t.slot_enable = w.value /\ t.slot_addr = s.slot_addr
                 /\ t.scan_valid \union t.scan_error
                      = (s.scan_valid \union s.scan_error) \ (Slots \ w.value)
            ELSE t.slot_enable = s.slot_enable
         /\ IF w.reg = "SLOT_ADDR"
            THEN /\ t.scan_stale
                 /\ t.slot_addr = [s.slot_addr EXCEPT ![w.slot] = w.value]
                 /\ t.scan_valid \union t.scan_error
                      = (s.scan_valid \union s.scan_error) \ {w.slot}
            ELSE t.slot_addr = s.slot_addr
         /\ w.reg \notin {"SLOT_ENABLE", "SLOT_ADDR"} => ScanOf(t) = ScanOf(s)
<1>1. CASE w = NoWrite
  BY <1>1 DEF Write, NoWrite
<1>2. CASE w \in [reg : {"COMMAND"}, value : Operations]
  BY ZenonT(60), <1>2 DEF Write, WriteCommand, Registers, Codes, LinkOf, AccessOf, PendingOf, ScanOf
<1>3. CASE w \in [reg : {"CONFIG"}, value : Requests]
  BY <1>3 DEF Write, Registers, Requests, LinkOf, AccessOf, PendingOf, StatusOf, ScanOf
<1>4. CASE w \in [reg : {"SLOT_ENABLE"}, value : SUBSET Slots]
  BY <1>4 DEF Write, Registers, ClearSlots, LinkOf, AccessOf, PendingOf, StatusOf
<1>5. CASE w \in [reg : {"SCAN_CTRL"}, value : BOOLEAN]
  BY <1>5 DEF Write, Registers, LinkOf, AccessOf, PendingOf, StatusOf, ScanOf
<1>6. CASE w \in [reg : {"SLOT_ADDR"}, slot : Slots, value : TargetAddresses]
  BY ZenonT(60), <1>6 DEF Write, Registers, ClearSlots, LinkOf, AccessOf, PendingOf, StatusOf
<1> QED BY <1>1, <1>2, <1>3, <1>4, <1>5, <1>6 DEF RegisterWrites, ScanWrites

(* The engine in the idle state.                                           *)
LEMMA IdleMoves ==
  ASSUME shell \in Registers, NEW w, NEW ready, NEW r,
         Rest(w, r) \/ Take(w, r) \/ Refuse(w, r) \/ Scan(w, r)
  PROVE  \E t \in Registers :
           /\ shell' = Write(t, w) /\ ConfigOf(t) = ConfigOf(shell)
           /\ t.timer <= shell.timer \/ t.timer = shell.timeout
           /\ Moves(t, ready, r)
<1> DEFINE s == Drop(Tick(shell), r)
<1>0. /\ s \in Registers /\ s.timer <= shell.timer
      /\ s.state = shell.state /\ s.tag = shell.tag
      /\ s.orphan = (shell.orphan /\ r = Nothing)
      /\ AccessOf(s) = AccessOf(shell)
      /\ ConfigOf(s) = ConfigOf(shell) /\ PendingOf(s) = PendingOf(shell)
      /\ StatusOf(s) = StatusOf(shell) /\ ScanOf(s) = ScanOf(shell)
  BY IdleFacts
<1>1. CASE Rest(w, r)
  <2>1. /\ shell' = Write(s, w) /\ shell.state = "IDLE" /\ ~shell.pending
    BY <1>1 DEF Rest
  <2> HIDE DEF s
  <2>2. Rests(s, r)
    BY <1>0, <2>1 DEF Rests
  <2> QED BY <1>0, <2>1, <2>2 DEF Moves
<1>2. CASE Take(w, r)
  <2> DEFINE l == Latch(s)
             m == [l EXCEPT !.write_issue = s.pending_op = "write", !.rmw = s.pending_op = "masked"]
             t == StartAccess(m)
  <2>1. /\ shell' = Write(t, w) /\ shell.state = "IDLE" /\ shell.pending
        /\ shell.pending_op # "reserved"
    BY <1>2 DEF Take
  <2> HIDE DEF s
  <2>2. /\ l \in Registers /\ LinkOf(l) = LinkOf(s) /\ ConfigOf(l) = ConfigOf(s)
        /\ l.pending = FALSE /\ l.pending_op = s.pending_op
        /\ AccessOf(l) = <<s.rmw, FALSE, s.write_issue, s.address, s.wdata>>
        /\ StatusOf(l) = StatusOf(s) /\ ScanOf(l) = ScanOf(s)
    BY <1>0, LatchFacts
  <2>3. /\ (s.pending_op = "write") \in BOOLEAN /\ (s.pending_op = "masked") \in BOOLEAN
    OBVIOUS
  <2> HIDE DEF l
  <2>4. m \in Registers
    BY ZenonT(60), <2>2, <2>3 DEF Registers
  <2>5. /\ LinkOf(m) = LinkOf(s) /\ ConfigOf(m) = ConfigOf(s)
        /\ m.pending = FALSE /\ m.pending_op = s.pending_op
        /\ AccessOf(m) = <<s.pending_op = "masked", FALSE, s.pending_op = "write", s.address, s.wdata>>
        /\ StatusOf(m) = StatusOf(s) /\ ScanOf(m) = ScanOf(s)
    BY <2>2 DEF Registers, LinkOf, ConfigOf, AccessOf, StatusOf, ScanOf
  <2> HIDE DEF m
  <2>6. /\ t \in Registers /\ t.timer = m.timeout
        /\ t.state = (IF m.orphan THEN "DRAIN" ELSE "ISSUE")
        /\ t.tag = m.tag /\ t.orphan = m.orphan /\ AccessOf(t) = AccessOf(m)
        /\ ConfigOf(t) = ConfigOf(m) /\ PendingOf(t) = PendingOf(m)
        /\ StatusOf(t) = StatusOf(m) /\ ScanOf(t) = ScanOf(m)
    BY <2>4, StartFacts
  <2> HIDE DEF t
  <2>7. /\ m.tag = shell.tag /\ m.orphan = s.orphan /\ m.timeout = shell.timeout
        /\ s.pending_op = shell.pending_op /\ s.address = shell.address /\ s.wdata = shell.wdata
    BY <1>0, <2>5 DEF LinkOf, ConfigOf, PendingOf
  <2>8. Starts(t, r) /\ ~t.pending
    BY <1>0, <2>1, <2>5, <2>6, <2>7 DEF Starts, PendingOf
  <2>9. Takes(t, r)
    BY <1>0, <2>1, <2>5, <2>6, <2>7, <2>8 DEF Takes
  <2> QED BY <1>0, <2>1, <2>5, <2>6, <2>7, <2>9 DEF Moves
<1>3. CASE Refuse(w, r)
  <2> DEFINE l == Latch(s)
             t == [l EXCEPT !.busy = FALSE, !.done = TRUE, !.error = "COMMAND"]
  <2>1. /\ shell' = Write(t, w) /\ shell.state = "IDLE" /\ shell.pending
        /\ shell.pending_op = "reserved"
    BY <1>3 DEF Refuse
  <2> HIDE DEF s
  <2>2. /\ l \in Registers /\ l.timer = s.timer /\ LinkOf(l) = LinkOf(s) /\ ConfigOf(l) = ConfigOf(s)
        /\ l.pending = FALSE /\ l.pending_op = s.pending_op
        /\ AccessOf(l) = <<s.rmw, FALSE, s.write_issue, s.address, s.wdata>>
        /\ StatusOf(l) = StatusOf(s) /\ ScanOf(l) = ScanOf(s)
    BY <1>0, LatchFacts
  <2> HIDE DEF l
  <2>3. t \in Registers
    BY <2>2 DEF Registers, Codes
  <2>4. /\ t.timer = l.timer /\ LinkOf(t) = LinkOf(l) /\ ConfigOf(t) = ConfigOf(l)
        /\ t.pending = l.pending /\ t.pending_op = l.pending_op
        /\ AccessOf(t) = AccessOf(l) /\ StatusOf(t) = <<FALSE, TRUE, "COMMAND", l.rdata>>
        /\ ScanOf(t) = ScanOf(l)
    BY <2>2 DEF Registers, LinkOf, ConfigOf, AccessOf, StatusOf, ScanOf
  <2> HIDE DEF t
  <2>5. /\ t.state = shell.state /\ t.tag = shell.tag /\ t.orphan = s.orphan
        /\ l.rdata = shell.rdata /\ s.rmw = shell.rmw /\ s.write_issue = shell.write_issue
        /\ s.address = shell.address /\ s.wdata = shell.wdata
    BY <1>0, <2>2, <2>4 DEF LinkOf, StatusOf, AccessOf, ConfigOf
  <2>6. Refuses(t, r)
    BY <1>0, <2>1, <2>2, <2>4, <2>5 DEF Refuses
  <2> QED BY <1>0, <2>1, <2>2, <2>3, <2>4, <2>6 DEF Moves
<1>4. CASE Scan(w, r)
  <2> DEFINE i == NextSlot(s)
             a == s.slot_addr[i]
             m == [s EXCEPT !.slot_ptr = i, !.scan_slot = i, !.scan_stale = FALSE,
                            !.scan_op = TRUE, !.rmw = FALSE, !.write_issue = FALSE,
                            !.address_issue = a]
             t == StartAccess(m)
  <2>1. /\ shell' = Write(t, w) /\ shell.state = "IDLE"
        /\ ~shell.pending /\ shell.slot_enable # {}
    BY <1>4 DEF Scan, Scans
  <2> HIDE DEF s
  <2>2. s.slot_enable = shell.slot_enable /\ s.slot_addr = shell.slot_addr
    BY <1>0 DEF ConfigOf
  <2>3. i \in s.slot_enable /\ i \in Slots
    BY <1>0, <2>1, <2>2, NextSlotEnabled DEF Registers
  <2>4. a \in TargetAddresses
    BY <1>0, <2>3 DEF Registers
  <2> HIDE DEF i, a
  <2>5. m \in Registers
    BY ZenonT(60), <1>0, <2>3, <2>4 DEF Registers
  <2>6. /\ LinkOf(m) = LinkOf(s) /\ ConfigOf(m) = ConfigOf(s) /\ PendingOf(m) = PendingOf(s)
        /\ AccessOf(m) = <<FALSE, TRUE, FALSE, a, s.wdata_issue>>
        /\ StatusOf(m) = StatusOf(s) /\ m.scan_slot = i /\ m.scan_stale = FALSE
        /\ m.scan_valid = s.scan_valid /\ m.scan_error = s.scan_error
    BY <1>0 DEF Registers, LinkOf, ConfigOf, PendingOf, AccessOf, StatusOf
  <2> HIDE DEF m
  <2>7. /\ t \in Registers /\ t.timer = m.timeout
        /\ t.state = (IF m.orphan THEN "DRAIN" ELSE "ISSUE")
        /\ t.tag = m.tag /\ t.orphan = m.orphan /\ AccessOf(t) = AccessOf(m)
        /\ ConfigOf(t) = ConfigOf(m) /\ PendingOf(t) = PendingOf(m)
        /\ StatusOf(t) = StatusOf(m) /\ ScanOf(t) = ScanOf(m)
    BY <2>5, StartFacts
  <2> HIDE DEF t
  <2>8. /\ m.tag = shell.tag /\ m.orphan = s.orphan /\ m.timeout = shell.timeout
        /\ s.wdata_issue = shell.wdata_issue
        /\ t.pending = shell.pending /\ t.pending_op = shell.pending_op
        /\ t.scan_slot = i /\ t.scan_stale = FALSE
        /\ t.scan_valid = shell.scan_valid /\ t.scan_error = shell.scan_error
    BY <1>0, <2>6, <2>7 DEF LinkOf, ConfigOf, AccessOf, PendingOf, ScanOf
  <2>9. Starts(t, r)
    BY <1>0, <2>1, <2>6, <2>7, <2>8 DEF Starts
  <2>10. StartsScan(t, r)
    BY <2>1, <2>2, <2>3, <2>6, <2>7, <2>8, <2>9 DEF StartsScan, a
  <2> QED BY <1>0, <2>1, <2>6, <2>7, <2>8, <2>10 DEF Moves
<1> QED BY <1>1, <1>2, <1>3, <1>4

(* The engine while it drains or issues.                                   *)
LEMMA IssueMoves ==
  ASSUME shell \in Registers, NEW w, NEW ready, NEW r,
         \/ Drain(w, r) \/ Drained(w, r) \/ DrainTimeout(w, r)
         \/ Offer(w, ready) \/ Issued(w, ready) \/ IssueTimeout(w, ready)
  PROVE  \E t \in Registers :
           /\ shell' = Write(t, w) /\ ConfigOf(t) = ConfigOf(shell)
           /\ t.timer <= shell.timer \/ t.timer = shell.timeout
           /\ Moves(t, ready, r)
<1>0. shell.timer \in Nat /\ "TIMEOUT" \in Codes
  BY DEF Registers, Codes
<1>1. CASE Drain(w, r) \/ Offer(w, ready)
  <2> DEFINE t == Tick(shell)
  <2>1. /\ shell' = Write(t, w)
        /\ \/ shell.state = "DRAIN" /\ r = Nothing
           \/ shell.state = "ISSUE" /\ ~ready
    BY <1>1 DEF Drain, Offer
  <2>2. /\ t \in Registers /\ t.timer <= shell.timer
        /\ LinkOf(t) = LinkOf(shell) /\ AccessOf(t) = AccessOf(shell)
        /\ ConfigOf(t) = ConfigOf(shell) /\ PendingOf(t) = PendingOf(shell)
        /\ StatusOf(t) = StatusOf(shell) /\ ScanOf(t) = ScanOf(shell)
    BY TickFacts
  <2> HIDE DEF t
  <2>3. Waits(t, ready, r)
    BY <2>1, <2>2 DEF Waits, Keeps
  <2> QED BY <2>1, <2>2, <2>3 DEF Moves
<1>2. CASE Drained(w, r)
  <2> DEFINE m == [shell EXCEPT !.orphan = FALSE]
             t == StartAccess(m)
  <2>1. /\ shell' = Write(t, w) /\ shell.state = "DRAIN" /\ r # Nothing
    BY <1>2 DEF Drained
  <2>2. m \in Registers
    BY DEF Registers
  <2>3. /\ m.orphan = FALSE /\ m.tag = shell.tag /\ AccessOf(m) = AccessOf(shell)
        /\ ConfigOf(m) = ConfigOf(shell) /\ PendingOf(m) = PendingOf(shell)
        /\ StatusOf(m) = StatusOf(shell) /\ ScanOf(m) = ScanOf(shell)
    BY DEF Registers, AccessOf, ConfigOf, PendingOf, StatusOf, ScanOf
  <2> HIDE DEF m
  <2>4. /\ t \in Registers /\ t.timer = m.timeout
        /\ t.state = (IF m.orphan THEN "DRAIN" ELSE "ISSUE")
        /\ t.tag = m.tag /\ t.orphan = m.orphan /\ AccessOf(t) = AccessOf(m)
        /\ ConfigOf(t) = ConfigOf(m) /\ PendingOf(t) = PendingOf(m)
        /\ StatusOf(t) = StatusOf(m) /\ ScanOf(t) = ScanOf(m)
    BY <2>2, StartFacts
  <2> HIDE DEF t
  <2>5. LinkOf(t) = <<"ISSUE", shell.tag, FALSE>> /\ m.timeout = shell.timeout
    BY <2>3, <2>4 DEF LinkOf, ConfigOf
  <2>6. Drains(t, r)
    BY <2>1, <2>3, <2>4, <2>5 DEF Drains, Keeps
  <2> QED BY <2>1, <2>3, <2>4, <2>5, <2>6 DEF Moves
<1>3. CASE DrainTimeout(w, r) \/ IssueTimeout(w, ready)
  <2> DEFINE t == Finish(shell, "TIMEOUT")
  <2>1. /\ shell' = Write(t, w)
        /\ \/ shell.state = "DRAIN" /\ r = Nothing
           \/ shell.state = "ISSUE" /\ ~ready
    BY <1>3 DEF DrainTimeout, IssueTimeout
  <2>2. /\ t \in Registers /\ t.timer = shell.timer
        /\ t.state = "IDLE" /\ t.tag = shell.tag /\ t.orphan = shell.orphan
        /\ AccessOf(t) = AccessOf(shell)
        /\ ConfigOf(t) = ConfigOf(shell) /\ PendingOf(t) = PendingOf(shell)
        /\ Ends(t, "TIMEOUT")
    BY <1>0, FinishFacts DEF Ends
  <2> HIDE DEF t
  <2>3. GivesUp(t, ready, r)
    BY <2>1, <2>2 DEF GivesUp, LinkOf
  <2> QED BY <1>0, <2>1, <2>2, <2>3 DEF Moves
<1>4. CASE Issued(w, ready)
  <2> DEFINE t == Restart([shell EXCEPT !.state = "WAIT"])
  <2>1. shell' = Write(t, w) /\ shell.state = "ISSUE" /\ ready
    BY <1>4 DEF Issued
  <2>2. t \in Registers
    BY DEF Registers, Restart
  <2>3. /\ t.timer = shell.timeout /\ LinkOf(t) = <<"WAIT", shell.tag, shell.orphan>>
        /\ AccessOf(t) = AccessOf(shell)
        /\ ConfigOf(t) = ConfigOf(shell) /\ PendingOf(t) = PendingOf(shell)
        /\ StatusOf(t) = StatusOf(shell) /\ ScanOf(t) = ScanOf(shell)
    BY DEF Registers, Restart, LinkOf, AccessOf, ConfigOf, PendingOf, StatusOf, ScanOf
  <2> HIDE DEF t
  <2>4. Issues(t, ready)
    BY <2>1, <2>3 DEF Issues, Keeps
  <2> QED BY <2>1, <2>2, <2>3, <2>4 DEF Moves
<1> QED BY <1>1, <1>2, <1>3, <1>4

(* The engine while it waits for an answer.                                *)
LEMMA WaitMoves ==
  ASSUME shell \in Registers, NEW w, NEW ready, NEW r \in {Nothing} \union Answers,
         \/ Await(w, r) \/ AnswerScan(w, r) \/ AnswerMasked(w, r)
         \/ Answer(w, r) \/ Abandon(w, r)
  PROVE  \E t \in Registers :
           /\ shell' = Write(t, w) /\ ConfigOf(t) = ConfigOf(shell)
           /\ t.timer <= shell.timer \/ t.timer = shell.timeout
           /\ Moves(t, ready, r)
<1> DEFINE s == Tick(shell)
<1>0. /\ s \in Registers /\ s.timer <= shell.timer
      /\ LinkOf(s) = LinkOf(shell) /\ AccessOf(s) = AccessOf(shell)
      /\ ConfigOf(s) = ConfigOf(shell) /\ PendingOf(s) = PendingOf(shell)
      /\ StatusOf(s) = StatusOf(shell) /\ ScanOf(s) = ScanOf(shell)
  BY TickFacts
<1>1. shell.timer \in Nat /\ {"TIMEOUT", "SLVERR", "OK"} \subseteq Codes
  BY DEF Registers, Codes
<1>2. Answered(shell, r) => r \in Answers /\ r.rdata \in Words /\ r.error \in BOOLEAN
  BY DEF Answered, Answers
<1> HIDE DEF s
<1>3. CASE Await(w, r)
  <2>1. shell' = Write(s, w) /\ shell.state = "WAIT" /\ ~Answered(shell, r)
    BY <1>3 DEF Await, s
  <2>2. Waits(s, ready, r)
    BY <1>0, <2>1 DEF Waits, Keeps
  <2> QED BY <1>0, <2>1, <2>2 DEF Moves
<1>4. CASE AnswerScan(w, r)
  <2> DEFINE m == [s EXCEPT !.state = "IDLE"]
             i == m.scan_slot
             failed == [m EXCEPT !.scan_error = @ \union {i}]
             good == [m EXCEPT !.scan_result[i] = r.rdata,
                               !.scan_valid = @ \union {i}, !.scan_error = @ \ {i}]
             t == IF m.scan_stale THEN m ELSE IF r.error THEN failed ELSE good
  <2>1. /\ shell' = Write(t, w) /\ shell.state = "WAIT" /\ Answered(shell, r) /\ shell.scan_op
    BY <1>4 DEF AnswerScan, s
  <2>2. m \in Registers
    BY <1>0 DEF Registers
  <2>3. /\ m.timer = s.timer /\ m.state = "IDLE" /\ m.tag = s.tag /\ m.orphan = s.orphan
        /\ AccessOf(m) = AccessOf(s)
        /\ ConfigOf(m) = ConfigOf(s) /\ PendingOf(m) = PendingOf(s)
        /\ StatusOf(m) = StatusOf(s) /\ ScanOf(m) = ScanOf(s)
    BY <1>0 DEF Registers, AccessOf, ConfigOf, PendingOf, StatusOf, ScanOf
  <2> HIDE DEF m
  <2>4. i \in Slots /\ m.scan_error \in SUBSET Slots /\ m.scan_valid \in SUBSET Slots
        /\ m.scan_result \in [Slots -> Words]
    BY <2>2 DEF Registers
  <2> HIDE DEF i
  <2>5. /\ failed \in Registers
        /\ failed.timer = m.timer /\ LinkOf(failed) = LinkOf(m) /\ AccessOf(failed) = AccessOf(m)
        /\ ConfigOf(failed) = ConfigOf(m) /\ PendingOf(failed) = PendingOf(m)
        /\ StatusOf(failed) = StatusOf(m)
        /\ failed.scan_slot = m.scan_slot /\ failed.scan_stale = m.scan_stale
        /\ failed.scan_valid \union failed.scan_error = m.scan_valid \union m.scan_error \union {i}
    <3> DEFINE e == m.scan_error \union {i}
    <3>1. e \in SUBSET Slots
      BY <2>4
    <3>2. failed = [m EXCEPT !.scan_error = e]
      OBVIOUS
    <3> HIDE DEF e
    <3>3. [m EXCEPT !.scan_error = e] \in Registers
      BY <2>2, <3>1 DEF Registers
    <3>4. /\ failed.timer = m.timer /\ LinkOf(failed) = LinkOf(m) /\ AccessOf(failed) = AccessOf(m)
          /\ ConfigOf(failed) = ConfigOf(m) /\ PendingOf(failed) = PendingOf(m)
          /\ StatusOf(failed) = StatusOf(m)
          /\ failed.scan_slot = m.scan_slot /\ failed.scan_stale = m.scan_stale
          /\ failed.scan_valid = m.scan_valid /\ failed.scan_error = e
      BY <2>2, <3>2 DEF Registers, LinkOf, AccessOf, ConfigOf, PendingOf, StatusOf
    <3> QED BY <3>2, <3>3, <3>4 DEF e
  <2>6. /\ r.rdata \in Words =>
             /\ good \in Registers
             /\ good.timer = m.timer /\ LinkOf(good) = LinkOf(m) /\ AccessOf(good) = AccessOf(m)
             /\ ConfigOf(good) = ConfigOf(m) /\ PendingOf(good) = PendingOf(m)
             /\ StatusOf(good) = StatusOf(m)
             /\ good.scan_slot = m.scan_slot /\ good.scan_stale = m.scan_stale
             /\ good.scan_valid \union good.scan_error = m.scan_valid \union m.scan_error \union {i}
    <3> SUFFICES ASSUME r.rdata \in Words PROVE
             /\ good \in Registers
             /\ good.timer = m.timer /\ LinkOf(good) = LinkOf(m) /\ AccessOf(good) = AccessOf(m)
             /\ ConfigOf(good) = ConfigOf(m) /\ PendingOf(good) = PendingOf(m)
             /\ StatusOf(good) = StatusOf(m)
             /\ good.scan_slot = m.scan_slot /\ good.scan_stale = m.scan_stale
             /\ good.scan_valid \union good.scan_error = m.scan_valid \union m.scan_error \union {i}
      OBVIOUS
    <3> DEFINE f == [m.scan_result EXCEPT ![i] = r.rdata]
               v == m.scan_valid \union {i}
               e == m.scan_error \ {i}
               g == [m EXCEPT !.scan_result = f, !.scan_valid = v, !.scan_error = e]
    <3>1. f \in [Slots -> Words] /\ v \in SUBSET Slots /\ e \in SUBSET Slots
      BY <2>4
    <3>2. good = g
      BY <2>2 DEF Registers
    <3>3. v \union e = m.scan_valid \union m.scan_error \union {i}
      OBVIOUS
    <3> HIDE DEF f, v, e, good
    <3>4. g \in Registers
      BY <2>2, <3>1 DEF Registers
    <3>5. /\ g.timer = m.timer /\ LinkOf(g) = LinkOf(m) /\ AccessOf(g) = AccessOf(m)
          /\ ConfigOf(g) = ConfigOf(m) /\ PendingOf(g) = PendingOf(m)
          /\ StatusOf(g) = StatusOf(m)
          /\ g.scan_slot = m.scan_slot /\ g.scan_stale = m.scan_stale
          /\ g.scan_valid = v /\ g.scan_error = e
      BY <2>2 DEF Registers, LinkOf, AccessOf, ConfigOf, PendingOf, StatusOf
    <3> QED BY <3>2, <3>3, <3>4, <3>5
  <2> HIDE DEF failed, good
  <2>7. /\ t \in Registers
        /\ t.timer = m.timer /\ LinkOf(t) = LinkOf(m) /\ AccessOf(t) = AccessOf(m)
        /\ ConfigOf(t) = ConfigOf(m) /\ PendingOf(t) = PendingOf(m)
        /\ StatusOf(t) = StatusOf(m)
        /\ t.scan_slot = m.scan_slot /\ t.scan_stale = m.scan_stale
        /\ IF m.scan_stale THEN t.scan_valid = m.scan_valid /\ t.scan_error = m.scan_error
           ELSE t.scan_valid \union t.scan_error = m.scan_valid \union m.scan_error \union {i}
    BY <1>2, <2>1, <2>2, <2>5, <2>6
  <2> HIDE DEF t
  <2>8. /\ LinkOf(m) = <<"IDLE", shell.tag, shell.orphan>>
        /\ m.scan_slot = shell.scan_slot /\ m.scan_stale = shell.scan_stale
        /\ m.scan_valid = shell.scan_valid /\ m.scan_error = shell.scan_error
    BY <1>0, <2>3 DEF LinkOf, ScanOf
  <2>9. Scanned(t, r)
    BY <1>0, <2>1, <2>3, <2>7, <2>8 DEF Scanned, Receives, i
  <2> QED BY <1>0, <2>1, <2>3, <2>7, <2>9 DEF Moves
<1>5. CASE Abandon(w, r)
  <2> DEFINE u == 1 - shell.tag
             m == [shell EXCEPT !.orphan = TRUE, !.tag = u]
             t == Finish(m, "TIMEOUT")
  <2>1. shell' = Write(t, w) /\ shell.state = "WAIT" /\ ~Answered(shell, r)
    BY <1>5 DEF Abandon, Disown
  <2>2. u \in {0, 1}
    BY DEF Registers
  <2> HIDE DEF u
  <2>3. m \in Registers
    BY <2>2 DEF Registers
  <2>4. /\ m.timer = shell.timer /\ m.tag = u /\ m.orphan = TRUE /\ m.scan_op = shell.scan_op
        /\ AccessOf(m) = AccessOf(shell)
        /\ ConfigOf(m) = ConfigOf(shell) /\ PendingOf(m) = PendingOf(shell)
        /\ StatusOf(m) = StatusOf(shell) /\ ScanOf(m) = ScanOf(shell)
    BY DEF Registers, AccessOf, ConfigOf, PendingOf, StatusOf, ScanOf
  <2> HIDE DEF m
  <2>5. /\ t \in Registers /\ t.timer = m.timer
        /\ t.state = "IDLE" /\ t.tag = m.tag /\ t.orphan = m.orphan
        /\ AccessOf(t) = AccessOf(m)
        /\ ConfigOf(t) = ConfigOf(m) /\ PendingOf(t) = PendingOf(m)
        /\ m.scan_op =>
              /\ StatusOf(t) = StatusOf(m)
              /\ ScanOf(t) = <<m.slot_ptr, m.scan_slot, m.scan_stale, m.scan_valid,
                              IF "TIMEOUT" # "OK" /\ ~m.scan_stale
                              THEN m.scan_error \union {m.scan_slot} ELSE m.scan_error,
                              m.scan_result>>
        /\ ~m.scan_op =>
              StatusOf(t) = <<FALSE, TRUE, "TIMEOUT", m.rdata>> /\ ScanOf(t) = ScanOf(m)
    BY <1>1, <2>3, FinishFacts
  <2> HIDE DEF t
  <2>6. Ends(t, "TIMEOUT")
    BY <2>4, <2>5 DEF Ends, ScanOf, StatusOf
  <2>7. GivesUp(t, ready, r)
    BY <2>1, <2>4, <2>5, <2>6 DEF GivesUp, LinkOf, u
  <2> QED BY <1>1, <2>1, <2>4, <2>5, <2>7 DEF Moves
<1>6. CASE AnswerMasked(w, r)
  <2> DEFINE m == [s EXCEPT !.rdata = r.rdata]
             d == Merge(r.rdata, m.wdata, m.wmask)
             n == [m EXCEPT !.rmw = FALSE, !.write_issue = TRUE, !.wdata_issue = d, !.state = "ISSUE"]
             t == IF r.error THEN Finish(m, "SLVERR") ELSE Restart(n)
  <2>1. /\ shell' = Write(t, w) /\ shell.state = "WAIT" /\ Answered(shell, r)
        /\ ~shell.scan_op /\ shell.rmw
    BY <1>6 DEF AnswerMasked, s
  <2>2. m \in Registers
    BY <1>0, <1>2, <2>1 DEF Registers
  <2>3. /\ m.timer = s.timer /\ LinkOf(m) = LinkOf(shell) /\ AccessOf(m) = AccessOf(shell)
        /\ ConfigOf(m) = ConfigOf(shell) /\ PendingOf(m) = PendingOf(shell)
        /\ StatusOf(m) = <<shell.busy, shell.done, shell.error, r.rdata>>
        /\ ScanOf(m) = ScanOf(shell)
    BY <1>0 DEF Registers, LinkOf, AccessOf, ConfigOf, PendingOf, StatusOf, ScanOf
  <2> HIDE DEF m
  <2>4. /\ m.rdata = r.rdata /\ m.wdata = shell.wdata /\ m.wmask = shell.wmask
        /\ m.scan_op = shell.scan_op /\ m.address_issue = shell.address_issue
        /\ m.tag = shell.tag /\ m.orphan = shell.orphan /\ m.timeout = shell.timeout
    BY <2>3 DEF StatusOf, ConfigOf, AccessOf, LinkOf
  <2>5. CASE r.error
    <3>1. t = Finish(m, "SLVERR") /\ "SLVERR" \in Codes /\ ~m.scan_op
      BY <1>1, <2>1, <2>4, <2>5
    <3> HIDE DEF t
    <3>2. /\ t \in Registers /\ t.timer = m.timer
          /\ t.state = "IDLE" /\ t.tag = m.tag /\ t.orphan = m.orphan
          /\ AccessOf(t) = AccessOf(m)
          /\ ConfigOf(t) = ConfigOf(m) /\ PendingOf(t) = PendingOf(m)
          /\ StatusOf(t) = <<FALSE, TRUE, "SLVERR", m.rdata>> /\ ScanOf(t) = ScanOf(m)
      BY <2>2, <3>1, FinishFacts
    <3>3. Completes(t, r)
      BY <2>1, <2>3, <2>4, <2>5, <3>2 DEF Completes, Receives, LinkOf
    <3> QED BY <1>0, <2>1, <2>3, <3>2, <3>3 DEF Moves
  <2>6. CASE ~r.error
    <3>1. d \in Words
      BY <1>2, <2>1, <2>4 DEF Merge, Registers, Words
    <3> HIDE DEF d
    <3>2. n \in Registers
      BY <2>2, <3>1 DEF Registers
    <3>3. /\ n.timeout = m.timeout /\ LinkOf(n) = <<"ISSUE", m.tag, m.orphan>>
          /\ AccessOf(n) = <<FALSE, m.scan_op, TRUE, m.address_issue, d>>
          /\ ConfigOf(n) = ConfigOf(m) /\ PendingOf(n) = PendingOf(m)
          /\ StatusOf(n) = StatusOf(m) /\ ScanOf(n) = ScanOf(m)
      BY <2>2 DEF Registers, LinkOf, AccessOf, ConfigOf, PendingOf, StatusOf, ScanOf
    <3> HIDE DEF n
    <3>4. /\ Restart(n) \in Registers /\ Restart(n).timer = n.timeout
          /\ LinkOf(Restart(n)) = LinkOf(n) /\ AccessOf(Restart(n)) = AccessOf(n)
          /\ ConfigOf(Restart(n)) = ConfigOf(n) /\ PendingOf(Restart(n)) = PendingOf(n)
          /\ StatusOf(Restart(n)) = StatusOf(n) /\ ScanOf(Restart(n)) = ScanOf(n)
      BY <3>2 DEF Registers, Restart, LinkOf, AccessOf, ConfigOf, PendingOf, StatusOf, ScanOf
    <3>5. t = Restart(n)
      BY <2>6
    <3> HIDE DEF t
    <3>6. d = Merge(r.rdata, shell.wdata, shell.wmask) /\ m.scan_op = FALSE
      BY <2>1, <2>4 DEF d, Registers
    <3>7. Merges(t, r)
      BY <2>1, <2>3, <2>4, <2>6, <3>3, <3>4, <3>5, <3>6 DEF Merges, Receives
    <3> QED BY <2>1, <2>3, <2>4, <3>3, <3>4, <3>5, <3>7 DEF Moves
  <2> QED BY <2>5, <2>6
<1>7. CASE Answer(w, r)
  <2> DEFINE d == IF shell.write_issue THEN shell.rdata ELSE r.rdata
             m == [s EXCEPT !.rdata = d]
             code == IF r.error THEN "SLVERR" ELSE "OK"
             t == Finish(m, code)
  <2>1. s.rdata = shell.rdata
    BY <1>0 DEF StatusOf
  <2>2. /\ shell' = Write(t, w) /\ shell.state = "WAIT" /\ Answered(shell, r)
        /\ ~shell.scan_op /\ ~shell.rmw
    BY <1>7, <2>1 DEF Answer, s
  <2>3. d \in Words /\ code \in Codes
    BY <1>1, <1>2, <2>2 DEF Registers
  <2> HIDE DEF d
  <2>4. m \in Registers
    BY <1>0, <2>3 DEF Registers
  <2>5. /\ m.timer = s.timer /\ LinkOf(m) = LinkOf(shell) /\ AccessOf(m) = AccessOf(shell)
        /\ ConfigOf(m) = ConfigOf(shell) /\ PendingOf(m) = PendingOf(shell)
        /\ m.rdata = d /\ ScanOf(m) = ScanOf(shell)
    BY <1>0 DEF Registers, LinkOf, AccessOf, ConfigOf, PendingOf, StatusOf, ScanOf
  <2> HIDE DEF m, code
  <2>6. m.tag = shell.tag /\ m.orphan = shell.orphan /\ m.scan_op = shell.scan_op
    BY <2>5 DEF LinkOf, AccessOf
  <2>7. /\ t \in Registers /\ t.timer = m.timer
        /\ t.state = "IDLE" /\ t.tag = m.tag /\ t.orphan = m.orphan
        /\ AccessOf(t) = AccessOf(m)
        /\ ConfigOf(t) = ConfigOf(m) /\ PendingOf(t) = PendingOf(m)
        /\ StatusOf(t) = <<FALSE, TRUE, code, m.rdata>> /\ ScanOf(t) = ScanOf(m)
    BY <2>2, <2>3, <2>4, <2>6, FinishFacts
  <2> HIDE DEF t
  <2>8. Completes(t, r)
    BY <2>2, <2>5, <2>6, <2>7 DEF Completes, Receives, LinkOf, d, code
  <2> QED BY <1>0, <2>2, <2>5, <2>7, <2>8 DEF Moves
<1> QED BY <1>3, <1>4, <1>5, <1>6, <1>7

(* One clock of the shell is a move of the engine and a register write.    *)
LEMMA EngineStep ==
  ASSUME shell \in Registers, NEW w \in RegisterWrites, NEW ready,
         NEW r \in {Nothing} \union Answers, ShellStep(w, ready, r)
  PROVE  \E t \in Registers :
           /\ shell' = Write(t, w) /\ ConfigOf(t) = ConfigOf(shell)
           /\ t.timer <= shell.timer \/ t.timer = shell.timeout
           /\ Moves(t, ready, r)
  BY IdleMoves, IssueMoves, WaitMoves DEF ShellStep
----------------------------------------------------------------------------
(* The link between the shell and the target.                              *)

(* A command is not nothing, nor is an answer.                             *)
LEMMA SomethingFacts ==
  /\ \A c \in Commands : c # Nothing
  /\ \A a \in Answers : a # Nothing
<1>1. \A c \in Commands : DOMAIN c = {"write", "tag", "address", "wdata", "number"}
  BY DEF Commands
<1>2. \A a \in Answers : DOMAIN a = {"tag", "error", "rdata", "address", "number"}
  BY DEF Answers
<1>3. DOMAIN Nothing = {"none"}
  BY DEF Nothing
<1> QED BY <1>1, <1>2, <1>3

(* What arrives is the answer on its way, or the core's over wires.        *)
LEMMA ArrivingFacts ==
  ASSUME Types
  PROVE  /\ Arriving \in {Nothing} \union Answers
         /\ use.crossed => Arriving = response
         /\ ~use.crossed =>
              /\ Arriving # Nothing <=> core.state = "RESPOND"
              /\ core.state = "RESPOND" =>
                   /\ Arriving.tag = core.command.tag /\ Arriving.number = core.command.number
                   /\ Arriving.address = core.command.address
                   /\ Arriving.error = core.error /\ Arriving.rdata = core.rdata
<1>1. CASE use.crossed
  BY <1>1 DEF Types, Arriving
<1>2. CASE ~use.crossed
  <2>1. CASE core.state = "RESPOND"
    <3>1. core \in Accesses
      BY <2>1 DEF Types, CoreReset, CoreIdle
    <3>2. AnswerOffered \in Answers
      BY <3>1 DEF Accesses, Commands, Answers, AnswerOffered, Response
    <3>3. Arriving = AnswerOffered /\ AnswerOffered # Nothing
      BY <1>2, <2>1, <3>2, SomethingFacts DEF Arriving, CoreOffers
    <3> QED BY <1>2, <2>1, <3>2, <3>3 DEF AnswerOffered, Response
  <2>2. CASE core.state # "RESPOND"
    BY <1>2, <2>2 DEF Arriving, CoreOffers
  <2> QED BY <2>1, <2>2
<1> QED BY <1>1, <1>2

(* One clock of the shell, as the link sees it.                            *)
Keep == shell'.tag = shell.tag /\ shell'.orphan = shell.orphan
LinkMove(ready, r) ==
  \/ /\ shell.state = "IDLE" /\ shell'.tag = shell.tag
     /\ shell'.orphan = (shell.orphan /\ r = Nothing)
     /\ \/ shell'.state = "IDLE"
        \/ shell'.state = IF shell'.orphan THEN "DRAIN" ELSE "ISSUE"
  \/ shell.state = "DRAIN" /\ r = Nothing /\ shell'.state \in {"DRAIN", "IDLE"} /\ Keep
  \/ /\ shell.state = "DRAIN" /\ r # Nothing /\ shell'.state = "ISSUE"
     /\ shell'.tag = shell.tag /\ ~shell'.orphan
  \/ shell.state = "ISSUE" /\ ~ready /\ shell'.state \in {"ISSUE", "IDLE"} /\ Keep
  \/ /\ shell.state = "ISSUE" /\ ready /\ shell'.state = "WAIT" /\ Keep
     /\ shell'.address_issue = shell.address_issue
  \/ /\ shell.state = "WAIT" /\ ~Answered(shell, r) /\ shell'.state = "WAIT" /\ Keep
     /\ shell'.address_issue = shell.address_issue
  \/ shell.state = "WAIT" /\ Answered(shell, r) /\ shell'.state \in {"IDLE", "ISSUE"} /\ Keep
  \/ shell.state = "WAIT" /\ ~Answered(shell, r) /\ shell'.state = "IDLE" /\ shell'.orphan

LEMMA LinkMoves ==
  ASSUME shell \in Registers, NEW w \in RegisterWrites, NEW ready,
         NEW r \in {Nothing} \union Answers, ShellStep(w, ready, r)
  PROVE  /\ shell' \in Registers /\ shell'.timeout = shell.timeout
         /\ shell'.timer <= shell.timer \/ shell'.timer = shell.timeout
         /\ LinkMove(ready, r)
<1> PICK t \in Registers :
           /\ shell' = Write(t, w) /\ ConfigOf(t) = ConfigOf(shell)
           /\ t.timer <= shell.timer \/ t.timer = shell.timeout
           /\ Moves(t, ready, r)
  BY EngineStep
<1>1. /\ shell' \in Registers /\ shell'.timeout = t.timeout /\ shell'.timer = t.timer
      /\ LinkOf(shell') = LinkOf(t) /\ AccessOf(shell') = AccessOf(t)
  BY ZenonT(60), WriteFacts
<1>2. /\ shell'.state = t.state /\ shell'.tag = t.tag /\ shell'.orphan = t.orphan
      /\ shell'.address_issue = t.address_issue /\ t.timeout = shell.timeout
  BY <1>1 DEF LinkOf, AccessOf, ConfigOf
<1>3. ASSUME Rests(t, r) \/ Refuses(t, r) PROVE LinkMove(ready, r)
  BY <1>2, <1>3 DEF Rests, Refuses, LinkMove
<1>4. ASSUME Takes(t, r) \/ StartsScan(t, r) PROVE LinkMove(ready, r)
  BY <1>2, <1>4 DEF Takes, StartsScan, Starts, LinkMove
<1>5. ASSUME Waits(t, ready, r) PROVE LinkMove(ready, r)
  BY <1>2, <1>5 DEF Waits, Keeps, LinkOf, AccessOf, LinkMove, Keep
<1>6. ASSUME Drains(t, r) PROVE LinkMove(ready, r)
  BY <1>2, <1>6 DEF Drains, LinkOf, LinkMove
<1>7. ASSUME Issues(t, ready) PROVE LinkMove(ready, r)
  BY <1>2, <1>7 DEF Issues, Keeps, LinkOf, AccessOf, LinkMove, Keep
<1>8. ASSUME GivesUp(t, ready, r) PROVE LinkMove(ready, r)
  BY <1>2, <1>8 DEF GivesUp, LinkOf, LinkMove, Keep
<1>9. ASSUME Scanned(t, r) \/ Merges(t, r) \/ Completes(t, r) PROVE LinkMove(ready, r)
  BY <1>2, <1>9 DEF Scanned, Merges, Completes, Receives, LinkOf, LinkMove, Keep
<1>10. LinkMove(ready, r)
  BY <1>3, <1>4, <1>5, <1>6, <1>7, <1>8, <1>9 DEF Moves
<1> QED BY <1>1, <1>2, <1>10

(* A command offered is that of the access in service.                     *)
LEMMA OfferedFacts ==
  ASSUME Types
  PROVE  /\ CommandOffered \in Commands /\ CommandOffered # Nothing
         /\ CommandOffered.tag = shell.tag /\ CommandOffered.number = number
         /\ CommandOffered.address = shell.address_issue
         /\ CommandOffered.write = shell.write_issue /\ CommandOffered.wdata = shell.wdata_issue
<1>1. CommandOffered \in Commands
  BY DEF Types, Registers, CommandOffered, Command, Commands
<1> QED BY <1>1, SomethingFacts DEF CommandOffered, Command

(* The shell's clock: one command leaves while nothing is on its way.      *)
LEMMA LinkShellClock ==
  ASSUME Types, LinkInStep, NEW w \in RegisterWrites, ShellClock(w), UNCHANGED use
  PROVE  LinkInStep'
<1>1. /\ use.crossed /\ response' = Nothing /\ core' = core
      /\ command' = IF shell.state = "ISSUE" /\ CommandReady THEN CommandOffered ELSE command
      /\ number' = IF shell.state = "WAIT" /\ shell'.state # "WAIT" THEN (number + 1) % 3 ELSE number
      /\ CommandReady <=> command = Nothing
  BY DEF ShellClock, TrackShell, CommandReady
<1>2. Arriving = response /\ response \in {Nothing} \union Answers
  BY <1>1, ArrivingFacts
<1>3. LinkMove(CommandReady, response)
  BY <1>2, LinkMoves DEF Types, ShellClock
<1>4. /\ CommandOffered # Nothing
      /\ CommandOffered.tag = shell.tag /\ CommandOffered.number = number
      /\ CommandOffered.address = shell.address_issue
  BY OfferedFacts
<1>5. CoreBusy' <=> CoreBusy
  BY <1>1 DEF CoreBusy
<1>6. CASE shell.state = "IDLE"
  BY <1>1, <1>3, <1>5, <1>6 DEF LinkMove, LinkInStep, Outstanding, Keep
<1>7. CASE shell.state = "DRAIN"
  BY <1>1, <1>3, <1>5, <1>7 DEF LinkMove, LinkInStep, Outstanding, Keep
<1>8. CASE shell.state = "ISSUE" /\ command # Nothing
  BY <1>8 DEF LinkInStep, Outstanding
<1>9. CASE shell.state = "ISSUE" /\ command = Nothing
  BY <1>1, <1>3, <1>4, <1>5, <1>9 DEF LinkMove, LinkInStep, Outstanding, Keep, Current
<1>10. CASE shell.state = "WAIT" /\ response = Nothing
  BY <1>1, <1>3, <1>5, <1>10 DEF LinkMove, LinkInStep, Outstanding, Keep, Current, Answered
<1>11. CASE shell.state = "WAIT" /\ response # Nothing
  BY <1>1, <1>3, <1>5, <1>11 DEF LinkMove, LinkInStep, Outstanding, Keep, Current, Answered
<1>12. shell.state \in {"IDLE", "DRAIN", "ISSUE", "WAIT"}
  BY DEF Types, Registers
<1> QED BY <1>6, <1>7, <1>8, <1>9, <1>10, <1>11, <1>12

(* The core, at work or not: one access at a time.                         *)
LEMMA CoreFacts ==
  ASSUME Types, NEW offered \in BOOLEAN, NEW c, NEW taken \in BOOLEAN, NEW target \in TargetAnswers,
         CoreStep(offered, c, taken, target), offered => c \in Commands
  PROVE  /\ core' \in {CoreReset, CoreIdle} \union Accesses
         /\ core.state = "RESET" => core'.state = "IDLE"
         /\ core.state = "IDLE" /\ ~offered => core'.state = "IDLE"
         /\ core.state = "IDLE" /\ offered => core'.state = "SETUP" /\ core'.command = c
         /\ core.state = "SETUP" => core'.state = "ACCESS" /\ core'.command = core.command
         /\ core.state = "ACCESS" =>
              /\ core'.state \in {"ACCESS", "RESPOND"} /\ core'.command = core.command
              /\ core'.state = "RESPOND" /\ core.command.write => core'.rdata = core.rdata
         /\ core.state = "RESPOND" =>
              IF taken THEN core'.state = "IDLE" ELSE core' = core
<1>1. CASE core = CoreReset
  BY <1>1 DEF CoreReset, CoreIdle, CoreStep, LeaveReset, Hold, Accept, Setup, Stall, Access, Respond
<1>2. CASE core = CoreIdle
  <2>1. CASE ~offered
    BY <1>2, <2>1 DEF CoreReset, CoreIdle, CoreStep, LeaveReset, Hold, Accept, Setup, Stall, Access, Respond
  <2>2. CASE offered
    <3>1. core' = [state |-> "SETUP", command |-> c, error |-> FALSE, rdata |-> {}]
      BY <1>2, <2>2 DEF CoreIdle, CoreStep, LeaveReset, Hold, Accept, Setup, Stall, Access, Respond
    <3>2. core' \in Accesses
      BY <2>2, <3>1 DEF Accesses, Words
    <3> QED BY <1>2, <2>2, <3>1, <3>2 DEF CoreIdle
  <2> QED BY <2>1, <2>2
<1>3. CASE core \in Accesses /\ core.state = "SETUP"
  <2>1. core' = [core EXCEPT !.state = "ACCESS"]
    BY <1>3 DEF CoreStep, LeaveReset, Hold, Accept, Setup, Stall, Access, Respond
  <2> QED BY <1>3, <2>1 DEF Accesses
<1>4. CASE core \in Accesses /\ core.state = "ACCESS"
  <2>1. CASE core' = core
    BY <1>4, <2>1
  <2>2. CASE /\ target.ready
             /\ core' = [core EXCEPT !.state = "RESPOND", !.error = target.error,
                                     !.rdata = IF core.command.write THEN @ ELSE target.value]
    <3>1. target.error \in BOOLEAN /\ target.value \in Words
      BY <2>2, UsesAssumption DEF TargetAnswers, NotReady, AnswerOf, Types
    <3> DEFINE e == target.error
               d == IF core.command.write THEN core.rdata ELSE target.value
               c1 == [core EXCEPT !.state = "RESPOND", !.error = e, !.rdata = d]
    <3>2. e \in BOOLEAN /\ d \in Words /\ (core.command.write => d = core.rdata)
      BY <1>4, <3>1 DEF Accesses
    <3>3. core' = c1
      BY <2>2
    <3> HIDE DEF e, d
    <3>4. c1 \in Accesses /\ c1.state = "RESPOND" /\ c1.command = core.command /\ c1.rdata = d
      BY <1>4, <3>2 DEF Accesses
    <3> QED BY <1>4, <3>2, <3>3, <3>4
  <2> QED BY <1>4, <2>1, <2>2 DEF CoreStep, LeaveReset, Hold, Accept, Setup, Stall, Access, Respond
<1>5. CASE core \in Accesses /\ core.state = "RESPOND"
  <2>1. core' = IF taken THEN CoreIdle ELSE core
    BY <1>5 DEF CoreStep, LeaveReset, Hold, Accept, Setup, Stall, Access, Respond
  <2> QED BY <1>5, <2>1 DEF CoreIdle
<1> QED BY <1>1, <1>2, <1>3, <1>4, <1>5 DEF Types, Accesses

(* The target's clock moves the access in progress one stage on.           *)
LEMMA LinkCoreClock ==
  ASSUME Types, LinkInStep, CoreClock, UNCHANGED use
  PROVE  LinkInStep'
<1> PICK target \in TargetAnswers :
      CoreStep(command # Nothing, command, response = Nothing, target)
  BY DEF CoreClock
<1>1. /\ command' = IF core.state = "IDLE" THEN Nothing ELSE command
      /\ response' = IF core.state = "RESPOND" /\ response = Nothing THEN AnswerOffered ELSE response
      /\ shell' = shell /\ number' = number
  BY DEF CoreClock, CoreOffers
<1>2. command # Nothing => command \in Commands
  BY DEF Types
<1>3. /\ core.state = "RESET" => core'.state = "IDLE"
      /\ core.state = "IDLE" /\ command = Nothing => core'.state = "IDLE"
      /\ core.state = "IDLE" /\ command # Nothing => core'.state = "SETUP" /\ core'.command = command
      /\ core.state = "SETUP" => core'.state = "ACCESS" /\ core'.command = core.command
      /\ core.state = "ACCESS" => core'.state \in {"ACCESS", "RESPOND"} /\ core'.command = core.command
      /\ core.state = "RESPOND" =>
           IF response = Nothing THEN core'.state = "IDLE" ELSE core' = core
  BY <1>2, CoreFacts
<1>4. core.state \in {"RESET", "IDLE", "SETUP", "ACCESS", "RESPOND"}
  BY DEF Types, CoreReset, CoreIdle, Accesses
<1>5. core.state = "RESPOND" =>
        /\ AnswerOffered # Nothing /\ AnswerOffered.tag = core.command.tag
        /\ AnswerOffered.number = core.command.number
        /\ AnswerOffered.address = core.command.address
  <2> SUFFICES ASSUME core.state = "RESPOND"
               PROVE  /\ AnswerOffered # Nothing /\ AnswerOffered.tag = core.command.tag
                      /\ AnswerOffered.number = core.command.number
                      /\ AnswerOffered.address = core.command.address
    OBVIOUS
  <2>1. core \in Accesses
    BY DEF Types, CoreReset, CoreIdle
  <2>2. AnswerOffered \in Answers
    BY <2>1 DEF Accesses, Commands, Answers, AnswerOffered, Response
  <2> QED BY <2>2, SomethingFacts DEF AnswerOffered, Response
<1>6. CASE core.state \in {"RESET", "IDLE"} /\ command = Nothing
  BY <1>1, <1>3, <1>6 DEF LinkInStep, Outstanding, CoreBusy, Current
<1>7. CASE core.state = "RESET" /\ command # Nothing
  BY <1>1, <1>3, <1>7 DEF LinkInStep, Outstanding, CoreBusy, Current
<1>8. CASE core.state = "IDLE" /\ command # Nothing
  BY <1>1, <1>3, <1>8 DEF LinkInStep, Outstanding, CoreBusy, Current
<1>9. CASE core.state \in {"SETUP", "ACCESS"}
  BY <1>1, <1>3, <1>9 DEF LinkInStep, Outstanding, CoreBusy, Current
<1>10. CASE core.state = "RESPOND"
  BY <1>1, <1>3, <1>5, <1>10 DEF LinkInStep, Outstanding, CoreBusy, Current
<1> QED BY <1>4, <1>6, <1>7, <1>8, <1>9, <1>10

(* One clock for both sides.                                               *)
LEMMA LinkCommonClock ==
  ASSUME Types, LinkInStep, NEW w \in RegisterWrites, CommonClock(w), UNCHANGED use
  PROVE  LinkInStep'
<1> PICK target \in TargetAnswers :
      CoreStep(shell.state = "ISSUE", CommandOffered, TRUE, target)
  BY DEF CommonClock
<1> DEFINE r == Arriving
<1>1. /\ ~use.crossed /\ command = Nothing /\ response = Nothing
      /\ command' = Nothing /\ response' = Nothing
      /\ number' = IF shell.state = "WAIT" /\ shell'.state # "WAIT" THEN (number + 1) % 3 ELSE number
      /\ CommandReady <=> core.state = "IDLE"
  BY DEF CommonClock, TrackShell, CommandReady, crossing, Types
<1>2. /\ r \in {Nothing} \union Answers
      /\ r # Nothing <=> core.state = "RESPOND"
      /\ core.state = "RESPOND" => r.tag = core.command.tag
  BY <1>1, ArrivingFacts
<1>3. LinkMove(CommandReady, r)
  BY <1>2, LinkMoves DEF Types, CommonClock
<1> HIDE DEF r
<1>4. /\ CommandOffered \in Commands
      /\ CommandOffered.tag = shell.tag /\ CommandOffered.number = number
      /\ CommandOffered.address = shell.address_issue
  BY OfferedFacts
<1>5. /\ core.state = "RESET" => core'.state = "IDLE"
      /\ core.state = "IDLE" /\ shell.state # "ISSUE" => core'.state = "IDLE"
      /\ core.state = "IDLE" /\ shell.state = "ISSUE" =>
           core'.state = "SETUP" /\ core'.command = CommandOffered
      /\ core.state = "SETUP" => core'.state = "ACCESS" /\ core'.command = core.command
      /\ core.state = "ACCESS" => core'.state \in {"ACCESS", "RESPOND"} /\ core'.command = core.command
      /\ core.state = "RESPOND" => core'.state = "IDLE"
  BY <1>4, CoreFacts
<1>6. core.state \in {"RESET", "IDLE", "SETUP", "ACCESS", "RESPOND"}
  BY DEF Types, CoreReset, CoreIdle, Accesses
<1>7. shell.state \in {"IDLE", "DRAIN", "ISSUE", "WAIT"}
  BY DEF Types, Registers
<1>8. CASE shell.state = "IDLE"
  BY <1>1, <1>2, <1>3, <1>5, <1>6, <1>8 DEF LinkMove, LinkInStep, Outstanding, CoreBusy, Keep
<1>9. CASE shell.state = "DRAIN"
  BY <1>1, <1>2, <1>3, <1>5, <1>6, <1>9 DEF LinkMove, LinkInStep, Outstanding, CoreBusy, Keep
<1>10. CASE shell.state = "ISSUE"
  <2>1. core.state \in {"RESET", "IDLE"} /\ ~shell.orphan
    BY <1>6, <1>10 DEF LinkInStep, Outstanding, CoreBusy
  <2>2. CASE core.state = "RESET"
    BY <1>1, <1>2, <1>3, <1>5, <1>10, <2>1, <2>2 DEF LinkMove, LinkInStep, Outstanding, CoreBusy, Keep
  <2>3. CASE core.state = "IDLE"
    <3>1. shell'.state = "WAIT" /\ Keep /\ shell'.address_issue = shell.address_issue
      BY <1>1, <1>3, <1>10, <2>3 DEF LinkMove
    <3>2. core'.state = "SETUP" /\ core'.command = CommandOffered /\ number' = number
      BY <1>1, <1>5, <1>10, <2>3
    <3> QED BY <1>1, <1>4, <2>1, <3>1, <3>2 DEF LinkInStep, Outstanding, CoreBusy, Keep, Current
  <2> QED BY <2>1, <2>2, <2>3
<1>11. CASE shell.state = "WAIT" /\ core.state = "RESPOND"
  <2>1. Answered(shell, r) /\ ~shell.orphan
    BY <1>2, <1>11 DEF LinkInStep, CoreBusy, Current, Answered
  <2> QED BY <1>1, <1>3, <1>5, <1>11, <2>1 DEF LinkMove, LinkInStep, Outstanding, CoreBusy, Keep
<1>12. CASE shell.state = "WAIT" /\ core.state # "RESPOND"
  <2>1. ~Answered(shell, r) /\ ~shell.orphan
    BY <1>2, <1>12 DEF LinkInStep, Answered
  <2>2. CoreBusy' <=> CoreBusy
    BY <1>5, <1>6, <1>12 DEF CoreBusy
  <2>3. CoreBusy => core'.command = core.command
    BY <1>5, <1>12 DEF CoreBusy
  <2> QED BY <1>1, <1>3, <1>12, <2>1, <2>2, <2>3 DEF LinkMove, LinkInStep, Outstanding, Keep, Current
<1> QED BY <1>7, <1>8, <1>9, <1>10, <1>11, <1>12

----------------------------------------------------------------------------
(* The scanner.                                                            *)

(* The slots with flags, as the engine leaves them: those that had some,   *)
(* and that of a scan read which no write made stale.                      *)
LEMMA FlagMoves ==
  ASSUME shell \in Registers, NEW t \in Registers, NEW ready, NEW r, Moves(t, ready, r)
  PROVE  /\ t.scan_valid \union t.scan_error =
              (shell.scan_valid \union shell.scan_error)
              \union IF shell.scan_op /\ shell.state # "IDLE" /\ t.state = "IDLE" /\ ~shell.scan_stale
                     THEN {shell.scan_slot} ELSE {}
         /\ t.scan_op /\ t.state # "IDLE" /\ ~t.scan_stale =>
              \/ /\ t.scan_slot \in shell.slot_enable
                 /\ t.address_issue = shell.slot_addr[t.scan_slot]
              \/ /\ shell.scan_op /\ shell.state # "IDLE" /\ ~shell.scan_stale
                 /\ t.scan_slot = shell.scan_slot /\ t.address_issue = shell.address_issue
<1> DEFINE flags == t.scan_valid \union t.scan_error =
              (shell.scan_valid \union shell.scan_error)
              \union IF shell.scan_op /\ shell.state # "IDLE" /\ t.state = "IDLE" /\ ~shell.scan_stale
                     THEN {shell.scan_slot} ELSE {}
           reads == t.scan_op /\ t.state # "IDLE" /\ ~t.scan_stale =>
              \/ /\ t.scan_slot \in shell.slot_enable
                 /\ t.address_issue = shell.slot_addr[t.scan_slot]
              \/ /\ shell.scan_op /\ shell.state # "IDLE" /\ ~shell.scan_stale
                 /\ t.scan_slot = shell.scan_slot /\ t.address_issue = shell.address_issue
<1>1. ASSUME Rests(t, r) \/ Refuses(t, r) PROVE flags /\ reads
  BY <1>1 DEF Rests, Refuses, ScanOf
<1>2. ASSUME Takes(t, r) PROVE flags /\ reads
  BY <1>2 DEF Takes, Starts, ScanOf, AccessOf
<1>3. ASSUME StartsScan(t, r) PROVE flags /\ reads
  BY <1>3 DEF StartsScan, Starts, AccessOf
<1>4. ASSUME Waits(t, ready, r) \/ Drains(t, r) \/ Issues(t, ready) PROVE flags /\ reads
  <2>1. /\ ScanOf(t) = ScanOf(shell) /\ AccessOf(t) = AccessOf(shell)
        /\ shell.state # "IDLE" /\ t.state # "IDLE"
    BY <1>4 DEF Waits, Drains, Issues, Keeps, LinkOf
  <2> QED BY <2>1 DEF ScanOf, AccessOf
<1>5. ASSUME GivesUp(t, ready, r) PROVE flags /\ reads
  <2>1. Ends(t, "TIMEOUT") /\ shell.state # "IDLE" /\ t.state = "IDLE"
    BY <1>5 DEF GivesUp, LinkOf
  <2>2. CASE shell.scan_op
    BY <2>1, <2>2 DEF Ends, ScanOf
  <2>3. CASE ~shell.scan_op
    BY <2>1, <2>3 DEF Ends, ScanOf
  <2> QED BY <2>1, <2>2, <2>3
<1>6. ASSUME Scanned(t, r) PROVE flags /\ reads
  BY <1>6 DEF Scanned, Receives, LinkOf
<1>7. ASSUME Merges(t, r) PROVE flags /\ reads
  BY <1>7 DEF Merges, Receives, LinkOf, ScanOf, AccessOf
<1>8. ASSUME Completes(t, r) PROVE flags /\ reads
  BY <1>8 DEF Completes, Receives, LinkOf, ScanOf
<1>9. flags /\ reads
  BY <1>1, <1>2, <1>3, <1>4, <1>5, <1>6, <1>7, <1>8 DEF Moves
<1>10. shell.state \in {"IDLE", "DRAIN", "ISSUE", "WAIT"}
  BY DEF Registers
<1> QED BY <1>9, <1>10

(* The answer taken is that of the access in progress.                     *)
LEMMA AnswerIsCurrent ==
  ASSUME Types, LinkInStep, Answered(shell, Arriving), shell.state \in {"ISSUE", "WAIT"}
  PROVE  /\ shell.state = "WAIT"
         /\ Arriving.number = number /\ Arriving.address = shell.address_issue
<1>1. Arriving # Nothing
  BY DEF Answered
<1>2. CASE use.crossed
  BY <1>1, <1>2, ArrivingFacts DEF LinkInStep, Outstanding, Current
<1>3. CASE ~use.crossed
  BY <1>1, <1>3, ArrivingFacts DEF LinkInStep, Outstanding, CoreBusy, Current
<1> QED BY <1>2, <1>3

(* One clock of the scanner.                                               *)
LEMMA ScanClock ==
  ASSUME Types, LinkInStep, ScanInStep, NEW w \in RegisterWrites,
         ShellStep(w, CommandReady, Arriving), TrackShell(w)
  PROVE  ScanInStep'
<1> DEFINE r == Arriving
           Flags(s) == s.scan_valid \union s.scan_error
           Ended == shell.scan_op /\ shell.state # "IDLE" /\ shell'.state = "IDLE" /\ ~shell.scan_stale
<1>0. shell \in Registers /\ r \in {Nothing} \union Answers
  BY ArrivingFacts DEF Types
<1> PICK t \in Registers :
      /\ shell' = Write(t, w) /\ ConfigOf(t) = ConfigOf(shell) /\ Moves(t, CommandReady, r)
  BY <1>0, EngineStep
<1>1. /\ shell' \in Registers /\ LinkOf(shell') = LinkOf(t) /\ AccessOf(shell') = AccessOf(t)
      /\ shell'.scan_slot = t.scan_slot
      /\ IF w.reg = "SLOT_ENABLE"
         THEN /\ shell'.scan_stale /\ shell'.slot_enable = w.value
              /\ shell'.slot_addr = t.slot_addr
              /\ Flags(shell') = Flags(t) \ (Slots \ w.value)
         ELSE shell'.slot_enable = t.slot_enable
      /\ IF w.reg = "SLOT_ADDR"
         THEN /\ shell'.scan_stale
              /\ shell'.slot_addr = [t.slot_addr EXCEPT ![w.slot] = w.value]
              /\ Flags(shell') = Flags(t) \ {w.slot}
         ELSE shell'.slot_addr = t.slot_addr
      /\ w.reg \notin {"SLOT_ENABLE", "SLOT_ADDR"} => ScanOf(shell') = ScanOf(t)
  BY ZenonT(60), WriteFacts
<1>2. /\ shell'.state = t.state /\ shell'.scan_op = t.scan_op
      /\ shell'.address_issue = t.address_issue
      /\ t.slot_enable = shell.slot_enable /\ t.slot_addr = shell.slot_addr
  BY <1>1 DEF LinkOf, AccessOf, ConfigOf
<1>3. /\ Flags(t) = Flags(shell) \union IF Ended THEN {shell.scan_slot} ELSE {}
      /\ t.scan_op /\ t.state # "IDLE" /\ ~t.scan_stale =>
              \/ /\ t.scan_slot \in shell.slot_enable
                 /\ t.address_issue = shell.slot_addr[t.scan_slot]
              \/ /\ shell.scan_op /\ shell.state # "IDLE" /\ ~shell.scan_stale
                 /\ t.scan_slot = shell.scan_slot /\ t.address_issue = shell.address_issue
  BY <1>0, <1>2, FlagMoves
<1>4. /\ Flags(t) \in SUBSET Slots /\ Flags(shell') \in SUBSET Slots
      /\ shell.scan_slot \in Slots /\ t.slot_addr \in [Slots -> TargetAddresses]
      /\ sampled \in [Slots -> TargetAddresses]
  BY <1>0, <1>1 DEF Registers, Types
<1>5. /\ Ended => sampled' = [sampled EXCEPT ![shell.scan_slot] =
                     IF Answered(shell, r) THEN r.address ELSE shell.address_issue]
      /\ ~Ended => sampled' = sampled
  BY DEF TrackShell
<1>6. Ended => sampled' = [sampled EXCEPT ![shell.scan_slot] = shell.address_issue]
  <2>1. ASSUME Ended, Answered(shell, r) PROVE r.address = shell.address_issue
    <3>1. LinkMove(CommandReady, r) /\ r # Nothing
      BY <1>0, <2>1, LinkMoves DEF Answered
    <3>2. shell.state \in {"ISSUE", "WAIT"}
      BY <1>0, <2>1, <3>1 DEF LinkMove, Registers
    <3> QED BY <2>1, <3>2, AnswerIsCurrent
  <2> QED BY <1>5, <2>1
<1>7. ASSUME NEW i \in Flags(t)
      PROVE  i \in t.slot_enable /\ sampled'[i] = t.slot_addr[i] /\ i \in Slots
  <2>1. i \in Slots
    BY <1>4
  <2>2. CASE Ended /\ i = shell.scan_slot
    <3>1. i \in shell.slot_enable /\ shell.address_issue = shell.slot_addr[i]
      BY <2>2 DEF ScanInStep
    <3> QED BY <1>2, <1>4, <1>6, <2>1, <2>2, <3>1
  <2>3. CASE ~(Ended /\ i = shell.scan_slot)
    <3>1. i \in Flags(shell) /\ sampled'[i] = sampled[i]
      BY <1>3, <1>4, <1>5, <1>6, <2>1, <2>3
    <3> QED BY <1>2, <2>1, <3>1 DEF ScanInStep, ScanIsCurrent
  <2> QED BY <2>2, <2>3
<1> HIDE DEF r, Ended
<1>8. ASSUME NEW i \in Flags(shell')
      PROVE  i \in shell'.slot_enable /\ sampled'[i] = shell'.slot_addr[i]
  <2>1. CASE w.reg = "SLOT_ENABLE"
    <3>1. i \in Flags(t) /\ i \in Slots /\ i \in w.value
      BY <1>1, <1>4, <2>1
    <3> QED BY <1>1, <1>7, <2>1, <3>1
  <2>2. CASE w.reg = "SLOT_ADDR"
    <3>1. i \in Flags(t) /\ i \in Slots /\ i # w.slot
      BY <1>1, <1>4, <2>2
    <3> QED BY <1>1, <1>4, <1>7, <2>2, <3>1
  <2>3. CASE w.reg \notin {"SLOT_ENABLE", "SLOT_ADDR"}
    <3>1. i \in Flags(t)
      BY <1>1, <2>3 DEF ScanOf
    <3> QED BY <1>1, <1>7, <2>3, <3>1
  <2> QED BY <2>1, <2>2, <2>3
<1>9. ScanIsCurrent'
  BY <1>8 DEF ScanIsCurrent
<1>10. ASSUME shell'.scan_op, shell'.state # "IDLE", ~shell'.scan_stale
       PROVE  /\ shell'.scan_slot \in shell'.slot_enable
              /\ shell'.address_issue = shell'.slot_addr[shell'.scan_slot]
  <2>1. w.reg \notin {"SLOT_ENABLE", "SLOT_ADDR"}
    BY <1>1, <1>10
  <2>2. ~t.scan_stale
    BY <1>1, <1>10, <2>1 DEF ScanOf
  <2> QED BY <1>1, <1>2, <1>3, <1>10, <2>1, <2>2 DEF ScanInStep
<1> QED BY <1>9, <1>10 DEF ScanInStep
----------------------------------------------------------------------------
(* Types.                                                                  *)

MachineTypes ==
  /\ use \in Uses /\ shell \in Registers
  /\ shell.timeout = use.timeout /\ shell.timer <= use.timeout
  /\ core \in {CoreReset, CoreIdle} \union Accesses
  /\ command \in {Nothing} \union Commands /\ response \in {Nothing} \union Answers
  /\ ~use.crossed => command = Nothing /\ response = Nothing
  /\ fired \in Requests /\ served \in Requests
  /\ number \in 0..2 /\ sampled \in [Slots -> TargetAddresses]

(* Only a command and its staging carry values of their own.               *)
LEMMA WriteValues ==
  ASSUME NEW w \in RegisterWrites
  PROVE  /\ w.reg \in {"none", "COMMAND", "CONFIG"} \/ w \in ScanWrites
         /\ w.reg = "COMMAND" => w.value \in Operations
         /\ w.reg = "CONFIG" => w.value \in Requests
  BY DEF RegisterWrites, ScanWrites, NoWrite

LEMMA TypesHistory ==
  ASSUME Types, NEW w \in RegisterWrites, TrackShell(w)
  PROVE  /\ fired' \in Requests /\ served' \in Requests
         /\ number' \in 0..2 /\ sampled' \in [Slots -> TargetAddresses]
<1>0. shell \in Registers
  BY DEF Types
<1>1. fired' \in Requests
  <2>1. CASE w.reg = "COMMAND"
    <3>1. w.value \in Operations /\ shell.address \in TargetAddresses
          /\ shell.wdata \in Words /\ shell.wmask \in Words
      BY <1>0, <2>1, WriteValues DEF Registers
    <3>2. fired' = [op |-> w.value, address |-> shell.address,
                    wdata |-> shell.wdata, wmask |-> shell.wmask]
      BY <2>1 DEF TrackShell
    <3> QED BY <3>1, <3>2 DEF Requests
  <2>2. CASE w.reg # "COMMAND"
    BY <2>2 DEF TrackShell, Types
  <2> QED BY <2>1, <2>2
<1>2. served' \in Requests
  BY DEF TrackShell, Types
<1>3. number' \in 0..2
  BY DEF TrackShell, Types
<1>4. sampled' \in [Slots -> TargetAddresses]
  <2>1. sampled \in [Slots -> TargetAddresses] /\ shell.scan_slot \in Slots
        /\ shell.address_issue \in TargetAddresses
    BY <1>0 DEF Types, Registers
  <2>2. Answered(shell, Arriving) => Arriving.address \in TargetAddresses
    BY ArrivingFacts DEF Answered, Answers
  <2>3. \/ sampled' = sampled
        \/ sampled' = [sampled EXCEPT ![shell.scan_slot] = Arriving.address]
           /\ Answered(shell, Arriving)
        \/ sampled' = [sampled EXCEPT ![shell.scan_slot] = shell.address_issue]
    BY DEF TrackShell
  <2> QED BY <2>1, <2>2, <2>3
<1> QED BY <1>1, <1>2, <1>3, <1>4

LEMMA TypesClock ==
  ASSUME Types, NEW w \in RegisterWrites, Clock(w), UNCHANGED use
  PROVE  MachineTypes'
<1>0. /\ shell \in Registers /\ shell.timeout = use.timeout /\ shell.timer <= use.timeout
      /\ use \in Uses /\ use.timeout \in Nat
  BY UsesAssumption DEF Types
<1>1. ShellStep(w, CommandReady, Arriving) /\ TrackShell(w)
  BY DEF Clock, ShellClock, CommonClock
<1>2. Arriving \in {Nothing} \union Answers
  BY ArrivingFacts
<1>3. /\ shell' \in Registers /\ shell'.timeout = shell.timeout
      /\ shell'.timer <= shell.timer \/ shell'.timer = shell.timeout
  BY <1>0, <1>1, <1>2, LinkMoves
<1>4. shell'.timer <= use.timeout
  BY <1>0, <1>3 DEF Registers
<1>5. /\ fired' \in Requests /\ served' \in Requests
      /\ number' \in 0..2 /\ sampled' \in [Slots -> TargetAddresses]
  BY <1>1, TypesHistory
<1>6. CommandOffered \in Commands
  BY OfferedFacts
<1>7. CASE ShellClock(w)
  <2>1. /\ command' \in {Nothing} \union Commands /\ response' \in {Nothing} \union Answers
        /\ core' \in {CoreReset, CoreIdle} \union Accesses /\ use.crossed
    BY <1>6, <1>7 DEF ShellClock, Types
  <2> QED BY <1>0, <1>3, <1>4, <1>5, <2>1 DEF MachineTypes
<1>8. CASE CommonClock(w)
  <2>1. PICK target \in TargetAnswers :
          CoreStep(shell.state = "ISSUE", CommandOffered, TRUE, target)
    BY <1>8 DEF CommonClock
  <2>2. core' \in {CoreReset, CoreIdle} \union Accesses
    BY <1>6, <2>1, CoreFacts
  <2>3. command' = Nothing /\ response' = Nothing
    BY <1>8 DEF CommonClock, crossing, Types
  <2> QED BY <1>0, <1>3, <1>4, <1>5, <2>2, <2>3 DEF MachineTypes
<1> QED BY <1>7, <1>8 DEF Clock

LEMMA TypesCoreClock ==
  ASSUME Types, CoreClock, UNCHANGED use
  PROVE  MachineTypes'
<1> PICK target \in TargetAnswers :
      CoreStep(command # Nothing, command, response = Nothing, target)
  BY DEF CoreClock
<1>1. command # Nothing => command \in Commands
  BY DEF Types
<1>2. core' \in {CoreReset, CoreIdle} \union Accesses
  BY <1>1, CoreFacts
<1>3. core.state = "RESPOND" => AnswerOffered \in Answers
  <2>1. ASSUME core.state = "RESPOND" PROVE core \in Accesses
    BY <2>1 DEF Types, CoreReset, CoreIdle
  <2> QED BY <2>1 DEF Accesses, Commands, Answers, AnswerOffered, Response
<1>4. command' \in {Nothing} \union Commands /\ response' \in {Nothing} \union Answers
  BY <1>3 DEF CoreClock, CoreOffers, Types
<1> QED BY <1>2, <1>4 DEF CoreClock, Types, MachineTypes

LEMMA ShellInitFacts ==
  ASSUME NEW u \in Uses
  PROVE  LET s == ShellInit(ZeroAddress, u.timeout)
         IN /\ s \in Registers /\ s.timeout = u.timeout /\ s.timer = 0
            /\ s.state = "IDLE" /\ ~s.orphan /\ ~s.pending /\ ~s.busy /\ ~s.scan_op
            /\ s.slot_enable = {} /\ s.scan_valid = {} /\ s.scan_error = {}
<1>1. u.timeout \in Nat /\ ZeroAddress \in TargetAddresses /\ SlotCount \in Nat \ {0}
  BY UsesAssumption, ZeroAddressAssumption, SlotCountAssumption
<1>2. 0 \in Slots /\ {} \in Words
  BY <1>1 DEF Slots, Words
<1> QED BY <1>1, <1>2 DEF ShellInit, Registers, Operations, Codes

LEMMA InitTypes == Init => Types
<1> SUFFICES ASSUME Init PROVE Types
  OBVIOUS
<1>1. Unstaged \in Requests
  BY ZeroAddressAssumption DEF Unstaged, Requests, Operations, Words
<1>2. shell \in Registers /\ shell.timeout = use.timeout /\ shell.timer = 0 /\ use \in Uses
  BY ShellInitFacts DEF Init
<1>3. shell.timer <= use.timeout
  BY <1>2, UsesAssumption
<1> QED BY <1>1, <1>2, <1>3, ZeroAddressAssumption DEF Init, Types

(* The register write of each clock the host asks for.                     *)
LEMMA HostWrites ==
  ASSUME Types
  PROVE  /\ NoWrite \in RegisterWrites
         /\ \A q \in use.requests : q \in Requests /\ [reg |-> "CONFIG", value |-> q] \in RegisterWrites
         /\ \A h \in Hosts : [reg |-> "COMMAND", value |-> ask[h].op] \in RegisterWrites
         /\ \A w \in use.scan_writes : w \in RegisterWrites
<1>1. use.requests \subseteq Requests /\ use.scan_writes \subseteq ScanWrites
  BY UsesAssumption DEF Types
<1>2. \A h \in Hosts : ask[h].op \in Operations
  BY DEF Types, Requests
<1> QED BY <1>1, <1>2 DEF RegisterWrites

LEMMA NextTypes ==
  ASSUME Types, [Next]_explorerVars
  PROVE  Types'
<1>0. Types <=> MachineTypes /\ pc \in [Hosts -> {"idle", "staged", "polling"}]
                /\ ask \in [Hosts -> Requests]
  BY DEF Types, MachineTypes
<1>00. Types' <=> MachineTypes' /\ pc' \in [Hosts -> {"idle", "staged", "polling"}]
                /\ ask' \in [Hosts -> Requests]
  BY DEF Types, MachineTypes
<1>1. CASE Run /\ UNCHANGED use
  BY <1>0, <1>00, <1>1, HostWrites, TypesClock DEF Run, hostVars
<1>2. CASE CoreClock /\ UNCHANGED use
  BY <1>0, <1>00, <1>2, TypesCoreClock DEF CoreClock, hostVars
<1>3. CASE Program /\ UNCHANGED use
  BY <1>0, <1>00, <1>3, HostWrites, TypesClock DEF Program, hostVars
<1>4. ASSUME NEW h \in Hosts, Stage(h), UNCHANGED use PROVE Types'
  <2>1. PICK q \in use.requests : /\ Clock([reg |-> "CONFIG", value |-> q])
                                  /\ ask' = [ask EXCEPT ![h] = q]
    BY <1>4 DEF Stage
  <2>2. MachineTypes'
    BY <1>4, <2>1, HostWrites, TypesClock
  <2> QED BY <1>0, <1>00, <1>4, <2>1, <2>2, HostWrites DEF Stage
<1>5. ASSUME NEW h \in Hosts, FireCommand(h), UNCHANGED use PROVE Types'
  <2>1. MachineTypes'
    BY <1>5, HostWrites, TypesClock DEF FireCommand
  <2> QED BY <1>0, <1>00, <1>5, <2>1 DEF FireCommand
<1>6. ASSUME NEW h \in Hosts, Poll(h), UNCHANGED use PROVE Types'
  BY <1>0, <1>00, <1>6 DEF Poll, MachineTypes, crossing, history
<1>7. CASE HostReset /\ UNCHANGED use
  <2>1. use \in Uses /\ use.timeout \in Nat
    BY UsesAssumption DEF Types
  <2>2. shell' \in Registers /\ shell'.timeout = use.timeout /\ shell'.timer = 0
    BY <1>7, <2>1, ShellInitFacts DEF HostReset
  <2>3. shell'.timer <= use.timeout
    BY <2>1, <2>2
  <2>4. MachineTypes'
    BY <1>0, <1>7, <2>1, <2>2, <2>3 DEF HostReset, MachineTypes
  <2> QED BY <1>0, <1>00, <1>7, <2>4 DEF HostReset
<1>8. CASE TargetReset /\ UNCHANGED use
  BY <1>0, <1>00, <1>8 DEF TargetReset, MachineTypes, hostVars, crossing, history
<1>9. CASE UNCHANGED explorerVars
  BY <1>0, <1>00, <1>9 DEF explorerVars, MachineTypes, hostVars, crossing, history
<1> QED BY <1>1, <1>2, <1>3, <1>4, <1>5, <1>6, <1>7, <1>8, <1>9 DEF Next

(* A step is a clock with a register write, a clock of the target, a poll  *)
(* or a reset.                                                             *)
LEMMA NextSteps ==
  ASSUME Types, [Next]_explorerVars
  PROVE  \/ /\ UNCHANGED use
            /\ \E w \in RegisterWrites :
                 Clock(w) /\ (w.reg \in {"none", "COMMAND", "CONFIG"} \/ w \in use.scan_writes)
         \/ CoreClock /\ UNCHANGED use
         \/ HostReset /\ UNCHANGED use
         \/ TargetReset /\ UNCHANGED use
         \/ UNCHANGED <<use, shell, core, command, response, history>>
<1>1. CASE Run /\ UNCHANGED use
  <2>1. NoWrite.reg = "none"
    BY DEF NoWrite
  <2> QED BY <1>1, <2>1, HostWrites DEF Run
<1>2. ASSUME NEW h \in Hosts, Stage(h), UNCHANGED use
      PROVE  \E w \in RegisterWrites :
                 Clock(w) /\ (w.reg \in {"none", "COMMAND", "CONFIG"} \/ w \in use.scan_writes)
  <2>1. PICK q \in use.requests : Clock([reg |-> "CONFIG", value |-> q])
    BY <1>2 DEF Stage
  <2>2. [reg |-> "CONFIG", value |-> q] \in RegisterWrites
    BY HostWrites
  <2> QED BY <2>1, <2>2
<1>3. ASSUME NEW h \in Hosts, FireCommand(h), UNCHANGED use
      PROVE  \E w \in RegisterWrites :
                 Clock(w) /\ (w.reg \in {"none", "COMMAND", "CONFIG"} \/ w \in use.scan_writes)
  <2>1. Clock([reg |-> "COMMAND", value |-> ask[h].op])
    BY <1>3 DEF FireCommand
  <2>2. [reg |-> "COMMAND", value |-> ask[h].op] \in RegisterWrites
    BY HostWrites
  <2> QED BY <2>1, <2>2
<1>4. CASE Program /\ UNCHANGED use
  BY <1>4, HostWrites DEF Program
<1>5. ASSUME NEW h \in Hosts, Poll(h), UNCHANGED use
      PROVE  UNCHANGED <<use, shell, core, command, response, history>>
  BY <1>5 DEF Poll, crossing
<1>6. CASE UNCHANGED explorerVars
  BY <1>6 DEF explorerVars
<1> QED BY <1>1, <1>2, <1>3, <1>4, <1>5, <1>6 DEF Next

(* A write that does not program the scanner leaves it alone.              *)
LEMMA HostWriteFacts ==
  ASSUME NEW s \in Registers, NEW w \in RegisterWrites, w.reg \in {"none", "COMMAND", "CONFIG"}
  PROVE  /\ AccessOf(Write(s, w)) = AccessOf(s) /\ Write(s, w).slot_enable = s.slot_enable
         /\ ScanOf(Write(s, w)) = ScanOf(s)
  BY ZenonT(60), WriteFacts

LEMMA NextInStep ==
  ASSUME Types, [Next]_explorerVars, "host" \notin use.resets, LinkInStep, ScanInStep
  PROVE  LinkInStep' /\ ScanInStep'
<1>1. ASSUME UNCHANGED use, NEW w \in RegisterWrites, Clock(w) PROVE LinkInStep' /\ ScanInStep'
  <2>1. LinkInStep'
    BY <1>1, LinkShellClock, LinkCommonClock DEF Clock
  <2>2. ShellStep(w, CommandReady, Arriving) /\ TrackShell(w)
    BY <1>1 DEF Clock, ShellClock, CommonClock
  <2>3. ScanInStep'
    BY <2>2, ScanClock
  <2> QED BY <2>1, <2>3
<1>2. CASE CoreClock /\ UNCHANGED use
  <2>1. ScanInStep'
    BY <1>2 DEF CoreClock, ScanInStep, ScanIsCurrent
  <2> QED BY <1>2, <2>1, LinkCoreClock
<1>3. CASE TargetReset /\ UNCHANGED use
  <2>1. use.resets # {} /\ core' = CoreReset /\ UNCHANGED <<use, shell, command, response, number, sampled>>
    BY <1>3 DEF TargetReset, crossing, history
  <2>2. ~CoreBusy'
    BY <2>1 DEF CoreBusy, CoreReset
  <2>3. LinkInStep'
    BY <2>1, <2>2 DEF LinkInStep, Outstanding, Current
  <2> QED BY <2>1, <2>3 DEF ScanInStep, ScanIsCurrent
<1>4. CASE UNCHANGED <<use, shell, core, command, response, history>>
  BY <1>4 DEF history, LinkInStep, ScanInStep, ScanIsCurrent, Outstanding, CoreBusy, Current
<1> QED BY <1>1, <1>2, <1>3, <1>4, NextSteps DEF HostReset

(* With nobody programming the scanner, it stays off.                      *)
LEMMA NextNeverScans ==
  ASSUME Types, [Next]_explorerVars, use.scan_writes = {}, NeverScans
  PROVE  NeverScans'
<1>0. shell \in Registers
  BY DEF Types
<1>1. ASSUME NEW w \in RegisterWrites, Clock(w), w.reg \in {"none", "COMMAND", "CONFIG"}
      PROVE  NeverScans'
  <2>1. ShellStep(w, CommandReady, Arriving) /\ Arriving \in {Nothing} \union Answers
    BY <1>1, ArrivingFacts DEF Clock, ShellClock, CommonClock
  <2> PICK t \in Registers :
        /\ shell' = Write(t, w) /\ ConfigOf(t) = ConfigOf(shell) /\ Moves(t, CommandReady, Arriving)
    BY <1>0, <2>1, EngineStep
  <2>2. AccessOf(shell') = AccessOf(t) /\ shell'.slot_enable = t.slot_enable /\ ScanOf(shell') = ScanOf(t)
    <3>1. Write(t, w) = shell' /\ t \in Registers /\ w \in RegisterWrites
          /\ w.reg \in {"none", "COMMAND", "CONFIG"}
      BY <1>1
    <3> QED BY <3>1, HostWriteFacts
  <2>3. t.slot_enable = shell.slot_enable
    BY DEF ConfigOf
  <2>4. t.scan_valid \union t.scan_error = {}
    BY <1>0, FlagMoves DEF NeverScans
  <2>5. ~t.scan_op
    BY DEF NeverScans, Moves, Rests, Takes, StartsScan, Refuses, Waits, Drains, Issues, GivesUp,
           Ends, Scanned, Merges, Completes, Keeps, AccessOf
  <2> QED BY <2>2, <2>3, <2>4, <2>5 DEF NeverScans, AccessOf, ScanOf
<1>2. CASE HostReset
  <2>1. use \in Uses
    BY DEF Types
  <2> QED BY <1>2, <2>1, ShellInitFacts DEF HostReset, NeverScans
<1>3. ASSUME UNCHANGED shell PROVE NeverScans'
  BY <1>3 DEF NeverScans
<1> QED BY <1>1, <1>2, <1>3, NextSteps DEF CoreClock, TargetReset

(* What the engine does to a command: pending until it is taken, served    *)
(* with the parameters it was taken with, and busy until then.             *)
TaskMove(t) ==
  /\ t.pending <=> shell.pending /\ shell.state # "IDLE"
  /\ t.pending => t.pending_op = shell.pending_op
  /\ t.busy => shell.busy
  /\ t.state # "IDLE" /\ ~t.scan_op =>
       /\ t.busy <=> shell.busy
       /\ \/ /\ Taking /\ t.address_issue = shell.address /\ t.wdata_issue = shell.wdata
             /\ t.rmw => shell.pending_op = "masked"
          \/ /\ Serving /\ ~Taking /\ t.address_issue = shell.address_issue
             /\ t.rmw => shell.rmw
             /\ t.wdata_issue = shell.wdata_issue \/ shell.rmw
  /\ t.pending /\ ~Serving => (t.busy <=> shell.busy) /\ (t.state = "IDLE" \/ t.scan_op)

LEMMA TaskMoves ==
  ASSUME shell \in Registers, NEW t \in Registers, NEW ready, NEW r, Moves(t, ready, r)
  PROVE  TaskMove(t)
<1>1. ASSUME Rests(t, r) PROVE TaskMove(t)
  BY <1>1 DEF Rests, PendingOf, StatusOf, TaskMove
<1>2. ASSUME Takes(t, r) PROVE TaskMove(t)
  BY <1>2 DEF Takes, Starts, AccessOf, StatusOf, Taking, TaskMove
<1>3. ASSUME StartsScan(t, r) PROVE TaskMove(t)
  BY <1>3 DEF StartsScan, Starts, AccessOf, StatusOf, TaskMove
<1>4. ASSUME Refuses(t, r) PROVE TaskMove(t)
  BY <1>4 DEF Refuses, StatusOf, TaskMove
<1>5. ASSUME Waits(t, ready, r) \/ Drains(t, r) \/ Issues(t, ready) PROVE TaskMove(t)
  <2>1. /\ AccessOf(t) = AccessOf(shell) /\ PendingOf(t) = PendingOf(shell)
        /\ StatusOf(t) = StatusOf(shell) /\ shell.state # "IDLE" /\ t.state # "IDLE"
    BY <1>5 DEF Waits, Drains, Issues, Keeps, LinkOf
  <2> QED BY <2>1 DEF AccessOf, PendingOf, StatusOf, Serving, Taking, TaskMove
<1>6. ASSUME GivesUp(t, ready, r) PROVE TaskMove(t)
  <2>1. Ends(t, "TIMEOUT") /\ shell.state # "IDLE" /\ t.state = "IDLE"
    BY <1>6 DEF GivesUp, LinkOf
  <2> QED BY <2>1 DEF Ends, AccessOf, PendingOf, StatusOf, Serving, TaskMove
<1>7. ASSUME Scanned(t, r) PROVE TaskMove(t)
  BY <1>7 DEF Scanned, Receives, LinkOf, AccessOf, PendingOf, StatusOf, TaskMove
<1>8. ASSUME Merges(t, r) PROVE TaskMove(t)
  BY <1>8 DEF Merges, Receives, LinkOf, AccessOf, PendingOf, StatusOf, Serving, Taking, TaskMove
<1>9. ASSUME Completes(t, r) PROVE TaskMove(t)
  BY <1>9 DEF Completes, Receives, LinkOf, PendingOf, StatusOf, Serving, TaskMove
<1> QED BY <1>1, <1>2, <1>3, <1>4, <1>5, <1>6, <1>7, <1>8, <1>9 DEF Moves

(* The same with the register write, and what the history keeps of it.     *)
LEMMA TaskClock ==
  ASSUME Types, NEW w \in RegisterWrites, Clock(w)
  PROVE  /\ fired' = IF w.reg = "COMMAND"
                     THEN [op |-> w.value, address |-> shell.address,
                           wdata |-> shell.wdata, wmask |-> shell.wmask]
                     ELSE fired
         /\ served' = IF Taking THEN fired ELSE served
         /\ \E t \in Registers :
              /\ TaskMove(t)
              /\ shell'.state = t.state /\ AccessOf(shell') = AccessOf(t)
              /\ IF w.reg = "COMMAND"
                 THEN shell'.pending /\ shell'.pending_op = w.value /\ shell'.busy
                 ELSE /\ shell'.pending = t.pending /\ shell'.pending_op = t.pending_op
                      /\ shell'.busy = t.busy
              /\ IF w.reg = "CONFIG"
                 THEN /\ shell'.address = w.value.address /\ shell'.wdata = w.value.wdata
                      /\ shell'.wmask = w.value.wmask
                 ELSE /\ shell'.address = shell.address /\ shell'.wdata = shell.wdata
                      /\ shell'.wmask = shell.wmask
<1>0. shell \in Registers /\ TrackShell(w) /\ ShellStep(w, CommandReady, Arriving)
      /\ Arriving \in {Nothing} \union Answers
  BY ArrivingFacts DEF Types, Clock, ShellClock, CommonClock
<1> PICK t \in Registers :
      /\ shell' = Write(t, w) /\ ConfigOf(t) = ConfigOf(shell)
      /\ Moves(t, CommandReady, Arriving)
  BY <1>0, EngineStep
<1>1. TaskMove(t)
  BY <1>0, TaskMoves
<1>2. /\ LinkOf(shell') = LinkOf(t) /\ AccessOf(shell') = AccessOf(t)
      /\ IF w.reg = "COMMAND"
         THEN PendingOf(shell') = <<TRUE, w.value>> /\ shell'.busy
         ELSE PendingOf(shell') = PendingOf(t) /\ StatusOf(shell') = StatusOf(t)
      /\ IF w.reg = "CONFIG"
         THEN /\ shell'.address = w.value.address /\ shell'.wdata = w.value.wdata
              /\ shell'.wmask = w.value.wmask
         ELSE /\ shell'.address = t.address /\ shell'.wdata = t.wdata
              /\ shell'.wmask = t.wmask
  BY ZenonT(60), WriteFacts
<1>3. t.address = shell.address /\ t.wdata = shell.wdata /\ t.wmask = shell.wmask
  BY DEF ConfigOf
<1>4. shell'.state = t.state
  BY <1>2 DEF LinkOf
<1>5. IF w.reg = "COMMAND"
      THEN shell'.pending /\ shell'.pending_op = w.value /\ shell'.busy
      ELSE /\ shell'.pending = t.pending /\ shell'.pending_op = t.pending_op
           /\ shell'.busy = t.busy
  BY <1>2 DEF PendingOf, StatusOf
<1>6. /\ fired' = IF w.reg = "COMMAND"
                  THEN [op |-> w.value, address |-> shell.address,
                        wdata |-> shell.wdata, wmask |-> shell.wmask]
                  ELSE fired
      /\ served' = IF Taking THEN fired ELSE served
  BY <1>0 DEF TrackShell
<1> QED BY <1>1, <1>2, <1>3, <1>4, <1>5, <1>6
----------------------------------------------------------------------------
(* The commands of one task.                                               *)

(* A clock that neither stages nor fires.                                  *)
LEMMA QuietClock ==
  ASSUME Types, TaskInStep, NEW w \in RegisterWrites, Clock(w),
         w.reg \notin {"COMMAND", "CONFIG"}, UNCHANGED hostVars
  PROVE  TaskInStep'
<1> PICK t \in Registers :
      /\ TaskMove(t)
      /\ shell'.state = t.state /\ AccessOf(shell') = AccessOf(t)
      /\ shell'.pending = t.pending /\ shell'.pending_op = t.pending_op /\ shell'.busy = t.busy
      /\ shell'.address = shell.address /\ shell'.wdata = shell.wdata /\ shell'.wmask = shell.wmask
  BY TaskClock
<1>1. fired' = fired /\ served' = IF Taking THEN fired ELSE served
  BY TaskClock
<1>2. pc' = pc /\ ask' = ask
  BY DEF hostVars
<1>3. /\ shell'.scan_op = t.scan_op /\ shell'.address_issue = t.address_issue
      /\ shell'.rmw = t.rmw /\ shell'.wdata_issue = t.wdata_issue
  BY DEF AccessOf
<1>4. /\ shell.busy => \E h \in Hosts : pc[h] = "polling"
      /\ shell.pending => /\ shell.busy /\ ~Serving /\ shell.pending_op = fired.op
                          /\ shell.address = fired.address
                          /\ shell.wdata = fired.wdata /\ shell.wmask = fired.wmask
      /\ Serving => /\ shell.busy /\ shell.address_issue = served.address
                    /\ (shell.rmw => served.op = "masked")
                    /\ (served.op = "write" => shell.wdata_issue = served.wdata)
  BY DEF TaskInStep
<1>5. ASSUME NEW h \in Hosts, pc'[h] = "staged"
      PROVE  [op |-> ask'[h].op, address |-> shell'.address,
              wdata |-> shell'.wdata, wmask |-> shell'.wmask] = ask'[h]
  BY <1>2, <1>5 DEF TaskInStep
<1>6. ASSUME NEW h \in Hosts, pc'[h] = "polling"
      PROVE  fired' = ask'[h] /\ (shell'.pending \/ served' = ask'[h])
  <2>1. fired = ask[h] /\ (shell.pending \/ served = ask[h])
    BY <1>2, <1>6 DEF TaskInStep
  <2> QED BY <1>1, <1>2, <2>1 DEF TaskMove, Taking
<1>7. shell'.busy => \E h \in Hosts : pc'[h] = "polling"
  BY <1>2, <1>4 DEF TaskMove
<1>8. shell'.pending => /\ shell'.busy /\ ~Serving' /\ shell'.pending_op = fired'.op
                        /\ shell'.address = fired'.address
                        /\ shell'.wdata = fired'.wdata /\ shell'.wmask = fired'.wmask
  BY <1>1, <1>3, <1>4 DEF TaskMove, Serving
<1>9. Serving' => /\ shell'.busy /\ shell'.address_issue = served'.address
                  /\ (shell'.rmw => served'.op = "masked")
                  /\ (served'.op = "write" => shell'.wdata_issue = served'.wdata)
  BY <1>1, <1>3, <1>4 DEF TaskMove, Serving, Taking
<1> QED BY <1>5, <1>6, <1>7, <1>8, <1>9 DEF TaskInStep

(* Staging and firing find the engine at rest.                             *)
LEMMA StageClock ==
  ASSUME Types, TaskInStep, OneTask, NEW h \in Hosts, Stage(h)
  PROVE  TaskInStep'
<1> PICK q \in use.requests :
      Clock([reg |-> "CONFIG", value |-> q]) /\ ask' = [ask EXCEPT ![h] = q]
  BY DEF Stage
<1> DEFINE w == [reg |-> "CONFIG", value |-> q]
<1>1. q \in Requests /\ w \in RegisterWrites
  BY HostWrites
<1>2. ~shell.busy /\ ~shell.pending /\ ~Serving
  BY DEF Stage, OneTask, TaskInStep
<1>3. Clock(w) /\ w.reg = "CONFIG" /\ w.value = q
  OBVIOUS
<1> HIDE DEF w
<1> PICK t \in Registers :
      /\ TaskMove(t)
      /\ shell'.state = t.state /\ AccessOf(shell') = AccessOf(t)
      /\ shell'.pending = t.pending /\ shell'.busy = t.busy
      /\ shell'.address = q.address /\ shell'.wdata = q.wdata /\ shell'.wmask = q.wmask
  BY <1>1, <1>3, TaskClock
<1>4. ~shell'.busy /\ ~shell'.pending /\ ~Serving'
  BY <1>2 DEF TaskMove, AccessOf, Serving, Taking
<1>5. ask'[h] = q /\ pc'[h] = "staged"
  BY DEF Stage, Types
<1>6. [op |-> q.op, address |-> q.address, wdata |-> q.wdata, wmask |-> q.wmask] = q
  BY <1>1 DEF Requests
<1>7. \A g \in Hosts : g = h
  BY DEF OneTask
<1> QED BY <1>4, <1>5, <1>6, <1>7 DEF TaskInStep

LEMMA FireClock ==
  ASSUME Types, TaskInStep, OneTask, NEW h \in Hosts, FireCommand(h)
  PROVE  TaskInStep'
<1> DEFINE w == [reg |-> "COMMAND", value |-> ask[h].op]
<1>1. w \in RegisterWrites /\ Clock(w) /\ w.reg = "COMMAND" /\ w.value = ask[h].op
  BY HostWrites DEF FireCommand
<1>2. ~shell.busy /\ ~shell.pending /\ ~Serving
  BY DEF FireCommand, OneTask, TaskInStep
<1>3. [op |-> ask[h].op, address |-> shell.address,
       wdata |-> shell.wdata, wmask |-> shell.wmask] = ask[h]
  BY DEF FireCommand, TaskInStep
<1> HIDE DEF w
<1> PICK t \in Registers :
      /\ TaskMove(t)
      /\ shell'.state = t.state /\ AccessOf(shell') = AccessOf(t)
      /\ shell'.pending /\ shell'.pending_op = ask[h].op /\ shell'.busy
      /\ shell'.address = shell.address /\ shell'.wdata = shell.wdata /\ shell'.wmask = shell.wmask
  BY <1>1, TaskClock
<1>4. fired' = ask[h]
  BY <1>1, <1>3, TaskClock
<1>5. ~Serving'
  BY <1>2 DEF TaskMove, AccessOf, Serving, Taking
<1>6. ask' = ask /\ pc'[h] = "polling"
  BY DEF FireCommand, Types
<1>7. \A g \in Hosts : g = h
  BY DEF OneTask
<1>8. ask[h].address = shell.address /\ ask[h].wdata = shell.wdata /\ ask[h].wmask = shell.wmask
  BY <1>3
<1> QED BY <1>4, <1>5, <1>6, <1>7, <1>8 DEF TaskInStep

LEMMA NextTask ==
  ASSUME Types, [Next]_explorerVars, OneTask, TaskInStep
  PROVE  TaskInStep'
<1>1. CASE Run
  <2>1. NoWrite \in RegisterWrites /\ NoWrite.reg \notin {"COMMAND", "CONFIG"}
    BY HostWrites DEF NoWrite
  <2> QED BY <1>1, <2>1, QuietClock DEF Run
<1>2. CASE Program
  <2>1. PICK w \in use.scan_writes : Clock(w) /\ UNCHANGED hostVars
    BY <1>2 DEF Program
  <2>2. w \in RegisterWrites /\ w.reg \notin {"COMMAND", "CONFIG"}
    BY UsesAssumption, HostWrites DEF Types, ScanWrites
  <2> QED BY <2>1, <2>2, QuietClock
<1>3. ASSUME NEW h \in Hosts, Poll(h) PROVE TaskInStep'
  <2>1. ~shell.busy /\ ~shell.pending /\ ~Serving
    BY <1>3 DEF Poll, Completion, TaskInStep
  <2>2. /\ UNCHANGED <<shell, ask, fired, served>> /\ pc'[h] = "idle"
        /\ \A g \in Hosts : g = h
    BY <1>3 DEF Poll, history, OneTask, Types
  <2> QED BY <2>1, <2>2 DEF TaskInStep, Serving
<1>4. CASE HostReset
  <2>1. /\ shell'.state = "IDLE" /\ ~shell'.pending /\ ~shell'.busy
        /\ \A h \in Hosts : pc'[h] = "idle"
    BY <1>4, ShellInitFacts DEF HostReset, Types
  <2> QED BY <2>1 DEF TaskInStep, Serving
<1>5. ASSUME UNCHANGED <<shell, pc, ask, fired, served>> PROVE TaskInStep'
  BY <1>5 DEF TaskInStep, Serving
<1> QED BY <1>1, <1>2, <1>3, <1>4, <1>5, StageClock, FireClock
        DEF Next, CoreClock, TargetReset, explorerVars, hostVars, history
----------------------------------------------------------------------------
(* What is done for a command.                                             *)

(* An access waited for is the one that was issued.                        *)
LEMMA WaitKeeps ==
  ASSUME shell \in Registers, NEW w \in RegisterWrites, NEW ready,
         NEW r \in {Nothing} \union Answers, ShellStep(w, ready, r), shell'.state = "WAIT"
  PROVE  AccessOf(shell') = AccessOf(shell)
<1> PICK t \in Registers : shell' = Write(t, w) /\ Moves(t, ready, r)
  BY EngineStep
<1>1. LinkOf(shell') = LinkOf(t) /\ AccessOf(shell') = AccessOf(t)
  BY ZenonT(60), WriteFacts
<1>2. t.state = "WAIT"
  BY <1>1 DEF LinkOf
<1>3. AccessOf(t) = AccessOf(shell)
  BY <1>2 DEF Moves, Rests, Takes, StartsScan, Starts, Refuses, Waits, Drains, Issues, GivesUp,
              Scanned, Merges, Completes, Keeps, LinkOf
<1> QED BY <1>1, <1>3

LEMMA NumbersShellClock ==
  ASSUME Types, LinkInStep, NumbersInStep, NEW w \in RegisterWrites, ShellClock(w), UNCHANGED use
  PROVE  NumbersInStep'
<1>1. /\ use.crossed /\ response' = Nothing /\ core' = core
      /\ command' = IF shell.state = "ISSUE" /\ CommandReady THEN CommandOffered ELSE command
      /\ number' = IF shell.state = "WAIT" /\ shell'.state # "WAIT" THEN (number + 1) % 3 ELSE number
      /\ CommandReady <=> command = Nothing
  BY DEF ShellClock, TrackShell, CommandReady
<1>2. Arriving = response /\ response \in {Nothing} \union Answers /\ shell \in Registers
  BY <1>1, ArrivingFacts DEF Types
<1>3. LinkMove(CommandReady, response)
  BY <1>2, LinkMoves DEF ShellClock
<1>4. CommandOffered # Nothing /\ CommandOffered.write = shell.write_issue
      /\ CommandOffered.wdata = shell.wdata_issue
  BY OfferedFacts
<1>5. CoreBusy' <=> CoreBusy
  BY <1>1 DEF CoreBusy
<1>6. number \in 0..2 /\ (number + 1) % 3 # number
  BY DEF Types
<1>7. shell.state \in {"IDLE", "DRAIN", "ISSUE", "WAIT"}
  BY <1>2 DEF Registers
<1>8. ASSUME shell'.state = "WAIT"
      PROVE  shell'.write_issue = shell.write_issue /\ shell'.wdata_issue = shell.wdata_issue
  BY <1>2, <1>8, WaitKeeps DEF ShellClock, AccessOf
<1>9. CASE shell.state = "WAIT" /\ shell'.state # "WAIT"
  BY <1>1, <1>5, <1>6, <1>9 DEF LinkInStep, Current, NumbersInStep
<1>10. CASE shell.state = "WAIT" /\ shell'.state = "WAIT"
  BY <1>1, <1>5, <1>8, <1>10 DEF NumbersInStep, IsIssued
<1>11. CASE shell.state = "ISSUE" /\ shell'.state = "WAIT"
  <2>1. ~CoreBusy /\ command = Nothing
    BY <1>11 DEF LinkInStep, Outstanding
  <2> QED BY <1>1, <1>4, <1>5, <1>8, <1>11, <2>1 DEF NumbersInStep, IsIssued
<1>12. CASE shell.state # "WAIT" /\ shell'.state # "WAIT"
  BY <1>1, <1>3, <1>5, <1>12 DEF NumbersInStep, LinkMove
<1>13. shell'.state = "WAIT" => shell.state \in {"ISSUE", "WAIT"}
  BY <1>3, <1>7 DEF LinkMove
<1> QED BY <1>9, <1>10, <1>11, <1>12, <1>13

LEMMA NumbersCoreClock ==
  ASSUME Types, NumbersInStep, CoreClock, UNCHANGED use
  PROVE  NumbersInStep'
<1> PICK target \in TargetAnswers :
      CoreStep(command # Nothing, command, response = Nothing, target)
  BY DEF CoreClock
<1>1. /\ command' = IF core.state = "IDLE" THEN Nothing ELSE command
      /\ shell' = shell /\ number' = number
  BY DEF CoreClock
<1>2. command # Nothing => command \in Commands
  BY DEF Types
<1>3. /\ core.state = "RESET" => core'.state = "IDLE"
      /\ core.state = "IDLE" /\ command = Nothing => core'.state = "IDLE"
      /\ core.state = "IDLE" /\ command # Nothing => core'.state = "SETUP" /\ core'.command = command
      /\ core.state = "SETUP" => core'.state = "ACCESS" /\ core'.command = core.command
      /\ core.state = "ACCESS" => core'.state \in {"ACCESS", "RESPOND"} /\ core'.command = core.command
      /\ core.state = "RESPOND" =>
           IF response = Nothing THEN core'.state = "IDLE" ELSE core' = core
  BY <1>2, CoreFacts
<1>4. core.state \in {"RESET", "IDLE", "SETUP", "ACCESS", "RESPOND"}
  BY DEF Types, CoreReset, CoreIdle, Accesses
<1>5. CoreBusy' => \/ CoreBusy /\ core'.command = core.command
                   \/ command # Nothing /\ core'.command = command
  BY <1>3, <1>4 DEF CoreBusy
<1> QED BY <1>1, <1>5 DEF NumbersInStep, IsIssued

LEMMA NumbersCommonClock ==
  ASSUME Types, LinkInStep, NumbersInStep, NEW w \in RegisterWrites, CommonClock(w), UNCHANGED use
  PROVE  NumbersInStep'
<1> PICK target \in TargetAnswers :
      CoreStep(shell.state = "ISSUE", CommandOffered, TRUE, target)
  BY DEF CommonClock
<1> DEFINE r == Arriving
<1>1. /\ ~use.crossed /\ command' = Nothing
      /\ number' = IF shell.state = "WAIT" /\ shell'.state # "WAIT" THEN (number + 1) % 3 ELSE number
      /\ CommandReady <=> core.state = "IDLE"
  BY DEF CommonClock, TrackShell, CommandReady, crossing, Types
<1>2. r \in {Nothing} \union Answers /\ shell \in Registers
  BY ArrivingFacts DEF Types
<1>3. LinkMove(CommandReady, r)
  BY <1>2, LinkMoves DEF CommonClock
<1>4. ASSUME shell'.state = "WAIT"
      PROVE  shell'.write_issue = shell.write_issue /\ shell'.wdata_issue = shell.wdata_issue
  BY <1>2, <1>4, WaitKeeps DEF CommonClock, AccessOf
<1> HIDE DEF r
<1>5. /\ CommandOffered \in Commands
      /\ CommandOffered.write = shell.write_issue /\ CommandOffered.wdata = shell.wdata_issue
  BY OfferedFacts
<1>6. /\ core.state = "RESET" => core'.state = "IDLE"
      /\ core.state = "IDLE" /\ shell.state # "ISSUE" => core'.state = "IDLE"
      /\ core.state = "IDLE" /\ shell.state = "ISSUE" =>
           core'.state = "SETUP" /\ core'.command = CommandOffered
      /\ core.state = "SETUP" => core'.state = "ACCESS" /\ core'.command = core.command
      /\ core.state = "ACCESS" => core'.state \in {"ACCESS", "RESPOND"} /\ core'.command = core.command
      /\ core.state = "RESPOND" => core'.state = "IDLE"
  BY <1>5, CoreFacts
<1>7. /\ core.state \in {"RESET", "IDLE", "SETUP", "ACCESS", "RESPOND"}
      /\ shell.state \in {"IDLE", "DRAIN", "ISSUE", "WAIT"}
  BY DEF Types, CoreReset, CoreIdle, Accesses, Registers
<1>8. CoreBusy' => \/ CoreBusy /\ core'.command = core.command
                   \/ core.state = "IDLE" /\ shell.state = "ISSUE" /\ core'.command = CommandOffered
  BY <1>6, <1>7 DEF CoreBusy
<1>9. number \in 0..2 /\ (number + 1) % 3 # number
  BY DEF Types
<1>10. CASE shell'.state = "WAIT"
  <2>1. shell.state \in {"ISSUE", "WAIT"}
    BY <1>3, <1>7, <1>10 DEF LinkMove
  <2>2. shell.state = "ISSUE" => ~CoreBusy
    BY DEF LinkInStep, Outstanding
  <2> QED BY <1>1, <1>4, <1>5, <1>8, <1>10, <2>1, <2>2 DEF NumbersInStep, IsIssued
<1>11. CASE shell'.state # "WAIT"
  <2>1. ~(core.state = "IDLE" /\ shell.state = "ISSUE")
    BY <1>1, <1>3, <1>11 DEF LinkMove
  <2> QED BY <1>1, <1>8, <1>9, <1>11, <2>1 DEF NumbersInStep, LinkInStep, Current
<1> QED BY <1>10, <1>11

(* The moves that leave the engine in the service of a command.            *)
LEMMA ServingMoves ==
  ASSUME shell \in Registers, NEW t \in Registers, NEW ready, NEW r, Moves(t, ready, r),
         t.state # "IDLE", ~t.scan_op
  PROVE  \/ Takes(t, r) \/ Merges(t, r)
         \/ /\ Serving /\ Keeps(t)
            /\ Waits(t, ready, r) \/ Drains(t, r) \/ Issues(t, ready)
<1>1. ASSUME StartsScan(t, r) PROVE FALSE
  BY <1>1 DEF StartsScan, AccessOf
<1>2. ~Rests(t, r) /\ ~Refuses(t, r) /\ ~GivesUp(t, ready, r) /\ ~Scanned(t, r) /\ ~Completes(t, r)
  BY DEF Rests, Refuses, GivesUp, Scanned, Completes, LinkOf
<1>3. ASSUME Waits(t, ready, r) \/ Drains(t, r) \/ Issues(t, ready)
      PROVE  Serving /\ Keeps(t)
  <2>1. Keeps(t) /\ shell.state # "IDLE"
    BY <1>3 DEF Waits, Drains, Issues
  <2> QED BY <2>1 DEF Keeps, AccessOf, Serving
<1> QED BY <1>1, <1>2, <1>3 DEF Moves

(* A clock while a command is busy: its configuration stays.               *)
LEMMA BusyClock ==
  ASSUME Types, NEW w \in RegisterWrites, Clock(w), w.reg \notin {"COMMAND", "CONFIG"}
  PROVE  /\ fired' = fired /\ served' = IF Taking THEN fired ELSE served
         /\ \E t \in Registers :
              /\ Moves(t, CommandReady, Arriving)
              /\ shell'.state = t.state /\ AccessOf(shell') = AccessOf(t)
              /\ PendingOf(shell') = PendingOf(t) /\ StatusOf(shell') = StatusOf(t)
              /\ shell'.address = shell.address /\ shell'.wdata = shell.wdata
              /\ shell'.wmask = shell.wmask
<1>0. shell \in Registers /\ TrackShell(w) /\ ShellStep(w, CommandReady, Arriving)
      /\ Arriving \in {Nothing} \union Answers
  BY ArrivingFacts DEF Types, Clock, ShellClock, CommonClock
<1> PICK t \in Registers :
      /\ shell' = Write(t, w) /\ ConfigOf(t) = ConfigOf(shell)
      /\ Moves(t, CommandReady, Arriving)
  BY <1>0, EngineStep
<1>2. /\ LinkOf(shell') = LinkOf(t) /\ AccessOf(shell') = AccessOf(t)
      /\ PendingOf(shell') = PendingOf(t) /\ StatusOf(shell') = StatusOf(t)
      /\ shell'.address = t.address /\ shell'.wdata = t.wdata /\ shell'.wmask = t.wmask
  BY ZenonT(60), WriteFacts
<1>3. t.address = shell.address /\ t.wdata = shell.wdata /\ t.wmask = shell.wmask
  BY DEF ConfigOf
<1>4. shell'.state = t.state
  BY <1>2 DEF LinkOf
<1>5. fired' = fired /\ served' = IF Taking THEN fired ELSE served
  BY <1>0 DEF TrackShell
<1> QED BY <1>2, <1>3, <1>4, <1>5

(* A masked write that has its read goes on with the merged word.          *)
LEMMA OperationClock ==
  ASSUME Types, TaskInStep, Serving => OperationInStep,
         NEW w \in RegisterWrites, Clock(w), w.reg \notin {"COMMAND", "CONFIG"}, Serving'
  PROVE  OperationInStep'
<1> PICK t \in Registers :
      /\ Moves(t, CommandReady, Arriving)
      /\ shell'.state = t.state /\ AccessOf(shell') = AccessOf(t)
      /\ PendingOf(shell') = PendingOf(t) /\ StatusOf(shell') = StatusOf(t)
      /\ shell'.wdata = shell.wdata /\ shell'.wmask = shell.wmask
  BY BusyClock
<1>1. /\ fired' = fired /\ served' = IF Taking THEN fired ELSE served
      /\ shell \in Registers
  BY BusyClock DEF Types
<1>2. /\ shell'.rmw = t.rmw /\ shell'.scan_op = t.scan_op /\ shell'.write_issue = t.write_issue
      /\ shell'.wdata_issue = t.wdata_issue /\ shell'.rdata = t.rdata
  BY DEF AccessOf, StatusOf
<1>3. \/ Takes(t, Arriving) \/ Merges(t, Arriving)
      \/ Serving /\ Keeps(t)
  BY <1>1, <1>2, ServingMoves DEF Serving
<1>4. ASSUME Takes(t, Arriving) PROVE OperationInStep'
  <2>1. /\ Taking /\ shell.pending_op # "reserved"
        /\ t.rmw = (shell.pending_op = "masked") /\ t.write_issue = (shell.pending_op = "write")
    BY <1>4 DEF Takes, Starts, Taking, AccessOf
  <2>2. /\ shell.pending_op = fired.op /\ shell.wdata = fired.wdata /\ shell.wmask = fired.wmask
    BY <2>1 DEF TaskInStep, Taking
  <2> QED BY <1>1, <1>2, <2>1, <2>2 DEF OperationInStep
<1>5. ASSUME Merges(t, Arriving) PROVE OperationInStep'
  <2>1. /\ Serving /\ ~Taking /\ shell.rmw /\ t.rmw = FALSE /\ t.write_issue = TRUE
        /\ t.wdata_issue = Merge(t.rdata, shell.wdata, shell.wmask)
    BY <1>5 DEF Merges, Receives, AccessOf, StatusOf, Serving, Taking
  <2> QED BY <1>1, <1>2, <2>1 DEF OperationInStep
<1>6. ASSUME Serving, Keeps(t) PROVE OperationInStep'
  <2>1. ~Taking /\ t.rmw = shell.rmw /\ t.write_issue = shell.write_issue
        /\ t.wdata_issue = shell.wdata_issue /\ t.rdata = shell.rdata
    BY <1>6 DEF Keeps, AccessOf, StatusOf, Serving, Taking
  <2> QED BY <1>1, <1>2, <1>6, <2>1 DEF OperationInStep
<1> QED BY <1>3, <1>4, <1>5, <1>6

(* Nothing is served to a host that fired nothing.                         *)
LEMMA RestingClock ==
  ASSUME Types, TaskInStep, NEW w \in RegisterWrites, Clock(w), ~shell.busy
  PROVE  ~Serving'
<1> PICK t \in Registers :
      TaskMove(t) /\ shell'.state = t.state /\ AccessOf(shell') = AccessOf(t)
  BY TaskClock
<1> QED BY DEF TaskMove, TaskInStep, Taking, Serving, AccessOf

(* The target's part in the access in progress, and in no other.           *)
LEMMA PerformedFacts ==
  ASSUME Types, LinkInStep, TaskInStep, NumbersInStep, Serving,
         core.state = "ACCESS" => core'.command = core.command
  PROVE  Performed = IF shell.state = "WAIT" /\ core.state = "ACCESS" /\ core'.state = "RESPOND"
                     THEN <<MadeNow(core')>> ELSE <<>>
<1>1. CASE core.state = "ACCESS" /\ shell.state = "WAIT"
  <2>1. /\ core.command.number = number /\ core.command.address = shell.address_issue
        /\ core.command.write = shell.write_issue /\ core.command.wdata = shell.wdata_issue
    BY <1>1 DEF LinkInStep, CoreBusy, Current, NumbersInStep, IsIssued
  <2>2. shell.address_issue = served.address
    BY DEF TaskInStep
  <2> QED BY <1>1, <2>1, <2>2 DEF Performed, MadeNow
<1>2. CASE core.state = "ACCESS" /\ shell.state # "WAIT"
  BY <1>2 DEF NumbersInStep, CoreBusy, Performed
<1>3. CASE core.state # "ACCESS"
  BY <1>3 DEF Performed
<1> QED BY <1>1, <1>2, <1>3

(* One clock of the core, as the accesses see it.                          *)
LEMMA AccessesGrow ==
  ASSUME Types, LinkInStep, TaskInStep, ServiceInStep, Serving,
         core.state = "ACCESS" => core'.command = core.command
  PROVE  accesses \o Performed =
           IF shell.state = "WAIT" /\ core.state = "ACCESS" /\ core'.state = "RESPOND"
           THEN Append(Made, MadeNow(core')) ELSE accesses
<1>1. Performed = IF shell.state = "WAIT" /\ core.state = "ACCESS" /\ core'.state = "RESPOND"
                  THEN <<MadeNow(core')>> ELSE <<>>
  BY PerformedFacts DEF ServiceInStep
<1>2. AccessesInStep
  BY DEF ServiceInStep
<1>3. CASE shell.state = "WAIT" /\ core.state = "ACCESS" /\ core'.state = "RESPOND"
  <2>1. ~Answering
    BY <1>3 DEF Answering, LinkInStep, CoreBusy
  <2>2. accesses = Made /\ Performed = <<MadeNow(core')>>
    BY <1>1, <1>2, <1>3, <2>1 DEF AccessesInStep
  <2>3. Made = <<>> \/ \E m : Made = <<m>>
    BY DEF Made
  <2> QED BY <1>3, <2>2, <2>3
<1>4. CASE ~(shell.state = "WAIT" /\ core.state = "ACCESS" /\ core'.state = "RESPOND")
  <2>1. Performed = <<>>
    BY <1>1, <1>4
  <2>2. \E m, n : /\ Made = <<>> \/ Made = <<m>>
                  /\ accesses = Made \/ accesses = Append(Made, n)
    BY <1>2 DEF AccessesInStep, Made
  <2>3. PICK m, n : /\ Made = <<>> \/ Made = <<m>>
                    /\ accesses = Made \/ accesses = Append(Made, n)
    BY <2>2
  <2>4. Made \in Seq({m, n})
    <3>1. <<>> \in Seq({m, n}) /\ <<m>> \in Seq({m, n})
      OBVIOUS
    <3> QED BY <2>3, <3>1
  <2>5. accesses \in Seq({m, n})
    BY <2>3, <2>4, AppendProperties
  <2>6. accesses \o <<>> = accesses
    BY <2>5, ConcatEmptySeq
  <2> QED BY <1>4, <2>1, <2>6
<1> QED BY <1>3, <1>4

(* The move of the shell, as the accesses see it.                          *)
SameService ==
  /\ served' = served /\ shell'.rmw = shell.rmw /\ shell'.write_issue = shell.write_issue
  /\ shell'.wdata_issue = shell.wdata_issue /\ shell'.rdata = shell.rdata

LEMMA AccessesMove ==
  ASSUME Types, LinkInStep, TaskInStep, ServiceInStep,
         NEW w \in RegisterWrites, Clock(w), w.reg \notin {"COMMAND", "CONFIG"}, Serving'
  PROVE  \/ ~Serving /\ Made' = <<>> /\ shell'.state # "WAIT"
         \/ /\ Serving /\ shell.state = "WAIT" /\ shell'.state # "WAIT"
            /\ Answered(shell, Arriving)
            /\ Made = <<>> /\ Made' = <<MadeNow(Arriving)>>
         \/ /\ Serving /\ SameService
            /\ \/ shell.state \in {"DRAIN", "ISSUE"} /\ shell'.state # "WAIT"
               \/ shell.state = "ISSUE" /\ CommandReady
               \/ shell.state = "WAIT" /\ shell'.state = "WAIT" /\ ~Answered(shell, Arriving)
<1> DEFINE r == Arriving
<1> PICK t \in Registers :
      /\ Moves(t, CommandReady, r)
      /\ shell'.state = t.state /\ AccessOf(shell') = AccessOf(t)
      /\ PendingOf(shell') = PendingOf(t) /\ StatusOf(shell') = StatusOf(t)
  BY BusyClock
<1>1. served' = IF Taking THEN fired ELSE served
  BY BusyClock
<1>2. /\ shell'.rmw = t.rmw /\ shell'.scan_op = t.scan_op /\ shell'.write_issue = t.write_issue
      /\ shell'.wdata_issue = t.wdata_issue /\ shell'.rdata = t.rdata
  BY DEF AccessOf, StatusOf
<1>3. shell \in Registers
  BY DEF Types
<1>4. \/ Takes(t, r) \/ Merges(t, r)
      \/ /\ Serving /\ Keeps(t)
         /\ Waits(t, CommandReady, r) \/ Drains(t, r) \/ Issues(t, CommandReady)
  BY <1>2, <1>3, ServingMoves DEF Serving
<1> HIDE DEF r
<1>5. ASSUME Takes(t, r) PROVE ~Serving /\ Made' = <<>> /\ shell'.state # "WAIT"
  <2>1. /\ Taking /\ shell.state = "IDLE" /\ t.state \in {"DRAIN", "ISSUE"}
        /\ t.rmw = (shell.pending_op = "masked")
    BY <1>5 DEF Takes, Starts, Taking, AccessOf
  <2>2. shell.pending_op = fired.op
    BY <2>1 DEF TaskInStep, Taking
  <2> QED BY <1>1, <1>2, <2>1, <2>2 DEF Made, Serving
<1>6. ASSUME Merges(t, r)
      PROVE  /\ Serving /\ shell.state = "WAIT" /\ shell'.state # "WAIT"
             /\ Answered(shell, r) /\ Made = <<>> /\ Made' = <<MadeNow(r)>>
  <2>1. /\ Serving /\ ~Taking /\ shell.state = "WAIT" /\ t.state = "ISSUE" /\ Answered(shell, r)
        /\ shell.rmw /\ ~t.rmw /\ t.rdata = r.rdata /\ ~r.error
    BY <1>6 DEF Merges, Receives, LinkOf, AccessOf, StatusOf, Serving, Taking
  <2>2. served.op = "masked" /\ ~shell.write_issue
    BY <2>1 DEF ServiceInStep, OperationInStep
  <2>3. r \in Answers
    BY <2>1, ArrivingFacts DEF r, Answered
  <2>4. r.error = FALSE /\ shell.write_issue = FALSE
    BY <2>1, <2>2, <2>3, <1>3 DEF Answers, Registers
  <2> QED BY <1>1, <1>2, <2>1, <2>2, <2>4 DEF Made, MadeNow
<1>7. ASSUME Serving, Keeps(t), Waits(t, CommandReady, r) \/ Drains(t, r) \/ Issues(t, CommandReady)
      PROVE  /\ SameService
             /\ \/ shell.state \in {"DRAIN", "ISSUE"} /\ shell'.state # "WAIT"
                \/ shell.state = "ISSUE" /\ CommandReady
                \/ shell.state = "WAIT" /\ shell'.state = "WAIT" /\ ~Answered(shell, r)
  <2>1. SameService
    BY <1>1, <1>2, <1>7 DEF SameService, Keeps, AccessOf, StatusOf, Serving, Taking
  <2>2. \/ shell.state \in {"DRAIN", "ISSUE"} /\ t.state # "WAIT"
        \/ shell.state = "ISSUE" /\ CommandReady
        \/ shell.state = "WAIT" /\ t.state = "WAIT" /\ ~Answered(shell, r)
    BY <1>7 DEF Waits, Drains, Issues, LinkOf
  <2> QED BY <2>1, <2>2
<1> QED BY <1>4, <1>5, <1>6, <1>7 DEF r

LEMMA AccessesShellClock ==
  ASSUME Types, LinkInStep, TaskInStep, ServiceInStep,
         NEW w \in RegisterWrites, ShellClock(w), w.reg \notin {"COMMAND", "CONFIG"}, Serving'
  PROVE  AccessesInStep'
<1>1. /\ use.crossed /\ response' = Nothing /\ core' = core
      /\ accesses' = IF Serving THEN accesses ELSE <<>>
      /\ CommandReady <=> command = Nothing
  BY DEF ShellClock, CommandReady
<1>2. Arriving = response
  BY <1>1, ArrivingFacts
<1>3. Clock(w)
  BY DEF Clock
<1>4. CASE ~Serving /\ Made' = <<>> /\ shell'.state # "WAIT"
  BY <1>1, <1>4 DEF AccessesInStep, Answering
<1>5. CASE /\ Serving /\ shell.state = "WAIT" /\ shell'.state # "WAIT"
           /\ Answered(shell, Arriving)
           /\ Made = <<>> /\ Made' = <<MadeNow(Arriving)>>
  <2>1. response # Nothing /\ Answering
    BY <1>2, <1>5 DEF Answered, Answering
  <2>2. accesses = Append(<<>>, MadeNow(response))
    BY <1>5, <2>1 DEF ServiceInStep, AccessesInStep
  <2>3. accesses = <<MadeNow(response)>>
    BY <2>2
  <2> QED BY <1>1, <1>2, <1>5, <2>3 DEF AccessesInStep, Answering
<1>6. CASE /\ Serving /\ SameService
           /\ \/ shell.state \in {"DRAIN", "ISSUE"} /\ shell'.state # "WAIT"
              \/ shell.state = "ISSUE" /\ CommandReady
              \/ shell.state = "WAIT" /\ shell'.state = "WAIT" /\ ~Answered(shell, Arriving)
  <2>0. accesses' = accesses /\ Made' = Made /\ AccessesInStep
    BY <1>1, <1>6 DEF ServiceInStep, SameService, Made
  <2>1. CASE shell.state \in {"DRAIN", "ISSUE"} /\ shell'.state # "WAIT"
    BY <2>0, <2>1 DEF AccessesInStep, Answering
  <2>2. CASE shell.state = "ISSUE" /\ CommandReady
    <3>1. core.state # "RESPOND"
      BY <2>2 DEF LinkInStep, Outstanding, CoreBusy
    <3> QED BY <1>1, <2>0, <2>2, <3>1 DEF AccessesInStep, Answering
  <2>3. CASE shell.state = "WAIT" /\ shell'.state = "WAIT" /\ ~Answered(shell, Arriving)
    <3>1. response = Nothing
      BY <1>2, <2>3 DEF LinkInStep, Current, Answered
    <3>2. (MadeNow(core))' = MadeNow(core)
      BY <1>1, <1>6 DEF MadeNow, SameService
    <3> QED BY <1>1, <2>0, <2>3, <3>1, <3>2 DEF AccessesInStep, Answering
  <2> QED BY <1>6, <2>1, <2>2, <2>3
<1> QED BY <1>3, <1>4, <1>5, <1>6, AccessesMove

LEMMA AccessesCoreClock ==
  ASSUME Types, LinkInStep, TaskInStep, ServiceInStep, CoreClock, Serving
  PROVE  AccessesInStep' /\ OperationInStep'
<1> PICK target \in TargetAnswers :
      CoreStep(command # Nothing, command, response = Nothing, target)
  BY DEF CoreClock
<1>1. /\ UNCHANGED <<shell, served, fired>> /\ accesses' = accesses \o Performed
      /\ response' = IF core.state = "RESPOND" /\ response = Nothing THEN AnswerOffered ELSE response
  BY DEF CoreClock, CoreOffers
<1>2. command # Nothing => command \in Commands
  BY DEF Types
<1>3. /\ core.state = "RESET" => core'.state = "IDLE"
      /\ core.state = "IDLE" => core'.state \in {"IDLE", "SETUP"}
      /\ core.state = "SETUP" => core'.state = "ACCESS" /\ core'.command = core.command
      /\ core.state = "ACCESS" => core'.state \in {"ACCESS", "RESPOND"} /\ core'.command = core.command
      /\ core.state = "RESPOND" =>
           IF response = Nothing THEN core'.state = "IDLE" ELSE core' = core
  BY <1>2, CoreFacts
<1>4. core.state \in {"RESET", "IDLE", "SETUP", "ACCESS", "RESPOND"}
  BY DEF Types, CoreReset, CoreIdle, Accesses
<1>5. accesses' = IF shell.state = "WAIT" /\ core.state = "ACCESS" /\ core'.state = "RESPOND"
                  THEN Append(Made, MadeNow(core')) ELSE accesses
  BY <1>1, <1>3, AccessesGrow
<1>6. Made' = Made /\ (MadeNow(core))' = MadeNow(core') /\ (MadeNow(response))' = MadeNow(response')
  BY <1>1 DEF Made, MadeNow
<1>7. core.state = "RESPOND" /\ response = Nothing =>
        response' # Nothing /\ MadeNow(response') = MadeNow(core)
  <2>1. ASSUME core.state = "RESPOND", response = Nothing
        PROVE  AnswerOffered # Nothing /\ AnswerOffered.rdata = core.rdata /\ AnswerOffered.error = core.error
    <3>1. core \in Accesses
      BY <2>1 DEF Types, CoreReset, CoreIdle
    <3>2. AnswerOffered \in Answers
      BY <3>1 DEF Accesses, Commands, Answers, AnswerOffered, Response
    <3> QED BY <3>2, SomethingFacts DEF AnswerOffered, Response
  <2> QED BY <1>1, <2>1 DEF MadeNow
<1>8. AccessesInStep
  BY DEF ServiceInStep
<1>9. AccessesInStep'
  <2>1. CASE shell.state = "WAIT" /\ core.state = "ACCESS" /\ core'.state = "RESPOND"
    <3>1. response = Nothing /\ response' = Nothing
      BY <1>1, <2>1 DEF LinkInStep, CoreBusy
    <3> QED BY <1>1, <1>5, <1>6, <2>1, <3>1 DEF AccessesInStep, Answering
  <2>2. CASE core.state = "RESPOND" /\ response = Nothing
    <3>1. accesses' = accesses /\ response' # Nothing /\ shell'.state = shell.state
      BY <1>1, <1>5, <1>7, <2>2
    <3> QED BY <1>6, <1>7, <1>8, <2>2, <3>1 DEF AccessesInStep, Answering
  <2>3. CASE core.state = "RESPOND" /\ response # Nothing
    BY <2>3 DEF LinkInStep, CoreBusy
  <2>4. CASE core.state # "RESPOND" /\ ~(shell.state = "WAIT" /\ core.state = "ACCESS" /\ core'.state = "RESPOND")
    <3>1. accesses' = accesses /\ response' = response /\ shell'.state = shell.state
          /\ (shell.state = "WAIT" => core'.state # "RESPOND")
      BY <1>1, <1>3, <1>4, <1>5, <2>4
    <3> QED BY <1>6, <1>8, <2>4, <3>1 DEF AccessesInStep, Answering
  <2> QED BY <2>1, <2>2, <2>3, <2>4
<1>10. OperationInStep'
  BY <1>1 DEF ServiceInStep, OperationInStep
<1> QED BY <1>9, <1>10

LEMMA AccessesCommonClock ==
  ASSUME Types, LinkInStep, TaskInStep, ServiceInStep,
         NEW w \in RegisterWrites, CommonClock(w), w.reg \notin {"COMMAND", "CONFIG"}, Serving'
  PROVE  AccessesInStep'
<1> PICK target \in TargetAnswers :
      CoreStep(shell.state = "ISSUE", CommandOffered, TRUE, target)
  BY DEF CommonClock
<1>1. /\ ~use.crossed /\ response = Nothing /\ response' = Nothing
      /\ accesses' = IF Serving THEN accesses \o Performed ELSE <<>>
      /\ CommandReady <=> core.state = "IDLE"
  BY DEF CommonClock, CommandReady, crossing, Types
<1>2. /\ Arriving # Nothing <=> core.state = "RESPOND"
      /\ core.state = "RESPOND" =>
           /\ Arriving.tag = core.command.tag
           /\ Arriving.rdata = core.rdata /\ Arriving.error = core.error
  BY <1>1, ArrivingFacts
<1>3. CommandOffered \in Commands
  BY OfferedFacts
<1>4. /\ core.state = "IDLE" => core'.state \in {"IDLE", "SETUP"}
      /\ core.state = "SETUP" => core'.state = "ACCESS"
      /\ core.state = "ACCESS" => core'.state \in {"ACCESS", "RESPOND"} /\ core'.command = core.command
      /\ core.state \in {"RESET", "RESPOND"} => core'.state = "IDLE"
  BY <1>3, CoreFacts
<1>5. core.state \in {"RESET", "IDLE", "SETUP", "ACCESS", "RESPOND"}
  BY DEF Types, CoreReset, CoreIdle, Accesses
<1>6. Serving => accesses' = IF shell.state = "WAIT" /\ core.state = "ACCESS" /\ core'.state = "RESPOND"
                             THEN Append(Made, MadeNow(core')) ELSE accesses
  BY <1>1, <1>4, AccessesGrow
<1>7. Serving => AccessesInStep
  BY DEF ServiceInStep
<1>8. Clock(w)
  BY DEF Clock
<1>9. CASE ~Serving /\ Made' = <<>> /\ shell'.state # "WAIT"
  BY <1>1, <1>9 DEF AccessesInStep, Answering
<1>10. CASE /\ Serving /\ shell.state = "WAIT" /\ shell'.state # "WAIT"
            /\ Answered(shell, Arriving)
            /\ Made = <<>> /\ Made' = <<MadeNow(Arriving)>>
  <2>1. core.state = "RESPOND" /\ Answering
    BY <1>2, <1>10 DEF Answered, Answering
  <2>2. MadeNow(Arriving) = MadeNow(core)
    BY <1>2, <2>1 DEF MadeNow
  <2>3. accesses = Append(<<>>, MadeNow(core))
    BY <1>1, <1>7, <1>10, <2>1 DEF AccessesInStep
  <2>4. accesses = <<MadeNow(core)>>
    BY <2>3
  <2> QED BY <1>6, <1>10, <2>1, <2>2, <2>4 DEF AccessesInStep, Answering
<1>11. CASE /\ Serving /\ SameService
            /\ \/ shell.state \in {"DRAIN", "ISSUE"} /\ shell'.state # "WAIT"
               \/ shell.state = "ISSUE" /\ CommandReady
               \/ shell.state = "WAIT" /\ shell'.state = "WAIT" /\ ~Answered(shell, Arriving)
  <2>0. Made' = Made /\ (MadeNow(core))' = MadeNow(core')
    BY <1>11 DEF SameService, Made, MadeNow
  <2>1. CASE shell.state \in {"DRAIN", "ISSUE"} /\ shell'.state # "WAIT"
    BY <1>6, <1>7, <1>11, <2>0, <2>1 DEF AccessesInStep, Answering
  <2>2. CASE shell.state = "ISSUE" /\ CommandReady
    <3>1. core'.state # "RESPOND" /\ accesses' = accesses
      BY <1>1, <1>4, <1>6, <1>11, <2>2
    <3> QED BY <1>1, <1>7, <1>11, <2>0, <2>2, <3>1 DEF AccessesInStep, Answering
  <2>3. CASE shell.state = "WAIT" /\ shell'.state = "WAIT" /\ ~Answered(shell, Arriving)
    <3>1. core.state # "RESPOND"
      BY <1>2, <2>3 DEF LinkInStep, Current, CoreBusy, Answered
    <3>2. ~Answering /\ accesses = Made
      BY <1>1, <1>7, <1>11, <3>1 DEF Answering, AccessesInStep
    <3>3. core'.state = "RESPOND" => core.state = "ACCESS"
      BY <1>4, <1>5, <3>1
    <3> QED BY <1>1, <1>6, <1>11, <2>0, <2>3, <3>2, <3>3 DEF AccessesInStep, Answering
  <2> QED BY <1>11, <2>1, <2>2, <2>3
<1> QED BY <1>8, <1>9, <1>10, <1>11, AccessesMove

(* One task stages and fires only while nothing is busy.                   *)
LEMMA TaskSteps ==
  ASSUME Types, [Next]_explorerVars, OneTask, TaskInStep, use.resets = {}
  PROVE  \/ /\ UNCHANGED use
            /\ \E w \in RegisterWrites :
                 /\ Clock(w)
                 /\ w.reg \notin {"COMMAND", "CONFIG"}
         \/ /\ UNCHANGED use /\ ~shell.busy
            /\ \E h \in Hosts : Stage(h)
         \/ /\ UNCHANGED use /\ ~shell.busy
            /\ \E h \in Hosts : FireCommand(h)
         \/ CoreClock /\ UNCHANGED use
         \/ UNCHANGED <<use, shell, core, command, response, history>>
<1>1. NoWrite \in RegisterWrites /\ NoWrite.reg \notin {"COMMAND", "CONFIG"}
  BY HostWrites DEF NoWrite
<1>2. ASSUME NEW w \in use.scan_writes PROVE w \in RegisterWrites /\ w.reg \notin {"COMMAND", "CONFIG"}
  BY UsesAssumption, HostWrites DEF Types, ScanWrites
<1>3. ASSUME NEW h \in Hosts, Stage(h) \/ FireCommand(h) PROVE ~shell.busy
  BY <1>3 DEF Stage, FireCommand, OneTask, TaskInStep
<1>4. ASSUME NEW h \in Hosts, Poll(h), UNCHANGED use
      PROVE  UNCHANGED <<use, shell, core, command, response, history>>
  BY <1>4 DEF Poll, crossing
<1>5. CASE UNCHANGED explorerVars
  BY <1>5 DEF explorerVars
<1>6. CASE Run /\ UNCHANGED use
  BY <1>1, <1>6 DEF Run
<1>7. CASE Program /\ UNCHANGED use
  BY <1>2, <1>7 DEF Program
<1> QED BY <1>3, <1>4, <1>5, <1>6, <1>7 DEF Next, HostReset, TargetReset

LEMMA NextService ==
  ASSUME Types, [Next]_explorerVars, OneTask, use.resets = {},
         LinkInStep, TaskInStep, ServiceInStep
  PROVE  ServiceInStep'
<1>0. NumbersInStep /\ (Serving => OperationInStep)
  BY DEF ServiceInStep
<1>1. ASSUME UNCHANGED use, NEW w \in RegisterWrites, Clock(w) PROVE NumbersInStep'
  BY <1>0, <1>1, NumbersShellClock, NumbersCommonClock DEF Clock
<1>2. ASSUME UNCHANGED use, NEW w \in RegisterWrites, Clock(w), w.reg \notin {"COMMAND", "CONFIG"}
      PROVE  ServiceInStep'
  <2>1. NumbersInStep'
    BY <1>1, <1>2
  <2>2. ASSUME Serving' PROVE OperationInStep'
    BY <1>0, <1>2, <2>2, OperationClock
  <2>3. ASSUME Serving' PROVE AccessesInStep'
    BY <1>2, <2>3, AccessesShellClock, AccessesCommonClock DEF Clock
  <2> QED BY <2>1, <2>2, <2>3 DEF ServiceInStep
<1>3. ASSUME NEW h \in Hosts, Stage(h) \/ FireCommand(h), UNCHANGED use, ~shell.busy
      PROVE  ServiceInStep'
  <2>1. \E w \in RegisterWrites : Clock(w)
    BY <1>3, HostWrites DEF Stage, FireCommand
  <2>2. NumbersInStep'
    BY <1>1, <1>3, <2>1
  <2>3. ~Serving'
    BY <1>3, <2>1, RestingClock
  <2> QED BY <2>2, <2>3 DEF ServiceInStep
<1>4. CASE CoreClock /\ UNCHANGED use
  <2>1. NumbersInStep'
    BY <1>0, <1>4, NumbersCoreClock
  <2>2. Serving' <=> Serving
    BY <1>4 DEF CoreClock, Serving
  <2> QED BY <1>4, <2>1, <2>2, AccessesCoreClock DEF ServiceInStep
<1>5. CASE UNCHANGED <<use, shell, core, command, response, history>>
  BY <1>5 DEF history, ServiceInStep, NumbersInStep, CoreBusy, IsIssued, Serving, OperationInStep,
              AccessesInStep, Answering, Made, MadeNow
<1> QED BY <1>2, <1>3, <1>4, <1>5, TaskSteps
----------------------------------------------------------------------------
LEMMA InitIInv == Init => IInv
<1> SUFFICES ASSUME Init PROVE IInv
  OBVIOUS
<1>1. Types
  BY InitTypes
<1>2. /\ shell.state = "IDLE" /\ ~shell.orphan /\ ~shell.pending /\ ~shell.busy /\ ~shell.scan_op
      /\ shell.slot_enable = {} /\ shell.scan_valid = {} /\ shell.scan_error = {}
  BY ShellInitFacts DEF Init
<1>3. command = Nothing /\ response = Nothing /\ core.state = "RESET"
      /\ \A h \in Hosts : pc[h] = "idle"
  BY DEF Init, CoreReset
<1>4. LinkInStep
  BY <1>2, <1>3 DEF LinkInStep, Outstanding, CoreBusy
<1>5. ScanInStep /\ NeverScans
  BY <1>2 DEF ScanInStep, ScanIsCurrent, NeverScans
<1>6. TaskInStep
  BY <1>2, <1>3 DEF TaskInStep, Serving
<1>7. ServiceInStep
  BY <1>2, <1>3 DEF ServiceInStep, NumbersInStep, CoreBusy, Serving
<1> QED BY <1>1, <1>4, <1>5, <1>6, <1>7 DEF IInv

LEMMA NextIInv == IInv /\ [Next]_explorerVars => IInv'
<1> SUFFICES ASSUME IInv, [Next]_explorerVars PROVE IInv'
  OBVIOUS
<1>1. Types /\ Types'
  BY NextTypes DEF IInv
<1>2. use' = use
  BY DEF Next, explorerVars
<1>3. "host" \notin use.resets => LinkInStep' /\ ScanInStep'
  BY <1>1, NextInStep DEF IInv
<1>4. use.scan_writes = {} => NeverScans'
  BY <1>1, NextNeverScans DEF IInv
<1>5. OneTask => TaskInStep'
  BY <1>1, NextTask DEF IInv
<1>6. OneTask /\ use.resets = {} => ServiceInStep'
  BY <1>1, NextService DEF IInv
<1> QED BY <1>1, <1>2, <1>3, <1>4, <1>5, <1>6 DEF IInv

(* Between a shell and its target there is never more than one access, the *)
(* one waited for or one disowned; scan flags belong to the slots as they  *)
(* are; a task's command is what is pending and what is in service.        *)
THEOREM EngineInStep == Spec => []IInv
<1>1. Init => IInv
  BY InitIInv
<1>2. IInv /\ [Next]_explorerVars => IInv'
  BY NextIInv
<1> QED BY <1>1, <1>2, PTL DEF Spec

(* Without resets, the one tag bit is enough: the answer the shell takes   *)
(* is that of the access in progress, and what it drains is on its way.    *)
THEOREM AnswersOwed == Spec => []AnswersAreOwed
<1>1. IInv => AnswersAreOwed
  <2> SUFFICES ASSUME IInv PROVE AnswersAreOwed
    OBVIOUS
  <2>1. Types /\ use.timeout \in Nat
    BY UsesAssumption DEF IInv, Types
  <2>2. TypeOK
    <3>1. core.state \in {"RESET", "IDLE", "SETUP", "ACCESS", "RESPOND"}
      BY <2>1 DEF Types, CoreReset, CoreIdle, Accesses
    <3>2. shell.timer \in 0..use.timeout
      BY <2>1 DEF Types, Registers
    <3> QED BY <2>1, <3>1, <3>2 DEF TypeOK, Types, Registers
  <2>3. TagTellsAnswersApart
    BY <2>1, AnswerIsCurrent DEF IInv, TagTellsAnswersApart
  <2>4. OrphanIsOutstanding
    BY DEF IInv, LinkInStep, OrphanIsOutstanding, Outstanding, CoreBusy
  <2> QED BY <2>2, <2>3, <2>4 DEF AnswersAreOwed
<1> QED BY <1>1, EngineInStep, PTL

(* A slot's flags and value are of the address it holds now, in every      *)
(* explorer whose scanner is not programmed across resets of the host.     *)
THEOREM ScanStaysCurrent ==
  ASSUME \A u \in Uses : "host" \in u.resets => u.scan_writes = {}
  PROVE  Spec => []ScanIsCurrent
<1>1. IInv => ScanIsCurrent
  <2> SUFFICES ASSUME IInv PROVE ScanIsCurrent
    OBVIOUS
  <2>1. CASE use.scan_writes = {}
    BY <2>1 DEF IInv, NeverScans, ScanIsCurrent
  <2>2. CASE use.scan_writes # {}
    BY <2>2 DEF IInv, Types, ScanInStep
  <2> QED BY <2>1, <2>2
<1> QED BY <1>1, EngineInStep, PTL

(* One task that stages, fires and polls finds its command served with the *)
(* parameters staged, and takes no earlier completion for its own.         *)
THEOREM CommandStaysMine ==
  ASSUME OneTask
  PROVE  Spec => []CommandIsMine
<1>1. IInv => CommandIsMine
  <2> SUFFICES ASSUME IInv PROVE CommandIsMine
    OBVIOUS
  <2>1. TaskInStep /\ served \in Requests /\ shell \in Registers
    BY DEF IInv, Types
  <2>2. CompletionIsMine
    BY <2>1 DEF TaskInStep, CompletionIsMine, Completion
  <2>3. StagedIsConsumed
    BY <2>1 DEF TaskInStep, StagedIsConsumed
  <2> QED BY <2>2, <2>3 DEF CommandIsMine
<1> QED BY <1>1, EngineInStep, PTL
----------------------------------------------------------------------------
(* A bus explorer is a command engine.                                     *)

(* The write of a masked write is of the old word with the masked bits     *)
(* replaced.                                                               *)
LEMMA MergeIsMasked ==
  ASSUME NEW q \in Requests, NEW old \in Words
  PROVE  Abstract!Masked(q, old) = Merge(old, q.wdata, q.wmask)
<1>1. q.wdata \in SUBSET Bits /\ q.wmask \in SUBSET Bits /\ old \in SUBSET Bits
  BY DEF Requests, Words
<1> QED BY <1>1 DEF Abstract!Masked, Merge

(* The access the target makes is the next one the command asks for.       *)
LEMMA MakesNext ==
  ASSUME Types, TaskInStep, Serving, OperationInStep, NEW answer,
         answer.error \in BOOLEAN, answer.rdata \in Words
  PROVE  MadeNow(answer) \in Abstract!NextAccesses(fired, Made)
<1>0. /\ shell \in Registers /\ served \in Requests /\ fired = served
      /\ shell.address_issue = served.address
  BY DEF Types, OperationInStep, TaskInStep
<1>1. served.op \in {"read", "write", "masked"}
  BY <1>0 DEF Requests, Operations, OperationInStep
<1>2. shell.rmw \in BOOLEAN /\ shell.write_issue \in BOOLEAN /\ shell.rdata \in Words
  BY <1>0 DEF Registers
<1>3. CASE served.op = "read"
  <2>1. Made = <<>> /\ shell.write_issue = FALSE
    BY <1>2, <1>3 DEF Made, OperationInStep
  <2>2. MadeNow(answer) = Abstract!Read(served, answer.rdata, answer.error)
    BY <2>1 DEF MadeNow, Abstract!Read
  <2> QED BY <1>0, <1>3, <2>1, <2>2 DEF Abstract!NextAccesses, Abstract!Words, Words
<1>4. CASE served.op = "write"
  <2>1. Made = <<>> /\ shell.write_issue = TRUE /\ shell.wdata_issue = served.wdata
    BY <1>2, <1>4 DEF Made, OperationInStep, TaskInStep
  <2>2. MadeNow(answer) = Abstract!WriteOf(served, served.wdata, answer.error)
    BY <2>1 DEF MadeNow, Abstract!WriteOf
  <2> QED BY <1>0, <1>4, <2>1, <2>2 DEF Abstract!NextAccesses
<1>5. CASE served.op = "masked" /\ shell.rmw
  <2>1. Made = <<>> /\ shell.write_issue = FALSE
    BY <1>2, <1>5 DEF Made, OperationInStep
  <2>2. MadeNow(answer) = Abstract!Read(served, answer.rdata, answer.error)
    BY <2>1 DEF MadeNow, Abstract!Read
  <2> QED BY <1>0, <1>5, <2>1, <2>2 DEF Abstract!NextAccesses, Abstract!Words, Words
<1>6. CASE served.op = "masked" /\ ~shell.rmw
  <2> DEFINE first == [write |-> FALSE, address |-> served.address, data |-> shell.rdata, failed |-> FALSE]
  <2>1. Made = <<first>> /\ shell.write_issue = TRUE
    BY <1>2, <1>6 DEF Made, OperationInStep
  <2>2. shell.wdata_issue = Abstract!Masked(served, first.data)
    BY <1>0, <1>2, <1>6, <2>1, MergeIsMasked DEF OperationInStep
  <2>3. MadeNow(answer) = Abstract!WriteOf(served, Abstract!Masked(served, first.data), answer.error)
    BY <2>1, <2>2 DEF MadeNow, Abstract!WriteOf
  <2>4. Len(Made) = 1 /\ Made[1] = first /\ Made # <<>> /\ ~first.failed
    BY <2>1
  <2> HIDE DEF first
  <2> QED BY <1>0, <1>6, <2>3, <2>4 DEF Abstract!NextAccesses
<1> QED BY <1>1, <1>3, <1>4, <1>5, <1>6

(* What is reported of a command is what became of its accesses.           *)
LEMMA AnswersRight ==
  ASSUME Types, TaskInStep, Serving, OperationInStep, NEW answer,
         answer.error \in BOOLEAN, answer.rdata \in Words, shell.rmw => answer.error
  PROVE  LET made == Append(Made, MadeNow(answer))
             code == IF answer.error THEN "SLVERR" ELSE "OK"
         IN /\ code \in Abstract!Outcomes(fired, made)
            /\ code = "OK" /\ fired.op # "write" =>
                 made[1].data = IF ~shell.rmw /\ shell.write_issue THEN shell.rdata ELSE answer.rdata
<1> DEFINE now == MadeNow(answer)
           made == Append(Made, now)
           first == [write |-> FALSE, address |-> served.address, data |-> shell.rdata, failed |-> FALSE]
<1>0. /\ shell \in Registers /\ served \in Requests /\ fired = served
  BY DEF Types, OperationInStep
<1>1. served.op \in {"read", "write", "masked"}
  BY <1>0 DEF Requests, Operations, OperationInStep
<1>2. shell.rmw \in BOOLEAN /\ shell.write_issue \in BOOLEAN
  BY <1>0 DEF Registers
<1>3. CASE served.op = "masked" /\ ~shell.rmw
  <2>0. Made = <<first>> /\ shell.write_issue = TRUE
    BY <1>2, <1>3 DEF Made, OperationInStep
  <2> HIDE DEF now, first
  <2>1. <<first>> \in Seq({first, now}) /\ now \in {first, now}
    OBVIOUS
  <2>2. Len(made) = 2 /\ made[2] = now /\ made[1] = first /\ made # <<>>
    BY <2>0, <2>1, AppendProperties
  <2>3. now.failed = answer.error /\ first.data = shell.rdata
    BY DEF MadeNow, now, first
  <2> HIDE DEF made
  <2>4. Abstract!Failed(made) = answer.error
    BY <2>2, <2>3 DEF Abstract!Failed
  <2> QED BY <1>0, <1>2, <1>3, <2>0, <2>2, <2>3, <2>4 DEF Abstract!Outcomes, Abstract!Completed, made, now
<1>4. CASE ~(served.op = "masked" /\ ~shell.rmw)
  <2>0. Made = <<>>
    BY <1>4 DEF Made
  <2> HIDE DEF now
  <2>1. made = <<now>>
    BY <2>0
  <2>2. Len(made) = 1 /\ made[1] = now /\ made # <<>>
    BY <2>1
  <2>3. now.failed = answer.error /\ (shell.write_issue = FALSE => now.data = answer.rdata)
    BY DEF MadeNow, now
  <2>4. served.op # "write" => shell.write_issue = FALSE
    BY <1>1, <1>2, <1>4 DEF OperationInStep
  <2>5. served.op = "masked" => answer.error = TRUE
    BY <1>4
  <2> HIDE DEF made
  <2>6. Abstract!Failed(made) = answer.error
    BY <2>2, <2>3 DEF Abstract!Failed
  <2> QED BY <1>0, <1>1, <2>2, <2>3, <2>4, <2>5, <2>6 DEF Abstract!Outcomes, Abstract!Completed, made, now
<1> QED BY <1>3, <1>4

(* The steps of the engine, in the registers.                              *)
MadeSoFar == IF Serving THEN accesses ELSE <<>>

LEMMA AbstractStutters ==
  ASSUME use.resets = {}, use' = use, TaskInStep, TaskInStep', fired' = fired,
         shell'.busy <=> shell.busy, shell'.error = shell.error,
         shell.busy \/ shell'.rdata = shell.rdata, MadeSoFar' = MadeSoFar
  PROVE  UNCHANGED Abstract!engineVars
<1>1. /\ Serving => ~shell.pending
      /\ Serving' => ~shell'.pending
  BY DEF TaskInStep
<1>2. Undisturbed /\ Undisturbed'
  BY DEF Undisturbed
<1> QED BY <1>1, <1>2 DEF Abstract!engineVars, MadeSoFar

LEMMA AbstractAccess ==
  ASSUME use.resets = {}, use' = use, TaskInStep, TaskInStep', fired' = fired,
         Serving, Serving', shell'.error = shell.error,
         NEW m \in Abstract!NextAccesses(fired, accesses), accesses' = Append(accesses, m)
  PROVE  Abstract!Next
<1>1. shell.busy /\ shell'.busy /\ ~shell.pending /\ ~shell'.pending
  BY DEF TaskInStep
<1>2. Undisturbed /\ Undisturbed'
  BY DEF Undisturbed
<1> QED BY <1>1, <1>2 DEF Abstract!Next, Abstract!Access

LEMMA AbstractAnswer ==
  ASSUME use.resets = {}, use' = use, TaskInStep, TaskInStep', fired' = fired, Types',
         shell.busy, ~shell'.busy,
         shell'.error \in Abstract!Outcomes(fired, MadeSoFar),
         shell'.error = "OK" /\ fired.op # "write" => shell'.rdata = MadeSoFar[1].data
  PROVE  Abstract!Next
<1>1. Serving => ~shell.pending
  BY DEF TaskInStep
<1>2. Undisturbed /\ Undisturbed' /\ ~Serving'
  BY DEF Undisturbed, TaskInStep
<1>3. shell'.rdata \in Abstract!Words
  BY DEF Types, Registers, Words, Abstract!Words
<1> QED BY <1>1, <1>2, <1>3 DEF Abstract!Next, Abstract!Answer, MadeSoFar

LEMMA AbstractFire ==
  ASSUME use.resets = {}, use' = use, TaskInStep, fired' \in Requests, Types',
         ~shell.busy, shell'.busy, ~Serving', shell'.error = "OK"
  PROVE  Abstract!Next
<1>1. Undisturbed /\ Undisturbed' /\ ~Serving
  BY DEF Undisturbed, TaskInStep
<1> QED BY <1>1 DEF Abstract!Next, Abstract!Fire, Abstract!NoWord, Abstract!Words, Words

(* What a clock does to the accesses of the command in service.            *)
LEMMA AccessesClock ==
  ASSUME Types, Types', LinkInStep, TaskInStep, ServiceInStep,
         CoreClock \/ \E w \in RegisterWrites : Clock(w)
  PROVE  /\ ~Serving /\ (\E w \in RegisterWrites : Clock(w)) => accesses' = <<>>
         /\ Serving =>
              \/ accesses' = accesses
              \/ /\ shell.state = "WAIT" /\ core.state = "ACCESS"
                 /\ \E m \in Abstract!NextAccesses(fired, accesses) : accesses' = Append(accesses, m)
<1>1. ~Serving /\ (\E w \in RegisterWrites : Clock(w)) => accesses' = <<>>
  BY DEF Clock, ShellClock, CommonClock
<1>2. ASSUME Serving, accesses' = accesses \o Performed,
             core.state = "ACCESS" => core'.state \in {"ACCESS", "RESPOND"} /\ core'.command = core.command
      PROVE  \/ accesses' = accesses
             \/ /\ shell.state = "WAIT" /\ core.state = "ACCESS"
                /\ \E m \in Abstract!NextAccesses(fired, accesses) : accesses' = Append(accesses, m)
  <2>1. CASE shell.state = "WAIT" /\ core.state = "ACCESS" /\ core'.state = "RESPOND"
    <3>1. core' \in Accesses
      BY <2>1 DEF Types, CoreReset, CoreIdle
    <3>2. core'.error \in BOOLEAN /\ core'.rdata \in Words
      BY <3>1 DEF Accesses
    <3>3. MadeNow(core') \in Abstract!NextAccesses(fired, Made)
      BY <1>2, <3>2, MakesNext DEF ServiceInStep
    <3>4. accesses = Made
      BY <1>2, <2>1 DEF ServiceInStep, AccessesInStep, Answering, LinkInStep, CoreBusy
    <3>5. accesses' = Append(Made, MadeNow(core'))
      BY <1>2, <2>1, AccessesGrow
    <3> QED BY <2>1, <3>3, <3>4, <3>5
  <2>2. CASE ~(shell.state = "WAIT" /\ core.state = "ACCESS" /\ core'.state = "RESPOND")
    BY <1>2, <2>2, AccessesGrow
  <2> QED BY <2>1, <2>2
<1>3. ASSUME CoreClock, Serving
      PROVE  core.state = "ACCESS" => core'.state \in {"ACCESS", "RESPOND"} /\ core'.command = core.command
  <2> PICK target \in TargetAnswers :
        CoreStep(command # Nothing, command, response = Nothing, target)
    BY <1>3 DEF CoreClock
  <2>1. command # Nothing => command \in Commands
    BY DEF Types
  <2> QED BY <2>1, CoreFacts
<1>4. ASSUME NEW w \in RegisterWrites, CommonClock(w)
      PROVE  core.state = "ACCESS" => core'.state \in {"ACCESS", "RESPOND"} /\ core'.command = core.command
  <2> PICK target \in TargetAnswers :
        CoreStep(shell.state = "ISSUE", CommandOffered, TRUE, target)
    BY <1>4 DEF CommonClock
  <2> QED BY OfferedFacts, CoreFacts
<1>5. ASSUME CoreClock, Serving PROVE accesses' = accesses \o Performed
  BY <1>5 DEF CoreClock
<1>6. ASSUME NEW w \in RegisterWrites, CommonClock(w), Serving PROVE accesses' = accesses \o Performed
  BY <1>6 DEF CommonClock
<1>7. ASSUME NEW w \in RegisterWrites, ShellClock(w), Serving PROVE accesses' = accesses
  BY <1>7 DEF ShellClock
<1> QED BY <1>1, <1>2, <1>3, <1>4, <1>5, <1>6, <1>7 DEF Clock

(* The answer taken is the last access made.                               *)
LEMMA AnswerIsMade ==
  ASSUME Types, Serving, AccessesInStep, shell.state = "WAIT", Answered(shell, Arriving)
  PROVE  accesses = Append(Made, MadeNow(Arriving))
<1>1. CASE use.crossed
  <2>1. response # Nothing /\ Arriving = response
    BY <1>1, ArrivingFacts DEF Answered
  <2> QED BY <2>1 DEF AccessesInStep, Answering
<1>2. CASE ~use.crossed
  <2>1. /\ core.state = "RESPOND" /\ response = Nothing
        /\ Arriving.error = core.error /\ Arriving.rdata = core.rdata
    BY <1>2, ArrivingFacts DEF Answered, Types
  <2>2. MadeNow(Arriving) = MadeNow(core)
    BY <2>1 DEF MadeNow
  <2> QED BY <2>1, <2>2 DEF AccessesInStep, Answering
<1> QED BY <1>1, <1>2

(* At rest, a clock leaves the outcome of the last command alone, unless   *)
(* it fires the next one.                                                  *)
LEMMA RestingStatus ==
  ASSUME Types, ~Serving, ~shell.pending,
         NEW w \in RegisterWrites, Clock(w), w.reg # "COMMAND"
  PROVE  shell'.busy = shell.busy /\ shell'.error = shell.error /\ shell'.rdata = shell.rdata
<1>1. shell \in Registers /\ ShellStep(w, CommandReady, Arriving) /\ Arriving \in {Nothing} \union Answers
  BY ArrivingFacts DEF Types, Clock, ShellClock, CommonClock
<1> PICK t \in Registers : shell' = Write(t, w) /\ Moves(t, CommandReady, Arriving)
  BY <1>1, EngineStep
<1>2. StatusOf(shell') = StatusOf(t)
  BY WriteFacts
<1>3. StatusOf(t) = StatusOf(shell)
  <2>1. ASSUME Refuses(t, Arriving) \/ Takes(t, Arriving) \/ Merges(t, Arriving) \/ Completes(t, Arriving)
        PROVE  FALSE
    BY <2>1 DEF Refuses, Takes, Merges, Completes, Receives, Serving
  <2>2. ASSUME GivesUp(t, CommandReady, Arriving) PROVE StatusOf(t) = StatusOf(shell)
    <3>1. shell.state # "IDLE" /\ Ends(t, "TIMEOUT")
      BY <2>2 DEF GivesUp
    <3> QED BY <3>1 DEF Ends, Serving
  <2> QED BY <2>1, <2>2 DEF Moves, Rests, StartsScan, Starts, Waits, Drains, Issues, Keeps, Scanned
<1> QED BY <1>2, <1>3 DEF StatusOf

LEMMA FiredStatus ==
  ASSUME Types, NEW w \in RegisterWrites, Clock(w), w.reg = "COMMAND"
  PROVE  shell'.busy /\ shell'.error = "OK"
<1>1. shell \in Registers /\ ShellStep(w, CommandReady, Arriving) /\ Arriving \in {Nothing} \union Answers
  BY ArrivingFacts DEF Types, Clock, ShellClock, CommonClock
<1> PICK t \in Registers : shell' = Write(t, w)
  BY <1>1, EngineStep
<1> QED BY WriteFacts

(* A clock that neither stages nor fires is a step of the engine, or none. *)
LEMMA ClockRefines ==
  ASSUME Types, Types', LinkInStep, TaskInStep, TaskInStep', ServiceInStep, use.resets = {}, use' = use,
         NEW w \in RegisterWrites, Clock(w), w.reg \notin {"COMMAND", "CONFIG"}
  PROVE  [Abstract!Next]_(Abstract!engineVars)
<1> DEFINE r == Arriving
           Goal == [Abstract!Next]_(Abstract!engineVars)
<1> PICK t \in Registers :
      /\ Moves(t, CommandReady, r)
      /\ shell'.state = t.state /\ AccessOf(shell') = AccessOf(t) /\ StatusOf(shell') = StatusOf(t)
  BY BusyClock
<1>1. fired' = fired /\ shell \in Registers /\ shell' \in Registers
  BY BusyClock DEF Types
<1>2. /\ shell'.scan_op = t.scan_op
      /\ shell'.busy = t.busy /\ shell'.error = t.error /\ shell'.rdata = t.rdata
  BY DEF AccessOf, StatusOf
<1>3. Serving' <=> t.state # "IDLE" /\ ~t.scan_op
  BY <1>2 DEF Serving
<1>4. /\ ~Serving => accesses' = <<>>
      /\ Serving =>
           \/ accesses' = accesses
           \/ /\ shell.state = "WAIT" /\ core.state = "ACCESS"
              /\ \E m \in Abstract!NextAccesses(fired, accesses) : accesses' = Append(accesses, m)
  BY AccessesClock
<1> HIDE DEF r, Goal
<1>5. ASSUME ~Serving, StatusOf(t) = StatusOf(shell) PROVE Goal
  <2>1. shell'.busy = shell.busy /\ shell'.error = shell.error /\ shell'.rdata = shell.rdata
    BY <1>2, <1>5 DEF StatusOf
  <2>2. MadeSoFar' = MadeSoFar
    BY <1>4, <1>5 DEF MadeSoFar
  <2> QED BY <1>1, <2>1, <2>2, AbstractStutters DEF Goal
<1>6. ASSUME Serving, Serving', t.busy = shell.busy, t.error = shell.error PROVE Goal
  <2>1. shell.busy
    BY <1>6 DEF TaskInStep
  <2>2. CASE accesses' = accesses
    <3>1. MadeSoFar' = MadeSoFar
      BY <1>6, <2>2 DEF MadeSoFar
    <3> QED BY <1>1, <1>2, <1>6, <2>1, <3>1, AbstractStutters DEF Goal
  <2>3. CASE \E m \in Abstract!NextAccesses(fired, accesses) : accesses' = Append(accesses, m)
    BY <1>1, <1>2, <1>6, <2>3, AbstractAccess DEF Goal
  <2> QED BY <1>4, <1>6, <2>2, <2>3
<1>7. ASSUME Rests(t, r) \/ Takes(t, r) \/ StartsScan(t, r) PROVE Goal
  <2>1. StatusOf(t) = StatusOf(shell) /\ shell.state = "IDLE"
    BY <1>7 DEF Rests, Takes, StartsScan, Starts
  <2> QED BY <1>5, <2>1 DEF Serving
<1>8. ASSUME Refuses(t, r) PROVE Goal
  <2>1. /\ shell.state = "IDLE" /\ shell.pending /\ shell.pending_op = "reserved"
        /\ StatusOf(t) = <<FALSE, TRUE, "COMMAND", shell.rdata>>
    BY <1>8 DEF Refuses
  <2>2. shell.busy /\ fired.op = "reserved" /\ ~t.busy /\ t.error = "COMMAND"
    BY <2>1 DEF TaskInStep, StatusOf
  <2>3. t.error \in Abstract!Outcomes(fired, MadeSoFar)
    BY <2>2 DEF Abstract!Outcomes
  <2> QED BY <1>1, <1>2, <2>2, <2>3, AbstractAnswer DEF Goal
<1>9. ASSUME Waits(t, CommandReady, r) \/ Drains(t, r) \/ Issues(t, CommandReady) PROVE Goal
  <2>1. /\ AccessOf(t) = AccessOf(shell) /\ StatusOf(t) = StatusOf(shell)
        /\ shell.state # "IDLE" /\ t.state # "IDLE"
    BY <1>9 DEF Waits, Drains, Issues, Keeps, LinkOf
  <2>2. Serving' <=> Serving
    BY <1>3, <2>1 DEF Serving, AccessOf
  <2>3. t.busy = shell.busy /\ t.error = shell.error
    BY <2>1 DEF StatusOf
  <2> QED BY <1>5, <1>6, <2>1, <2>2, <2>3
<1>10. ASSUME GivesUp(t, CommandReady, r) PROVE Goal
  <2>1. Ends(t, "TIMEOUT") /\ shell.state # "IDLE" /\ t.state = "IDLE"
    BY <1>10 DEF GivesUp, LinkOf
  <2>2. CASE shell.scan_op
    BY <1>5, <2>1, <2>2 DEF Ends, Serving
  <2>3. CASE ~shell.scan_op
    <3>1. Serving /\ shell.busy /\ OperationInStep
      BY <2>1, <2>3 DEF Serving, TaskInStep, ServiceInStep
    <3>2. ~t.busy /\ t.error = "TIMEOUT"
      BY <2>1, <2>3 DEF Ends, StatusOf
    <3>3. t.error \in Abstract!Outcomes(fired, MadeSoFar)
      BY <3>1, <3>2 DEF Abstract!Outcomes, OperationInStep
    <3> QED BY <1>1, <1>2, <3>1, <3>2, <3>3, AbstractAnswer DEF Goal
  <2> QED BY <2>2, <2>3
<1>11. ASSUME Scanned(t, r) PROVE Goal
  BY <1>5, <1>11 DEF Scanned, Serving
<1>12. ASSUME Merges(t, r) PROVE Goal
  <2>1. /\ Serving /\ t.state = "ISSUE" /\ ~t.scan_op
        /\ t.busy = shell.busy /\ t.error = shell.error
    BY <1>12 DEF Merges, Receives, LinkOf, AccessOf, StatusOf, Serving
  <2> QED BY <1>3, <1>6, <2>1
<1>13. ASSUME Completes(t, r) PROVE Goal
  <2>1. /\ Serving /\ shell.state = "WAIT" /\ Answered(shell, r) /\ (shell.rmw => r.error)
        /\ StatusOf(t) = <<FALSE, TRUE, IF r.error THEN "SLVERR" ELSE "OK",
                           IF ~shell.rmw /\ shell.write_issue THEN shell.rdata ELSE r.rdata>>
    BY <1>13 DEF Completes, Receives, Serving
  <2>2. /\ shell.busy /\ ~t.busy /\ t.error = IF r.error THEN "SLVERR" ELSE "OK"
        /\ t.rdata = IF ~shell.rmw /\ shell.write_issue THEN shell.rdata ELSE r.rdata
    BY <2>1 DEF TaskInStep, StatusOf
  <2>3. r.error \in BOOLEAN /\ r.rdata \in Words
    <3>1. r \in Answers
      BY <2>1, ArrivingFacts DEF r, Answered
    <3> QED BY <3>1 DEF Answers
  <2>4. MadeSoFar = Append(Made, MadeNow(r))
    BY <2>1, AnswerIsMade DEF r, MadeSoFar, ServiceInStep
  <2>5. /\ t.error \in Abstract!Outcomes(fired, MadeSoFar)
        /\ t.error = "OK" /\ fired.op # "write" => t.rdata = MadeSoFar[1].data
    BY <2>1, <2>2, <2>3, <2>4, AnswersRight DEF ServiceInStep
  <2> QED BY <1>1, <1>2, <2>2, <2>5, AbstractAnswer DEF Goal
<1> QED BY <1>7, <1>8, <1>9, <1>10, <1>11, <1>12, <1>13 DEF Moves, Goal

LEMMA NextRefines ==
  ASSUME IInv, IInv', [Next]_explorerVars, OneTask
  PROVE  [Abstract!Next]_(Abstract!engineVars)
<1> DEFINE Goal == [Abstract!Next]_(Abstract!engineVars)
<1>1. use' = use
  BY DEF Next, explorerVars
<1>2. ASSUME use.resets # {} PROVE Goal
  <2>1. ~Undisturbed /\ ~Undisturbed'
    BY <1>1, <1>2 DEF Undisturbed
  <2> QED BY <2>1 DEF Abstract!engineVars
<1>3. ASSUME use.resets = {} PROVE Goal
  <2>1. Types /\ Types' /\ LinkInStep /\ TaskInStep /\ TaskInStep' /\ ServiceInStep
    BY <1>3 DEF IInv
  <2> HIDE DEF Goal
  <2>2. ASSUME NEW w \in RegisterWrites, Clock(w), w.reg \notin {"COMMAND", "CONFIG"} PROVE Goal
    BY <1>1, <1>3, <2>1, <2>2, ClockRefines DEF Goal
  <2>3. ASSUME NEW h \in Hosts, Stage(h), ~shell.busy PROVE Goal
    <3>1. PICK q \in use.requests : Clock([reg |-> "CONFIG", value |-> q])
      BY <2>3 DEF Stage
    <3> DEFINE w == [reg |-> "CONFIG", value |-> q]
    <3>2. w \in RegisterWrites /\ Clock(w) /\ w.reg = "CONFIG"
      BY <2>1, <3>1, HostWrites
    <3>3. ~Serving /\ ~Serving' /\ ~shell.pending
      BY <2>1, <2>3, <3>2, RestingClock DEF TaskInStep
    <3> HIDE DEF w
    <3>4. fired' = fired
      BY <2>1, <3>2, TaskClock
    <3>5. shell'.busy = shell.busy /\ shell'.error = shell.error /\ shell'.rdata = shell.rdata
      BY <2>1, <2>3, <3>2, <3>3, RestingStatus
    <3>6. MadeSoFar' = MadeSoFar
      BY <3>3 DEF MadeSoFar
    <3> QED BY <1>1, <1>3, <2>1, <3>4, <3>5, <3>6, AbstractStutters DEF Goal
  <2>4. ASSUME NEW h \in Hosts, FireCommand(h), ~shell.busy PROVE Goal
    <3> DEFINE w == [reg |-> "COMMAND", value |-> ask[h].op]
    <3>1. w \in RegisterWrites /\ Clock(w) /\ w.reg = "COMMAND"
      BY <2>1, <2>4, HostWrites DEF FireCommand
    <3> HIDE DEF w
    <3>2. shell'.busy /\ shell'.error = "OK" /\ ~Serving'
      BY <2>1, <2>4, <3>1, RestingClock, FiredStatus
    <3>3. fired' \in Requests
      BY <2>1 DEF Types
    <3> QED BY <1>1, <1>3, <2>1, <2>4, <3>2, <3>3, AbstractFire DEF Goal
  <2>5. ASSUME CoreClock PROVE Goal
    <3>1. UNCHANGED <<shell, fired>> /\ (Serving' <=> Serving) /\ (~Serving => accesses' = accesses)
      BY <2>5 DEF CoreClock, Serving
    <3>2. CASE accesses' = accesses \/ ~Serving
      <4>1. MadeSoFar' = MadeSoFar
        BY <3>1, <3>2 DEF MadeSoFar
      <4> QED BY <1>1, <1>3, <2>1, <3>1, <4>1, AbstractStutters DEF Goal
    <3>3. CASE Serving /\ \E m \in Abstract!NextAccesses(fired, accesses) : accesses' = Append(accesses, m)
      BY <1>1, <1>3, <2>1, <3>1, <3>3, AbstractAccess DEF Goal
    <3> QED BY <2>1, <2>5, <3>1, <3>2, <3>3, AccessesClock
  <2>6. ASSUME UNCHANGED <<use, shell, core, command, response, history>> PROVE Goal
    <3>1. UNCHANGED <<shell, fired, accesses>>
      BY <2>6 DEF history
    <3>2. MadeSoFar' = MadeSoFar
      BY <3>1 DEF MadeSoFar, Serving
    <3> QED BY <1>1, <1>3, <2>1, <3>1, <3>2, AbstractStutters DEF Goal
  <2> QED BY <1>3, <2>1, <2>2, <2>3, <2>4, <2>5, <2>6, TaskSteps
<1> QED BY <1>2, <1>3

(* One task at a time, an explorer that is not reset serves each command   *)
(* by the accesses it asks for, in order and no other, and reports what    *)
(* became of them; whatever the target does and however the clocks tick.   *)
THEOREM ServesCommands ==
  ASSUME OneTask
  PROVE  Spec => ImplementsCommandEngine
<1>1. Init => Abstract!Init
  <2> SUFFICES ASSUME Init PROVE Abstract!Init
    OBVIOUS
  <2>1. ~shell.busy /\ shell.error = "OK" /\ shell.rdata = {} /\ shell.state = "IDLE"
    BY DEF Init, ShellInit
  <2>2. fired \in Requests /\ Unstaged \in Requests /\ fired = Unstaged
    BY InitTypes DEF Init, Types
  <2>3. ~Serving /\ {} \in Abstract!Words
    BY <2>1 DEF Serving, Abstract!Words
  <2> QED BY <2>1, <2>2, <2>3 DEF Abstract!Init
<1>2. IInv /\ IInv' /\ [Next]_explorerVars => [Abstract!Next]_(Abstract!engineVars)
  BY NextRefines
<1> QED BY <1>1, <1>2, EngineInStep, PTL DEF Spec, ImplementsCommandEngine, Abstract!Spec
=============================================================================
