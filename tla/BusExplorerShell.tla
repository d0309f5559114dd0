-------------------------- MODULE BusExplorerShell --------------------------
(***************************************************************************)
(* The host half of the bus explorer, bus_explorer/bus_explorer_shell.vhd: *)
(* the register file, the command engine, the scanner and the timeout.     *)
(* One step of ShellStep is one clock of the main process.  A register     *)
(* write w is applied last, over what the engine does in the same clock.   *)
(*                                                                         *)
(* A target word is the set of its bits that are 1.                        *)
(***************************************************************************)
EXTENDS Integers, Sequences

CONSTANTS
  TargetAddresses,
  Bits,          \* bit positions of a target word
  SlotCount      \* slot_count_c

ASSUME SlotCountAssumption == SlotCount \in Nat \ {0}

VARIABLE shell   \* the registers of the entity, and timeout, its generic timeout_c

Words == SUBSET Bits
Slots == 0..SlotCount-1
Codes == {"OK", "TIMEOUT", "SLVERR", "COMMAND"}

Nothing == [none |-> TRUE]     \* no command or response on a stream

(* Out of reset; a configuration register reads as zero.                   *)
ShellInit(zero, timeout) ==
  [timeout |-> timeout, state |-> "IDLE", timer |-> 0, tag |-> 0, orphan |-> FALSE,
   pending |-> FALSE, pending_op |-> "read", rmw |-> FALSE, scan_op |-> FALSE,
   write_issue |-> FALSE, address_issue |-> zero, wdata_issue |-> {},
   slot_ptr |-> 0, scan_slot |-> 0, scan_stale |-> FALSE,
   address |-> zero, wdata |-> {}, wmask |-> {},
   slot_enable |-> {}, scan_enable |-> FALSE,
   slot_addr |-> [i \in Slots |-> zero],
   busy |-> FALSE, done |-> FALSE, error |-> "OK", rdata |-> {},
   scan_valid |-> {}, scan_error |-> {},
   scan_result |-> [i \in Slots |-> {}]]
----------------------------------------------------------------------------
(* Register writes, at the end of the process.                             *)

NoWrite == [reg |-> "none"]

ClearFlagsOnly(s, slots) ==   \* mutant: a scan read in flight stays valid
  [s EXCEPT !.scan_valid = @ \ slots, !.scan_error = @ \ slots]
ClearSlots(s, slots) ==
  [s EXCEPT !.scan_valid = @ \ slots, !.scan_error = @ \ slots,
            !.scan_stale = TRUE]

(* Taken as busy at once.                                                  *)
WriteCommandOnly(s, op) ==   \* mutant: not busy at once
  [s EXCEPT !.pending = TRUE, !.pending_op = op]
WriteCommand(s, op) ==
  [s EXCEPT !.pending = TRUE, !.pending_op = op,
            !.busy = TRUE, !.done = FALSE, !.error = "OK"]

Write(s, w) ==
  CASE w.reg = "none" -> s
    [] w.reg = "COMMAND" -> WriteCommand(s, w.value)
    [] w.reg = "CONFIG" ->
         [s EXCEPT !.address = w.value.address, !.wdata = w.value.wdata,
                   !.wmask = w.value.wmask]
    [] w.reg = "SLOT_ENABLE" ->
         [ClearSlots(s, Slots \ w.value) EXCEPT !.slot_enable = w.value]
    [] w.reg = "SCAN_CTRL" -> [s EXCEPT !.scan_enable = w.value]
    [] w.reg = "SLOT_ADDR" ->
         [ClearSlots(s, {w.slot}) EXCEPT !.slot_addr[w.slot] = w.value]
----------------------------------------------------------------------------
(* Helpers of the engine.                                                  *)

NoTick(s) == s   \* mutant
Tick(s) == [s EXCEPT !.timer = IF @ > 0 THEN @ - 1 ELSE 0]
Restart(s) == [s EXCEPT !.timer = s.timeout]

(* A scan read only marks its slot; the status bits describe commands.     *)
Finish(s, code) ==
  IF s.scan_op
  THEN [s EXCEPT !.state = "IDLE",
                 !.scan_error = IF code # "OK" /\ ~s.scan_stale
                                THEN @ \union {s.scan_slot} ELSE @]
  ELSE [s EXCEPT !.state = "IDLE", !.busy = FALSE, !.done = TRUE, !.error = code]

StartAccess(s) ==
  Restart([s EXCEPT !.state = IF s.orphan THEN "DRAIN" ELSE "ISSUE"])

(* An access given up is waited for, and the next one takes the other tag. *)
DisownNothing(s) == s   \* mutant
Disown(s) == [s EXCEPT !.orphan = TRUE, !.tag = 1 - @]

(* An answer that arrives in IDLE is the abandoned access's, and drops it. *)
Drop(s, r) == [s EXCEPT !.orphan = @ /\ r = Nothing]

(* Round-robin: the first enabled slot after the last one served.          *)
NextSlot(s) ==
  LET After(i) == (s.slot_ptr + i) % SlotCount
      nearest == CHOOSE i \in 1..SlotCount :
                   /\ After(i) \in s.slot_enable
                   /\ \A j \in 1..i-1 : After(j) \notin s.slot_enable
  IN After(nearest)

MergeInverted(old, data, mask) ==   \* mutant
  (old \intersect mask) \union (data \ mask)
Merge(old, data, mask) == (old \ mask) \union (data \intersect mask)

(* The parameters of a command, latched from the configuration registers.  *)
Latch(s) ==
  [s EXCEPT !.pending = FALSE, !.scan_op = FALSE,
            !.address_issue = s.address, !.wdata_issue = s.wdata]

Scans(s) == ~s.pending /\ s.scan_enable /\ s.slot_enable # {}
Answered(s, r) == r # Nothing /\ r.tag = s.tag
----------------------------------------------------------------------------
(* One action per branch of the engine.  ready is command_ready_i, r the   *)
(* answer on the response stream or Nothing; answers are always accepted.  *)

Rest(w, r) ==
  /\ shell.state = "IDLE" /\ ~shell.pending /\ ~Scans(shell)
  /\ shell' = Write(Drop(Tick(shell), r), w)

Take(w, r) ==
  /\ shell.state = "IDLE" /\ shell.pending /\ shell.pending_op # "reserved"
  /\ LET s == Drop(Tick(shell), r)
     IN shell' = Write(StartAccess(
          [Latch(s) EXCEPT !.write_issue = s.pending_op = "write",
                           !.rmw = s.pending_op = "masked"]), w)

Refuse(w, r) ==
  /\ shell.state = "IDLE" /\ shell.pending /\ shell.pending_op = "reserved"
  /\ shell' = Write([Latch(Drop(Tick(shell), r)) EXCEPT
                       !.busy = FALSE, !.done = TRUE, !.error = "COMMAND"], w)

Scan(w, r) ==
  /\ shell.state = "IDLE" /\ Scans(shell)
  /\ LET s == Drop(Tick(shell), r)
         i == NextSlot(s)
     IN shell' = Write(StartAccess(
          [s EXCEPT !.slot_ptr = i, !.scan_slot = i, !.scan_stale = FALSE,
                    !.scan_op = TRUE, !.rmw = FALSE, !.write_issue = FALSE,
                    !.address_issue = s.slot_addr[i]]), w)

Drain(w, r) ==
  /\ shell.state = "DRAIN" /\ r = Nothing /\ shell.timer > 0
  /\ shell' = Write(Tick(shell), w)

Drained(w, r) ==
  /\ shell.state = "DRAIN" /\ r # Nothing
  /\ shell' = Write(StartAccess([shell EXCEPT !.orphan = FALSE]), w)

DrainTimeout(w, r) ==
  /\ shell.state = "DRAIN" /\ r = Nothing /\ shell.timer = 0
  /\ shell' = Write(Finish(shell, "TIMEOUT"), w)

Offer(w, ready) ==
  /\ shell.state = "ISSUE" /\ ~ready /\ shell.timer > 0
  /\ shell' = Write(Tick(shell), w)

Issued(w, ready) ==
  /\ shell.state = "ISSUE" /\ ready
  /\ shell' = Write(Restart([shell EXCEPT !.state = "WAIT"]), w)

IssueTimeout(w, ready) ==
  /\ shell.state = "ISSUE" /\ ~ready /\ shell.timer = 0
  /\ shell' = Write(Finish(shell, "TIMEOUT"), w)

Await(w, r) ==
  /\ shell.state = "WAIT" /\ ~Answered(shell, r) /\ shell.timer > 0
  /\ shell' = Write(Tick(shell), w)

(* A slot that errors keeps its last good value.                           *)
AnswerScan(w, r) ==
  /\ shell.state = "WAIT" /\ Answered(shell, r) /\ shell.scan_op
  /\ LET s == [Tick(shell) EXCEPT !.state = "IDLE"]
         i == s.scan_slot
     IN shell' = Write(
          IF s.scan_stale THEN s
          ELSE IF r.error THEN [s EXCEPT !.scan_error = @ \union {i}]
          ELSE [s EXCEPT !.scan_result[i] = r.rdata,
                         !.scan_valid = @ \union {i}, !.scan_error = @ \ {i}], w)

(* The read of a masked write: its write is issued at once.                *)
AnswerMasked(w, r) ==
  /\ shell.state = "WAIT" /\ Answered(shell, r) /\ ~shell.scan_op /\ shell.rmw
  /\ LET s == [Tick(shell) EXCEPT !.rdata = r.rdata]
     IN shell' = Write(
          IF r.error THEN Finish(s, "SLVERR")
          ELSE Restart([s EXCEPT !.rmw = FALSE, !.write_issue = TRUE,
                                 !.wdata_issue = Merge(r.rdata, s.wdata, s.wmask),
                                 !.state = "ISSUE"]), w)

Answer(w, r) ==
  /\ shell.state = "WAIT" /\ Answered(shell, r) /\ ~shell.scan_op /\ ~shell.rmw
  /\ LET s == [Tick(shell) EXCEPT !.rdata = IF shell.write_issue THEN @ ELSE r.rdata]
     IN shell' = Write(Finish(s, IF r.error THEN "SLVERR" ELSE "OK"), w)

Abandon(w, r) ==
  /\ shell.state = "WAIT" /\ ~Answered(shell, r) /\ shell.timer = 0
  /\ shell' = Write(Finish(Disown(shell), "TIMEOUT"), w)

ShellStep(w, ready, r) ==
  \/ Rest(w, r) \/ Take(w, r) \/ Refuse(w, r) \/ Scan(w, r)
  \/ Drain(w, r) \/ Drained(w, r) \/ DrainTimeout(w, r)
  \/ Offer(w, ready) \/ Issued(w, ready) \/ IssueTimeout(w, ready)
  \/ Await(w, r) \/ AnswerScan(w, r) \/ AnswerMasked(w, r)
  \/ Answer(w, r) \/ Abandon(w, r)

(* What the registers may hold, and what is written to them.               *)
Operations == {"read", "write", "masked", "reserved"}
Requests == [op : Operations, address : TargetAddresses, wdata : Words, wmask : Words]

Registers ==
  [timeout : Nat, state : {"IDLE", "DRAIN", "ISSUE", "WAIT"}, timer : Nat, tag : {0, 1},
   orphan : BOOLEAN, pending : BOOLEAN, pending_op : Operations, rmw : BOOLEAN,
   scan_op : BOOLEAN, write_issue : BOOLEAN, address_issue : TargetAddresses,
   wdata_issue : Words, slot_ptr : Slots, scan_slot : Slots, scan_stale : BOOLEAN,
   address : TargetAddresses, wdata : Words, wmask : Words, slot_enable : SUBSET Slots,
   scan_enable : BOOLEAN, slot_addr : [Slots -> TargetAddresses], busy : BOOLEAN,
   done : BOOLEAN, error : Codes, rdata : Words, scan_valid : SUBSET Slots,
   scan_error : SUBSET Slots, scan_result : [Slots -> Words]]

ScanWrites ==
  [reg : {"SLOT_ENABLE"}, value : SUBSET Slots] \union [reg : {"SCAN_CTRL"}, value : BOOLEAN]
  \union [reg : {"SLOT_ADDR"}, slot : Slots, value : TargetAddresses]
RegisterWrites ==
  {NoWrite} \union ScanWrites
  \union [reg : {"COMMAND"}, value : Operations] \union [reg : {"CONFIG"}, value : Requests]

(* command_o, while command_valid_o.                                       *)
Command ==
  [write |-> shell.write_issue, tag |-> shell.tag,
   address |-> shell.address_issue, wdata |-> shell.wdata_issue]
============================================================================
