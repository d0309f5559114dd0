---------------------------- MODULE ExplorerCalls ----------------------------
(***************************************************************************)
(* The host's side of a bus explorer, bus_explorer/driver.py, with its     *)
(* journal and its register map.  Tasks run one call each, at the same     *)
(* time; a call is a list of steps, and every step is a request posted to  *)
(* the bridge and its reply.  The bridge serves requests in the order they *)
(* were posted and replies in that order.  BusExplorer models the gateware *)
(* clock by clock; here it takes commands one by one and, when it has      *)
(* none, reads an enabled slot.  An access it abandons may have been made, *)
(* may be made later or never, and holds the next ones up until it is      *)
(* answered.                                                               *)
(*                                                                         *)
(* A word is the set of its bits that are 1.                               *)
(***************************************************************************)
EXTENDS RegisterMap, FiniteSets

CONSTANTS
  LastAddress,     \* addresses that fit: 0..LastAddress
  Refusing,        \* addresses whose target answers with an error
  Bits, SlotCount,
  Tasks,
  Uses             \* what runs of the system do (see Use in MCExplorerCalls); of it
                   \*   late     addresses whose target may answer too late, or never
                   \*   entries  bound: writes in the journal, begun ones counted

ASSUME SlotsAssumption == SlotCount \in Nat \ {0}

VARIABLES
  use,       \* the use this run makes of the explorer
  engine,    \* gateware: the command engine and the scanner
  target,    \* gateware: the words behind the explored bus
  posted,    \* requests the bridge has not served
  replies,   \* replies no task has been resumed with
  job,       \* the call of each task
  cache,     \* slots, slot_enable, scan_enabled: what the driver remembers
  map,       \* the register map in use, or None
  library,   \* map identifiers and the documents of their files
  journal,
  exported,  \* the recipe the page has: of a file, or the last it was given
  snapshots,
  shown      \* what the last poll answered

(* History.                                                                *)
VARIABLES
  base,      \* what the target may have held when the journal was last empty
  serving,   \* the task whose command was fired, until it is told it is done
  torn       \* a command was fired before the one before was told to be done

gateware == <<engine, target>>
link == <<posted, replies>>
maps == <<map, library>>
record == <<journal, exported, snapshots>>
history == <<base, serving, torn>>
vars == <<use, gateware, link, job, cache, maps, record, shown, history>>

Addresses == 0..LastAddress
Words == SUBSET Bits
Slots == 0..SlotCount-1
Live == Addresses \ Refusing

Merge(old, data, mask) == (old \ mask) \union (data \intersect mask)
----------------------------------------------------------------------------
(* The steps of a call: accesses of the target, and accesses of the        *)
(* engine's own registers.                                                 *)

Access(op, address, wdata, wmask) ==
  [op |-> op, address |-> address, wdata |-> wdata, wmask |-> wmask,
   register |-> None, field |-> None]
Raise == [op |-> "raise"]

Accesses == {"read", "write", "masked-write"}
WrittenOps == {"write", "masked-write"}

(* check_address and check_data, as the steps are reached.                 *)
Checked(steps) ==
  LET bad == SelectInSeq(steps, LAMBDA x :
               ~(x.address \in Addresses /\ x.wdata \subseteq Bits /\ x.wmask \subseteq Bits))
  IN IF bad = 0 THEN steps ELSE Append(SubSeq(steps, 1, bad - 1), Raise)

(* field_write: the map turns the pair into an address and a mask.         *)
FieldValue(f, c) == IF "bits" \in DOMAIN c THEN c.bits ELSE Encode(f, c.name)
FieldSteps(c) ==
  LET r == IF map = None THEN None ELSE RegisterNamed(map.registers, c.register)
      f == IF r = None THEN None ELSE FieldNamed(r, c.field)
      refused == \/ r = None \/ f = None
                 \/ ~Writable(r) \/ ~Writable(f)
                 \/ FieldValue(f, c) = None
                 \/ ~Fits(f, FieldValue(f, c))
  IN IF refused THEN <<Raise>>
     ELSE Checked(<<[op |-> "masked-write", address |-> r.address,
                     wdata |-> Place(f, FieldValue(f, c)), wmask |-> Mask(f),
                     register |-> Qualified(r), field |-> f.name]>>)

Known == {i \in Slots : cache.slots[i] # None}
KnownAddresses == [i \in 1..Cardinality(Known) |-> cache.slots[SetToSortSeq(Known, <)[i]]]

(* Journal.step and steps_of, then replay.                                 *)
RecipeOf(entries) == [i \in DOMAIN entries |->
  [op |-> entries[i].op, address |-> entries[i].address, value |-> entries[i].value,
   mask |-> entries[i].mask]]
Recipe == RecipeOf(journal)
Replayed(steps) ==
  [i \in DOMAIN steps |->
     Access(steps[i].op, steps[i].address, steps[i].value, OrElse(steps[i].mask, {}))]

SlotsRead == <<[op |-> "addresses?"], [op |-> "enable?"]>>

Steps(c) ==
  CASE c.op \in Accesses -> Checked(<<Access(c.op, c.address, c.value, c.mask)>>)
    [] c.op = "field" -> FieldSteps(c)
    [] c.op = "sweep" ->
         Checked([i \in 1..c.count |-> Access("read", c.start + (i - 1) * c.step, {}, {})])
    [] c.op = "snapshot" ->
         IF Known = {} THEN <<Raise>>
         ELSE [i \in DOMAIN KnownAddresses |-> Access("read", KnownAddresses[i], {}, {})]
    [] c.op = "replay" -> Checked(Replayed(exported))
    [] c.op = "slots_set" ->
         <<[op |-> "addresses", first |-> 0, addresses |-> c.addresses],
           [op |-> "enable", mask |-> IF c.enabled THEN 0..Len(c.addresses)-1 ELSE {}]>>
    [] c.op = "slot_set" ->
         <<[op |-> "addresses", first |-> c.slot, addresses |-> <<c.address>>],
           [op |-> "enabled", slot |-> c.slot, on |-> c.enabled]>>
    [] c.op = "slot_enable" -> <<[op |-> "enabled", slot |-> c.slot, on |-> c.enabled]>>
    [] c.op = "slots" -> SlotsRead \o <<[op |-> "status"]>>
    [] c.op = "scan" -> <<[op |-> "scan", on |-> c.enabled]>>
    [] c.op = "poll" -> (IF Known = {} THEN SlotsRead ELSE <<>>) \o <<[op |-> "status"]>>

(* What a step asks of the engine.  One slot is enabled by writing the     *)
(* whole mask, out of the one remembered.                                  *)
SlotMask(slot, on) ==
  IF on THEN cache.slot_enable \union {slot} ELSE cache.slot_enable \ {slot}
Request(x) ==
  CASE x.op \in Accesses -> [op |-> "fire", access |-> x]
    [] x.op = "enabled" -> [op |-> "enable", mask |-> SlotMask(x.slot, x.on)]
    [] OTHER -> x
----------------------------------------------------------------------------
(* The gateware.                                                           *)

Idle == [op |-> "none"]

Programmed(slots, x) ==
  [i \in Slots |-> IF i \in x.first..x.first+Len(x.addresses)-1 THEN x.addresses[i-x.first+1]
                   ELSE slots[i]]

(* The result of a slot read while any slot is programmed is not kept.     *)
Stale(at) == IF at.op = "scan" THEN [at EXCEPT !.stale = TRUE] ELSE at

ServeKeepingFlags(q) ==   \* mutant: a slot stays valid when it is programmed or disabled
  CASE q.op = "fire" ->
         [engine EXCEPT !.staged = q.access, !.pending = TRUE, !.busy = TRUE, !.done = FALSE,
                        !.code = None]
    [] q.op = "enable" -> [engine EXCEPT !.enable = q.mask, !.at = Stale(@)]
    [] q.op = "addresses" -> [engine EXCEPT !.slots = Programmed(@, q), !.at = Stale(@)]
    [] q.op = "scan" -> [engine EXCEPT !.scan = q.on]
    [] OTHER -> engine
Serve(q) ==
  CASE q.op = "fire" ->
         [engine EXCEPT !.staged = q.access, !.pending = TRUE, !.busy = TRUE, !.done = FALSE,
                        !.code = None]
    [] q.op = "enable" ->
         [engine EXCEPT !.enable = q.mask, !.valid = @ \intersect q.mask,
                        !.error = @ \intersect q.mask, !.at = Stale(@)]
    [] q.op = "addresses" ->
         LET written == q.first..q.first+Len(q.addresses)-1
         IN [engine EXCEPT !.slots = Programmed(@, q), !.valid = @ \ written, !.error = @ \ written,
                           !.at = Stale(@)]
    [] q.op = "scan" -> [engine EXCEPT !.scan = q.on]
    [] OTHER -> engine

Reply(q) ==
  CASE q.op = "poll" ->
         [busy |-> engine.busy, done |-> engine.done, code |-> engine.code, rdata |-> engine.rdata]
    [] q.op = "enable" -> [mask |-> q.mask]
    [] q.op = "addresses?" -> [slots |-> engine.slots]
    [] q.op = "enable?" -> [enable |-> engine.enable]
    [] q.op = "status" ->
         [busy |-> engine.busy, done |-> engine.done, code |-> engine.code, scan |-> engine.scan,
          valid |-> engine.valid, error |-> engine.error, result |-> engine.result]
    [] OTHER -> [done |-> TRUE]

CompleteAtOnce(status) == TRUE   \* mutant: the status is not looked at
Complete(status) == status.done /\ ~status.busy

Bridge ==
  /\ posted # <<>>
  /\ LET q == Head(posted)
         reply == Reply(q.request)
         fires == q.request.op = "fire"
     IN /\ engine' = Serve(q.request)
        /\ replies' = Append(replies, [by |-> q.by, reply |-> reply])
        /\ torn' = (torn \/ (fires /\ serving # None))
        /\ serving' = IF fires THEN q.by
                      ELSE IF q.request.op = "poll" /\ serving = q.by /\ Complete(reply) THEN None
                      ELSE serving
  /\ posted' = Tail(posted)
  /\ UNCHANGED <<use, target, job, cache, maps, record, shown, base>>

(* ST_IDLE: the command it was left, as staged, or the read of a slot.     *)
Take ==
  /\ engine.at = Idle /\ engine.pending
  /\ engine' = [engine EXCEPT !.at = engine.staged, !.pending = FALSE]
  /\ UNCHANGED <<use, target, link, job, cache, maps, record, shown, history>>

Scan ==
  /\ engine.at = Idle /\ ~engine.pending /\ engine.scan
  /\ \E i \in engine.enable :
       engine' = [engine EXCEPT !.at = [op |-> "scan", address |-> engine.slots[i], wdata |-> {},
                                        slot |-> i, stale |-> FALSE]]
  /\ UNCHANGED <<use, target, link, job, cache, maps, record, shown, history>>

(* An access on the line to the target: made by it or not yet, and its     *)
(* answer wanted or abandoned.  A masked write begins with a read.         *)
OnLine(x, mine) ==
  [op |-> IF x.op = "write" THEN "write" ELSE "read", address |-> x.address,
   wdata |-> x.wdata, made |-> FALSE, mine |-> mine, word |-> {}]
Made(x) ==
  [x EXCEPT !.made = TRUE, !.word = IF x.address \in Live THEN target[x.address] ELSE {}]
After(x) ==
  IF x.op = "write" /\ x.address \in Live THEN [target EXCEPT ![x.address] = x.wdata] ELSE target

Abandoned == engine.line # None /\ ~engine.line.mine

(* The target makes the access in progress, once none is owed, or the one  *)
(* that was abandoned.                                                     *)
Perform ==
  /\ engine.at # Idle /\ engine.line = None
  /\ LET x == OnLine(engine.at, TRUE)
     IN target' = After(x) /\ engine' = [engine EXCEPT !.line = Made(x)]
  /\ UNCHANGED <<use, link, job, cache, maps, record, shown, history>>

PerformLate ==
  /\ Abandoned /\ ~engine.line.made
  /\ target' = After(engine.line) /\ engine' = [engine EXCEPT !.line = Made(@)]
  /\ UNCHANGED <<use, link, job, cache, maps, record, shown, history>>

(* finish: a scan read only marks its slot.                                *)
Finish(code) ==
  LET x == engine.at
  IN IF x.op = "scan"
     THEN [engine EXCEPT !.at = Idle,
             !.error = IF code # None /\ ~x.stale THEN @ \union {x.slot} ELSE @]
     ELSE [engine EXCEPT !.at = Idle, !.busy = FALSE, !.done = TRUE, !.code = code]

(* ST_WAIT: an answer, kept by what asked for it.  A slot that errors      *)
(* keeps its last good value; a masked write goes on with its write.       *)
Arrive ==
  /\ engine.line # None /\ engine.line.made /\ engine.line.mine
  /\ LET x == engine.at
         word == engine.line.word
         failed == x.address \in Refusing
         ended == Finish(IF failed THEN "slverr" ELSE None)
         kept ==
           CASE x.op = "scan" /\ ~failed /\ ~x.stale ->
                  [ended EXCEPT !.result[x.slot] = word, !.valid = @ \union {x.slot},
                                !.error = @ \ {x.slot}]
             [] x.op = "read" -> [ended EXCEPT !.rdata = word]
             [] x.op = "masked-write" /\ failed -> [ended EXCEPT !.rdata = word]
             [] x.op = "masked-write" /\ ~failed ->
                  [engine EXCEPT !.rdata = word, !.at.op = "write",
                     !.at.wdata = Merge(word, engine.staged.wdata, engine.staged.wmask)]
             [] OTHER -> ended
     IN engine' = [kept EXCEPT !.line = None]
  /\ UNCHANGED <<use, target, link, job, cache, maps, record, shown, history>>

(* The deadline: of an access of its own, which the target may have been   *)
(* given or not, or of the wait for the one before.                        *)
Abandon ==
  /\ engine.at # Idle /\ (Abandoned \/ engine.at.address \in use.late)
  /\ \E left \in IF engine.line = None THEN {None, OnLine(engine.at, FALSE)}
                 ELSE {[engine.line EXCEPT !.mine = FALSE]} :
       engine' = [Finish("timeout") EXCEPT !.line = left]
  /\ UNCHANGED <<use, target, link, job, cache, maps, record, shown, history>>

(* The answer of an abandoned access is dropped, in whatever state.        *)
Drop ==
  /\ Abandoned /\ engine.line.made
  /\ engine' = [engine EXCEPT !.line = None]
  /\ UNCHANGED <<use, target, link, job, cache, maps, record, shown, history>>
----------------------------------------------------------------------------
(* The tasks.                                                              *)

NoJob == [call |-> Idle, steps |-> <<>>, fired |-> FALSE, out |-> <<>>, error |-> None,
          alone |-> TRUE, sole |-> TRUE, was |-> None]

Running(t) == job[t].steps # <<>>
SlotCalls == {"slots_set", "slot_set", "slot_enable", "slots", "poll"}
AtTarget(c) == c.op \notin SlotCalls \union {"scan"}
Written(steps) == Len(SelectSeq(steps, LAMBDA x : x.op \in WrittenOps))

(* What the target holds once the write it was last given is made.         *)
Settled == IF Abandoned /\ ~engine.line.made THEN After(engine.line) ELSE target

Post(t, q) == Append(posted, [by |-> t, request |-> q])

(* A task goes on to its next step, or ends; what its accesses returned    *)
(* stays to be looked at.                                                  *)
Advance(t, done) ==
  LET left == Tail(done.steps)
      ended == left = <<>> \/ Head(left) = Raise \/ done.error # None
  IN /\ job' = [job EXCEPT ![t] =
                  IF ended /\ done.out = <<>> THEN NoJob
                  ELSE [done EXCEPT !.steps = IF ended THEN <<>> ELSE left,
                               !.fired = FALSE,
                               !.error = IF @ = None /\ left # <<>> /\ Head(left) = Raise
                                         THEN "refused" ELSE @]]
     /\ posted' = IF ended THEN posted ELSE Post(t, Request(Head(left)))

Begin(t) ==
  /\ ~Running(t)
  /\ \E c \in use.calls[t] :
       LET steps == Steps(c)
           refused == steps # <<>> /\ Head(steps) = Raise
           others == {u \in Tasks \ {t} : Running(u)}
           slots == {u \in others : job[u].call.op \in SlotCalls}
           begun == [NoJob EXCEPT !.call = c, !.steps = IF refused THEN <<>> ELSE steps,
                                  !.error = IF refused THEN "refused" ELSE None,
                                  !.alone = slots = {},
                                  !.sole = \A u \in others : ~AtTarget(job[u].call),
                                  !.was = [target |-> Settled, map |-> map, recipe |-> exported,
                                           known |-> Known # {}, enable |-> engine.enable]]
           owed == FoldFunction(+, 0, [u \in Tasks |-> Written(job[u].steps)])
       IN /\ Len(journal) + owed + Written(steps) <= use.entries
          /\ job' = [u \in Tasks |->
                       IF u = t THEN begun
                       ELSE [job[u] EXCEPT !.alone = @ /\ ~(u \in slots /\ c.op \in SlotCalls),
                                           !.sole = @ /\ ~(job[u].was # None /\ AtTarget(c))]]
          /\ posted' = IF begun.steps = <<>> THEN posted ELSE Post(t, Request(Head(steps)))
  /\ UNCHANGED <<use, gateware, replies, cache, maps, record, shown, history>>

(* A task is resumed with the reply to what it posted.                     *)
Resumed(t) == replies # <<>> /\ Head(replies).by = t /\ replies' = Tail(replies)
At(t, op) == Running(t) /\ Head(job[t].steps).op = op
Answered == Head(replies).reply

Fired(t) ==
  /\ Resumed(t) /\ Head(job[t].steps).op \in Accesses /\ ~job[t].fired
  /\ job' = [job EXCEPT ![t].fired = TRUE]
  /\ posted' = Post(t, [op |-> "poll"])
  /\ UNCHANGED <<use, gateware, cache, maps, record, shown, history>>

PollAgain(t) ==
  /\ Resumed(t) /\ Head(job[t].steps).op \in Accesses /\ job[t].fired /\ ~Complete(Answered)
  /\ posted' = Post(t, [op |-> "poll"])
  /\ UNCHANGED <<use, gateware, job, cache, maps, record, shown, history>>

NameAt(address) ==
  LET r == IF map = None THEN None ELSE RegisterAt(map.registers, address)
  IN IF r = None THEN None ELSE Qualified(r)

(* Journal.observe: the writes are kept.  Whose write it was is history.   *)
Entry(t, x, code) ==
  [by |-> t, op |-> x.op, address |-> x.address, value |-> x.wdata,
   mask |-> IF x.op = "masked-write" THEN x.wmask ELSE None,
   register |-> OrElse(x.register, NameAt(x.address)), field |-> x.field, error |-> code]
ObserveMaskless(t, x, code) ==   \* mutant: masked writes pass through like reads
  IF x.op = "write" THEN Append(journal, Entry(t, x, code)) ELSE journal
Observe(t, x, code) ==
  IF x.op \in WrittenOps THEN Append(journal, Entry(t, x, code)) ELSE journal

(* A sweep or a snapshot reports an error; any other call raises it.       *)
Tolerant(c) == c.op \in {"sweep", "snapshot"}

SnapshotOf(out) ==
  [values |-> {<<out[i].address, out[i].value>> : i \in {j \in DOMAIN out : out[j].error = None}},
   errors |-> {<<out[i].address, out[i].error>> : i \in {j \in DOMAIN out : out[j].error # None}}]

Observed(t) ==
  /\ Resumed(t) /\ Head(job[t].steps).op \in Accesses /\ job[t].fired /\ Complete(Answered)
  /\ LET x == Head(job[t].steps)
         c == job[t].call
         code == Answered.code
         out == Append(job[t].out, [address |-> x.address, error |-> code,
                                    value |-> IF code = None /\ x.op # "write"
                                             THEN Answered.rdata ELSE None])
     IN /\ journal' = Observe(t, x, code)
        /\ Advance(t, [job[t] EXCEPT !.out = out,
                                     !.error = IF Tolerant(c) THEN None ELSE code])
        /\ snapshots' = IF c.op = "snapshot" /\ Len(job[t].steps) = 1
                        THEN (c.name :> SnapshotOf(out)) @@ snapshots ELSE snapshots
  /\ UNCHANGED <<use, gateware, cache, maps, exported, shown, history>>

Untouched == <<use, gateware, maps, record, history>>

Remembered(slots, x) == Programmed(slots, x)

AddressesWritten(t) ==
  /\ At(t, "addresses") /\ Resumed(t)
  /\ cache' = [cache EXCEPT !.slots = Remembered(@, Head(job[t].steps))]
  /\ Advance(t, job[t])
  /\ UNCHANGED <<Untouched, shown>>

(* slots_enable remembers the mask it wrote.                               *)
EnableWritten(t) ==
  /\ (At(t, "enable") \/ At(t, "enabled")) /\ Resumed(t)
  /\ cache' = [cache EXCEPT !.slot_enable = Answered.mask]
  /\ Advance(t, job[t])
  /\ UNCHANGED <<Untouched, shown>>

ScanWritten(t) ==
  /\ At(t, "scan") /\ Resumed(t)
  /\ cache' = [cache EXCEPT !.scan_enabled = Head(job[t].steps).on]
  /\ Advance(t, job[t])
  /\ UNCHANGED <<Untouched, shown>>

AddressesRead(t) ==
  /\ At(t, "addresses?") /\ Resumed(t)
  /\ cache' = [cache EXCEPT !.slots = Answered.slots]
  /\ Advance(t, job[t])
  /\ UNCHANGED <<Untouched, shown>>

EnableRead(t) ==
  /\ At(t, "enable?") /\ Resumed(t)
  /\ cache' = [cache EXCEPT !.slot_enable = Answered.enable]
  /\ Advance(t, job[t])
  /\ UNCHANGED <<Untouched, shown>>

(* __scan and poll: results are named after the addresses remembered when  *)
(* the burst has arrived.                                                  *)
State(s) ==
  CASE s.busy -> "busy"
    [] ~s.busy /\ ((s.done /\ s.code # None) \/ s.error # {}) -> "error"
    [] OTHER -> IF s.scan THEN "scanning" ELSE "idle"
ShownBySlot(s) ==
  [i \in Slots |-> [address |-> cache.slots[i], enabled |-> i \in cache.slot_enable,
                    valid |-> i \in s.valid, error |-> i \in s.error, value |-> s.result[i]]]

StatusRead(t) ==
  /\ At(t, "status") /\ Resumed(t)
  /\ shown' = [slots |-> ShownBySlot(Answered), state |-> State(Answered)]
  /\ Advance(t, job[t])
  /\ UNCHANGED <<Untouched, cache>>
----------------------------------------------------------------------------
(* diff: what changed between two snapshots; a side that does not hold the *)
(* address is None.                                                        *)
Side(pairs, a) == LET v == {w \in pairs : w[1] = a} IN IF v = {} THEN None ELSE (CHOOSE w \in v : TRUE)[2]
Mentioned(s) == {w[1] : w \in s.values} \union {w[1] : w \in s.errors}
Changed(before, after) ==
  {a \in Mentioned(before) \union Mentioned(after) :
     \/ Side(before.values, a) # Side(after.values, a)
     \/ Side(before.errors, a) # Side(after.errors, a)}
ChangedFields(registers, a, old, new) ==
  LET r == RegisterAt(registers, a)
  IN IF None \in {r, old, new} THEN {}
     ELSE {f.name : f \in {g \in ToSet(r.fields) : Extract(g, old) # Extract(g, new)}}
(* What a write makes of the words of the target; what words a journal     *)
(* explains, out of what was there before: a write that timed out was made *)
(* or not, before any access after it was.                                 *)
Apply(words, x) ==
  IF x.address \notin Live THEN words
  ELSE [words EXCEPT ![x.address] =
          IF x.op = "masked-write" THEN Merge(@, x.value, x.mask) ELSE x.value]
Effect(possible, e) ==
  LET made == {Apply(words, e) : words \in possible}
  IN CASE e.error = None -> made [] e.error = "timeout" -> possible \union made [] OTHER -> possible
Explained(possible, entries) == FoldLeft(Effect, possible, entries)

(* The journal's and the map's own messages, each answered at once; and    *)
(* what other processes do to the library and its files meanwhile.         *)

ClearJournal ==
  /\ use.clears /\ journal # <<>>
  /\ journal' = <<>>
  /\ base' = Explained(base, journal)
  /\ UNCHANGED <<use, gateware, link, job, cache, maps, exported, snapshots, shown, serving, torn>>

ExportRecipe ==
  /\ use.exports /\ exported' = Recipe
  /\ UNCHANGED <<use, gateware, link, job, cache, maps, journal, snapshots, shown, history>>

Loaded(path) == [source |-> path, registers |-> Registers(library.files[path])]
Resolves(id) == library.ids[id] # None /\ Readable(library.files[library.ids[id]])

(* A document that cannot be read raises, and leaves the map as it was.    *)
MapUse ==
  /\ \E id \in use.maps : Resolves(id) /\ map' = Loaded(library.ids[id])
  /\ UNCHANGED <<use, gateware, link, job, cache, library, record, shown, history>>

MapFile ==
  /\ use.maps # {}
  /\ \E path \in DOMAIN library.files :
       Readable(library.files[path]) /\ map' = Loaded(path)
  /\ UNCHANGED <<use, gateware, link, job, cache, library, record, shown, history>>

MapAdd ==
  /\ \E id \in use.maps, path \in DOMAIN library.files :
       Readable(library.files[path]) /\ library' = [library EXCEPT !.ids[id] = path]
  /\ UNCHANGED <<use, gateware, link, job, cache, map, record, shown, history>>

MapRemove ==
  /\ \E id \in use.maps : library.ids[id] # None /\ library' = [library EXCEPT !.ids[id] = None]
  /\ UNCHANGED <<use, gateware, link, job, cache, map, record, shown, history>>

Edit ==
  /\ use.maps # {}
  /\ \E path \in DOMAIN library.files, doc \in use.documents :
       library' = [library EXCEPT !.files[path] = doc]
  /\ UNCHANGED <<use, gateware, link, job, cache, map, record, shown, history>>
----------------------------------------------------------------------------
EmptyStaged == Access("read", 0, {}, {})

(* The driver starts on a gateware that another session has left as it is: *)
(* its slots and their enables are not those of a reset.                   *)
Init ==
  /\ use \in Uses
  /\ target = use.target
  /\ \E enable \in use.enables :
       engine = [staged |-> EmptyStaged, pending |-> FALSE, at |-> Idle, line |-> None,
                 busy |-> FALSE, done |-> FALSE, code |-> None, rdata |-> {}, scan |-> FALSE,
                 enable |-> enable, slots |-> use.slots, valid |-> {}, error |-> {},
                 result |-> [i \in Slots |-> {}]]
  /\ posted = <<>> /\ replies = <<>>
  /\ job = [t \in Tasks |-> NoJob]
  /\ cache = [slots |-> [i \in Slots |-> None], slot_enable |-> {}, scan_enabled |-> FALSE]
  /\ library = [ids |-> [id \in use.maps |-> None], files |-> use.files]
  /\ map = IF use.declared = None THEN None
           ELSE [source |-> "declared", registers |-> Registers(use.declared)]
  /\ journal = <<>> /\ exported = use.recipe /\ snapshots = <<>>
  /\ shown = None
  /\ base = {target} /\ serving = None /\ torn = FALSE

Resume(t) ==
  \/ Fired(t) \/ PollAgain(t) \/ Observed(t)
  \/ AddressesWritten(t) \/ EnableWritten(t) \/ ScanWritten(t)
  \/ AddressesRead(t) \/ EnableRead(t) \/ StatusRead(t)

Next ==
  \/ Bridge
  \/ Take \/ Scan \/ Perform \/ PerformLate \/ Arrive \/ Abandon \/ Drop
  \/ \E t \in Tasks : Begin(t) \/ Resume(t)
  \/ ClearJournal \/ ExportRecipe \/ MapUse \/ MapFile \/ MapAdd \/ MapRemove \/ Edit

Spec == Init /\ [][Next]_vars

----------------------------------------------------------------------------
TypeOK ==
  /\ engine.enable \subseteq Slots /\ engine.valid \subseteq engine.enable
  /\ engine.slots \in [Slots -> Addresses] /\ engine.result \in [Slots -> Words]
  /\ target \in [Live -> Words]
  /\ cache.slot_enable \subseteq Slots
  /\ cache.slots \in [Slots -> Addresses \union {None}]
  /\ Len(journal) <= use.entries
  /\ \A t \in Tasks :
       Running(t) <=> \E i \in DOMAIN (posted \o replies) : (posted \o replies)[i].by = t

(* The journal tells "which writes got me here" (journal.py:3), although   *)
(* it is written after the await of each access and other tasks write in   *)
(* between: what the target holds is explained by the writes the journal   *)
(* holds, then those whose end is on its way to their task, then the one   *)
(* being served, which was made or not; in that order, whoever made them,  *)
(* and whatever timed out and was made all the same.  It is so until a     *)
(* command replaces another that was not told to be done.                  *)
OnTheWay ==
  LET told(r) == job[r.by].fired /\ Complete(r.reply)
      arriving == SelectSeq(replies, told)
      ends == [i \in DOMAIN arriving |->
                 Entry(arriving[i].by, Head(job[arriving[i].by].steps), arriving[i].reply.code)]
      served == IF serving = None THEN <<>>
                ELSE <<Entry(serving, Head(job[serving].steps), "timeout")>>
  IN SelectSeq(ends \o served, LAMBDA e : e.op \in WrittenOps)
JournalIsHistory == ~torn => target \in Explained(base, journal \o OnTheWay)

(* journal.py:1: "every write the host made to the target" is in the       *)
(* journal once nothing is being done, whatever was done at the same time. *)
EveryWriteIsJournalled ==
  (\A t \in Tasks : ~Running(t)) => target \in Explained(base, journal)

(* What a call reports of an address is what the target held there: the    *)
(* value a read returns, a masked write's value before, each line of a     *)
(* sweep or a snapshot, an access that timed out before it included; an    *)
(* error is that of its own address, or a timeout where a target is late.  *)
(* Of a call that was alone at the target.                                 *)
AnswersAreTarget ==
  \A t \in Tasks : \A e \in ToSet(job[t].out) :
    ~torn /\ job[t].sole =>
      /\ \/ e.error = "timeout" /\ use.late # {}
         \/ e.error = IF e.address \in Live THEN None ELSE "slverr"
      /\ e.value # None /\ job[t].call.op # "replay" => e.value = job[t].was.target[e.address]

(* A field written by name changes no other bit of its register and no     *)
(* other register, and reads back as the name that was written, in the map *)
(* it was written with.                                                    *)
FieldWrittenAlone ==
  \A t \in Tasks :
    LET c == job[t].call
    IN (c.op = "field" /\ ~Running(t) /\ job[t].error = None /\ job[t].sole /\ ~torn) =>
         LET r == RegisterNamed(job[t].was.map.registers, c.register)
             f == FieldNamed(r, c.field)
             kept == Bits \ (f.lsb..f.msb)
         IN /\ \A a \in Live \ {r.address} : target[a] = job[t].was.target[a]
            /\ target[r.address] \intersect kept = job[t].was.target[r.address] \intersect kept
            /\ "name" \in DOMAIN c =>
                 Label(f, {b \in 0..f.msb-f.lsb : b + f.lsb \in target[r.address]}) = c.name

(* A recipe drives again what the journal it was taken from held, step by  *)
(* step and in order, up to the step that fails, and is journalled like    *)
(* any other session: whatever other tasks write between its steps, and    *)
(* but for what was cleared.  Replayed to its end with nobody else at the  *)
(* target, it leaves there what its steps make of what it found.           *)
ReplayRepeats ==
  \A t \in Tasks : job[t].call.op = "replay" =>
    LET driven == SubSeq(job[t].was.recipe, 1, Len(job[t].out))
        own == SelectSeq(journal, LAMBDA e : e.by = t)
        LastOf(s, n) == SubSeq(s, Len(s) - n + 1, Len(s))
        n == IF Len(own) < Len(driven) THEN Len(own) ELSE Len(driven)
    IN /\ LastOf(RecipeOf(own), n) = LastOf(driven, n)
       /\ (driven # <<>> /\ ~Running(t) /\ job[t].error = None /\ job[t].sole /\ ~torn) =>
            /\ driven = job[t].was.recipe
            /\ target = FoldLeft(Apply, job[t].was.target, driven)

(* While nobody wrote the target, a slot a poll shows as valid at an       *)
(* address is shown with what is there, whatever was being programmed as   *)
(* the burst was read; one that was programmed but not read is not shown.  *)
PollNamesRightAddress ==
  shown # None =>
    \A i \in Slots :
      LET s == shown.slots[i]
      IN s.valid /\ s.address # None => s.address \in Live /\ s.value = use.target[s.address]

(* When no call is at the slots, what the driver remembers of them is what *)
(* the gateware holds, from the first call that learned or programmed one. *)
CacheMatches ==
  (\A t \in Tasks : Running(t) => job[t].call.op \notin SlotCalls) /\ Known # {} =>
    /\ cache.slot_enable = engine.enable
    /\ \A i \in Known : cache.slots[i] = engine.slots[i]

(* Programming one slot changes the enable of no other, when the driver    *)
(* knew the slots and no other call was at them meanwhile.                 *)
OnlyItsSlot ==
  \A t \in Tasks :
    LET c == job[t].call
    IN (c.op \in {"slot_set", "slot_enable"} /\ job[t].alone /\ job[t].was.known /\ Running(t)) =>
         engine.enable \ {c.slot} = job[t].was.enable \ {c.slot}

(* Every register of a map is at the address its document gives it: the    *)
(* base of its peripheral and its offset in the peripheral that declares   *)
(* it, however long the chain of derivedFrom, and its place in its array.  *)
MapAddresses ==
  \A doc \in Range(library.files) : Readable(doc) =>
    LET ps == doc.peripherals
        origin[i \in DOMAIN ps] ==
          IF "derivedFrom" \notin DOMAIN ps[i] THEN i
          ELSE origin[CHOOSE j \in 1..i-1 : /\ ps[j].name = ps[i].derivedFrom
                                            /\ \A k \in j+1..i-1 : ps[k].name # ps[j].name]
        declared == UNION {{<<i, r, n>> : r \in ToSet(Elements(ps[origin[i]], "registers")), n \in 0..3} :
                             i \in DOMAIN ps}
        expected == {<<ps[d[1]].name, ps[d[1]].baseAddress.means + d[2].addressOffset.means
                         + IF d[3] = 0 THEN 0 ELSE d[3] * d[2].dimIncrement.means>> :
                       d \in {e \in declared : e[3] < IF "dim" \in DOMAIN e[2] THEN e[2].dim.means ELSE 1}}
    IN {<<r.peripheral, r.address>> : r \in ToSet(Registers(doc))} = expected

(* What two snapshots differ in is reported, and nothing else: each field  *)
(* with a bit that changed, and an address that stopped or began to answer.*)
DiffAccounts ==
  \A before, after \in Range(snapshots) :
    LET Of(pairs, a) == {w \in pairs : w[1] = a}
        changed == Changed(before, after)
    IN /\ \A a \in Addresses : a \notin changed <=>
            /\ Of(before.values, a) = Of(after.values, a)
            /\ Of(before.errors, a) = Of(after.errors, a)
       /\ map # None => \A a \in changed :
            LET old == Side(before.values, a)
                new == Side(after.values, a)
                r == RegisterAt(map.registers, a)
            IN None \notin {r, old, new} =>
                 \A f \in ToSet(r.fields) :
                   f.name \in ChangedFields(map.registers, a, old, new)
                     <=> \E b \in f.lsb..f.msb : b \in (old \ new) \union (new \ old)

(* The slots, as the driver remembers, programs and shows them.            *)
SlotsAreKnown == TypeOK /\ CacheMatches /\ OnlyItsSlot /\ PollNamesRightAddress

(* The journal explains the target, and drives it there again.             *)
JournalExplains == JournalIsHistory /\ ReplayRepeats

(* Registers and fields of a map are what its document says, written,      *)
(* addressed and compared.                                                 *)
NamesMean == FieldWrittenAlone /\ MapAddresses /\ DiffAccounts
=============================================================================
