---------------------------- MODULE GroupCapture ----------------------------
(***************************************************************************)
(* A correlated group of capture domains and the host that arms, polls and *)
(* reads it: la/driver.py over the capture controls of la/blocks/control,  *)
(* with the trigger wiring of la/generator/topology.py underneath.         *)
(* CaptureWindows and RleCapture model the capture cores clock by clock;   *)
(* here a core is armed, ready, capturing or idle, a fire of the trigger   *)
(* is a number, and what a window holds is the fire that closed it.        *)
(*                                                                         *)
(* Tasks run one call each, at the same time.  A call is a list of steps,  *)
(* an access of the link and its answer, and what it computes in between   *)
(* belongs to the step before.  An access takes longer than a crossing.    *)
(***************************************************************************)
EXTENDS GroupPlan

CONSTANTS
  Uses,      \* what runs of the system do: see Use in MCGroupCapture
  Tasks,
  TimeScale, \* ticks of a composed trace in a unit of time
  MaxFires   \* bound: times the trigger condition is seen

VARIABLES
  use,     \* the members of the group and the calls made of it
  core,    \* gateware: the capture core of each member
  regs,    \* gateware: its configuration registers
  seen,    \* gateware: its ready line, as the trigger block has it
  ticks,   \* gateware: fires on their way to it
  fires,   \* gateware: the fires of the trigger so far
  fired,   \* gateware: it fired, and its enable did not drop since
  fetch,   \* FetchProgress of each member, and of the group (0)
  host,    \* each control's own record: the ring depth, the last trigger flag
  armed,   \* armed_window, armed_plan, armed_overrides
  job,     \* the call of each task, or Idle
  outcome, \* the call the last step ended, or None
  left,    \* the calls each task may still make, and the failures to come
  orderly  \* history: the last group arm ran alone and to its end

vars == <<use, core, regs, seen, ticks, fires, fired, fetch, host, armed, job, outcome, left, orderly>>

Members == DOMAIN use.members
M(i) == use.members[i]
Most(a, b) == IF a < b THEN b ELSE a

(* What the description of a group and the calls made of it are.  A read   *)
(* asks for windows the member has, of a sample at least.  None is what is *)
(* not there: no fire has it for its number.                               *)
IsSequence(s) == s \in Seq({s[k] : k \in DOMAIN s})
MemberOK(m) ==
  /\ m.rle \in BOOLEAN /\ m.crossed \in BOOLEAN
  /\ m.depth \in Nat \ {0} /\ m.spw \in Nat \ {0} /\ m.wps \in Nat \ {0}
  /\ ~m.rle => m.max_windows \in Nat \ {0}
Readable(m, p) == ~m.rle => p.count \in Nat \ {0} /\ p.windows \in 0..m.max_windows

Calls(u, ops) == {c \in UNION {u.calls[t] : t \in Tasks} : c.op \in ops}
Arms(u) == Calls(u, {"arm", "capture"})
Taken == [u \in Uses |->
  {c \in Arms(u) :
     LET w == Merged(DefaultWindow, c.fields)
     IN /\ ~PlanRefused(w, u.members, c.overrides)
        /\ \A i \in DOMAIN u.members : ValidCapture(u.members[i], Plan(w, u.members, c.overrides)[i])}]
WindowsRead(u, c) ==
  {<<Merged(DefaultWindow, c.fields), c.overrides>>}
  \union {<<Merged(Merged(DefaultWindow, a.fields), c.fields),
            IF c.overrides = <<>> THEN a.overrides ELSE c.overrides>> : a \in Taken[u]}
UseOK(u) ==
  /\ IsSequence(u.members) /\ u.members # <<>> /\ \A i \in DOMAIN u.members : MemberOK(u.members[i])
  /\ u.max_burst \in Nat \ {0}
  /\ \A c \in Arms(u) :
       LET w == Merged(DefaultWindow, c.fields)
       IN ~PlanRefused(w, u.members, c.overrides) =>
            /\ w.windows \in Int
            /\ \A i \in DOMAIN u.members : ~u.members[i].rle => Plan(w, u.members, c.overrides)[i].count \in Int
  /\ \A c \in Calls(u, {"read"}) : \A r \in WindowsRead(u, c) :
       ~PlanRefused(r[1], u.members, r[2]) =>
         \A i \in DOMAIN u.members : Readable(u.members[i], Plan(r[1], u.members, r[2])[i])
  /\ \A c \in Calls(u, {"own"}) : c.m \in DOMAIN u.members /\ Readable(u.members[c.m], c.params)

ASSUME GroupAssumption ==
  /\ IsFiniteSet(Tasks) /\ MaxFires \in Nat
  /\ \A u \in Uses : UseOK(u)
  /\ None \notin Nat
----------------------------------------------------------------------------
(* The gateware.                                                           *)

(* A slot being written no longer holds the window it held.                *)
Opened(kept, base, count) ==
  [w \in DOMAIN kept |->
     IF kept[w].base < base + count /\ base < kept[w].base + kept[w].count
     THEN [kept[w] EXCEPT !.shot = None] ELSE kept[w]]

Arm(i, c) ==
  IF c.mode # "idle" THEN c
  ELSE [c EXCEPT !.mode = "armed", !.full = FALSE, !.run = regs[i], !.window = 0, !.shot = None,
                 !.triggered = FALSE, !.end = IF M(i).rle THEN 1 ELSE @,
                 !.kept = IF M(i).rle THEN [@ EXCEPT ![1].shot = None] ELSE Opened(@, 0, regs[i].count)]

Abort(c) == [c EXCEPT !.mode = "idle", !.shot = None]

(* The tick of a fire reaches a core.                                      *)
Accept(i, c, shot) ==
  IF M(i).rle /\ c.mode = "armed"
  THEN [c EXCEPT !.mode = "capturing", !.triggered = TRUE, !.shot = shot, !.end = c.run.pre_lines + 1]
  ELSE IF ~M(i).rle /\ c.mode = "armed" /\ c.full
  THEN [c EXCEPT !.mode = "capturing", !.triggered = TRUE, !.shot = shot,
                 !.kept[c.window + 1] = [base |-> c.window * c.run.count, count |-> c.run.count, shot |-> None,
                                         head |-> c.window * c.run.count + (shot % c.run.count)]]
  ELSE c

Ready(c) == c.mode = "armed" /\ c.full

(* The enable of the trigger: the ready lines of every core it fires.      *)
EnabledByOne == \E i \in Members : IF M(i).crossed THEN seen[i] ELSE Ready(core[i])   \* mutant
Enabled == \A i \in Members : IF M(i).crossed THEN seen[i] ELSE Ready(core[i])

(* The context is in; from then on a ring rolls, its pointer anywhere.     *)
Fill(i) ==
  /\ core[i].mode = "armed" /\ ~core[i].full
  /\ \E end \in IF M(i).rle THEN 1..Most(1, core[i].run.pre_lines) ELSE {core[i].end} :
       core' = [core EXCEPT ![i].full = TRUE, ![i].end = end]
  /\ UNCHANGED <<use, regs, seen, ticks, fires, fetch, host, armed, job, left, orderly>>

See(i) ==
  /\ M(i).crossed /\ seen[i] # Ready(core[i])
  /\ seen' = [seen EXCEPT ![i] = ~@]
  /\ UNCHANGED <<use, core, regs, ticks, fires, fetch, host, armed, job, left, orderly>>

Fire ==
  /\ Enabled /\ ~fired /\ fires < MaxFires
  /\ fires' = fires + 1
  /\ core' = [i \in Members |-> IF M(i).crossed THEN core[i] ELSE Accept(i, core[i], fires + 1)]
  /\ ticks' = [i \in Members |-> IF M(i).crossed THEN Append(ticks[i], fires + 1) ELSE ticks[i]]
  /\ UNCHANGED <<use, regs, seen, fetch, host, armed, job, left, orderly>>

Tick(i) ==
  /\ ticks[i] # <<>>
  /\ core' = [core EXCEPT ![i] = Accept(i, @, Head(ticks[i]))]
  /\ ticks' = [ticks EXCEPT ![i] = Tail(@)]
  /\ UNCHANGED <<use, regs, seen, fires, fetch, host, armed, job, left, orderly>>

(* A raw window is complete: the next one opens, or the core rests.  A     *)
(* run-length capture met its cap, or the end of its buffer.               *)
CompleteRaw(i) ==
  /\ core[i].mode = "capturing" /\ ~M(i).rle
  /\ LET c == core[i]
         n == c.window + 1
         kept == [c.kept EXCEPT ![n].shot = c.shot]
     IN core' = [core EXCEPT ![i] =
          IF n = c.run.windows THEN [c EXCEPT !.mode = "idle", !.window = n, !.kept = kept, !.shot = None]
          ELSE [c EXCEPT !.mode = "armed", !.full = FALSE, !.window = n, !.shot = None,
                         !.kept = Opened(kept, n * c.run.count, c.run.count)]]
  /\ UNCHANGED <<use, regs, seen, ticks, fires, fetch, host, armed, job, left, orderly>>

CompleteRle(i) ==
  /\ core[i].mode = "capturing" /\ M(i).rle
  /\ \E end \in core[i].end..Least(core[i].end + 1, M(i).depth) :
       core' = [core EXCEPT ![i].mode = "idle", ![i].shot = None, ![i].window = 1,
                            ![i].end = end, ![i].kept[1].shot = core[i].shot]
  /\ UNCHANGED <<use, regs, seen, ticks, fires, fetch, host, armed, job, left, orderly>>

Settled == \A i \in Members : ticks[i] = <<>> /\ (M(i).crossed => seen[i] = Ready(core[i]))
----------------------------------------------------------------------------
(* FetchProgress.                                                          *)

BeginOf(f) == IF f.depth = 0 THEN [total |-> 0, done |-> 0, depth |-> 1] ELSE [f EXCEPT !.depth = @ + 1]
EndOf(f, times) == [f EXCEPT !.depth = @ - times]
Started(fs, ids) == [x \in DOMAIN fs |-> IF x \in ids THEN BeginOf(fs[x]) ELSE fs[x]]

Expected(fs, m, words) == [fs EXCEPT ![m].total = @ + words]

(* The finally clauses a call is inside of, when it ends or raises.        *)
FirstClosed(fs, open) == IF open = <<>> THEN fs ELSE [fs EXCEPT ![Last(open)] = EndOf(@, 1)]   \* mutant
Times(open, x) == Cardinality({k \in DOMAIN open : open[k] = x})
Closed(fs, open) == [x \in DOMAIN fs |-> EndOf(fs[x], Times(open, x))]

Snapshot(f) == [done |-> f.done, total |-> f.total]
Merge(parts, total) ==
  LET Sum(field) == FoldLeft(+, 0, [k \in DOMAIN parts |-> parts[k][field]])
  IN [done |-> Sum("done"), total |-> IF total # 0 THEN total ELSE Sum("total")]
----------------------------------------------------------------------------
(* The steps of a call.                                                    *)

All(op) == [i \in Members |-> [op |-> op, m |-> i]]

(* A member's parameters are validated as it is reached, and a refusal     *)
(* leaves the members before it armed.                                     *)
Valid(plan, i) == ValidCapture(M(i), plan[i])
ArmSteps(plan) ==
  LET wrong == {i \in Members : ~Valid(plan, i)}
      Configuring(n) == [k \in 1..2 * n |->
        IF k % 2 = 0 THEN [op |-> "arm", m |-> k \div 2]
        ELSE [op |-> "configure", m |-> (k + 1) \div 2, params |-> plan[(k + 1) \div 2]]]
  IN IF wrong = {} THEN Configuring(Len(use.members))
     ELSE Append(Configuring(Smallest(wrong) - 1), [op |-> "raise"])

(* plan_for_read: the armed plan, or the armed window refined.             *)
Reused(c) == DOMAIN c.fields = {} /\ c.overrides = <<>>
WindowOf(c) ==
  IF c.op = "read" /\ armed # None THEN Merged(armed.window, c.fields) ELSE Merged(DefaultWindow, c.fields)
OverridesOf(c) ==
  IF c.op = "read" /\ c.overrides = <<>> /\ armed # None THEN armed.overrides ELSE c.overrides
ReadPlan(c) ==
  IF Reused(c) THEN IF armed = None THEN None ELSE armed.plan
  ELSE IF PlanRefused(WindowOf(c), use.members, OverridesOf(c)) THEN None
  ELSE Plan(WindowOf(c), use.members, OverridesOf(c))

Rest == \A i \in Members : core[i].mode = "idle"

(* The counters of a group read: the group's, and every member's.          *)
GroupOpen == [k \in 1..Len(use.members) + 1 |-> k - 1]
Reading(j, plan) ==
  [j EXCEPT !.open = GroupOpen, !.plan = plan, !.got = <<>>, !.words = 0,
            !.rest = Rest, !.todo = All("size") \o All("heads")]

(* What of the windows a read can tell: each head is taken to be in a slot *)
(* of the length being read.                                               *)
Heads(i, windows) == [w \in 1..windows |-> core[i].kept[w].head]
Regions(i, p) ==
  IF M(i).rle THEN RleRegions(host[i].pre_lines, core[i].end)
  ELSE RawRegions(Heads(i, p.windows), p.count)
Shots(i, p) ==
  IF M(i).rle THEN <<core[i].kept[1].shot>>
  ELSE [w \in 1..p.windows |->
     LET k == core[i].kept[w] IN IF Slot(k.head, p.count) = k.base /\ p.count = k.count THEN k.shot ELSE None]

(* The runs decoded: the ring's, then the post region's; dwells vary.      *)
RunsOf(i) ==
  LET ring == IF host[i].pre_lines # 0 /\ core[i].full THEN core[i].run.pre_lines ELSE 0
  IN [dwells |-> [k \in 1..(ring + Most(0, core[i].end - host[i].pre_lines)) |-> 1 + (k % 2)], ring |-> ring]
TraceOf(i, p) ==
  LET period == IF M(i).rate = 0 THEN 0 ELSE TimeScale \div M(i).rate
  IN IF M(i).rle
     THEN [period |-> period, runs |-> RunsOf(i).dwells, trigger_run |-> RunsOf(i).ring, latency |-> M(i).latency]
     ELSE [period |-> period, windows |-> [w \in 1..p.windows |-> p.count], trigger |-> p.pretrigger]

Ending(j, end, value) ==
  [call |-> j.call, end |-> end, alone |-> j.alone, whole |-> j.whole, rest |-> j.rest,
   fresh |-> j.fresh, value |-> value]

(* The task goes on with j, or its call ends.  A call that begins, unless  *)
(* it is a poll, spoils the aloneness of the others.                       *)
Idle == [todo |-> <<>>, open |-> <<>>]
Busy(t) == job[t].todo # <<>>
Quiet(c) == c.op = "poll"
Jobs(t, c) ==
  [u \in Tasks |-> IF Busy(t) \/ Quiet(c) \/ ~Busy(u) THEN job[u] ELSE [job[u] EXCEPT !.alone = FALSE]]
Goes(t, j) == /\ job' = [Jobs(t, j.call) EXCEPT ![t] = j]
              /\ outcome' = None
Ends(t, j, end, value) == /\ job' = [Jobs(t, j.call) EXCEPT ![t] = Idle]
                          /\ outcome' = Ending(j, end, value)

(* Members whose readback is in flight answer a poll from host memory, at  *)
(* once.                                                                   *)
FromMemory(i, fs) == [state |-> "reading", triggered |-> host[i].triggered, fetch |-> Snapshot(fs[i])]
Answered(j, fs) ==
  LET asked == {k \in DOMAIN j.todo : fs[j.todo[k].m].depth = 0}
      n == IF asked = {} THEN Len(j.todo) ELSE Smallest(asked) - 1
  IN [j EXCEPT !.got = @ \o [k \in 1..n |-> FromMemory(j.todo[k].m, fs)], !.todo = SubSeq(@, n + 1, Len(@))]

Rank == [s \in {"idle", "armed", "capturing", "reading"} |->
           CASE s = "idle" -> 0 [] s = "armed" -> 1 [] s = "capturing" -> 2 [] OTHER -> 3]
ComposeLaziest(states) == CHOOSE s \in states : \A o \in states : Rank[s] <= Rank[o]   \* mutant
Compose(states) == CHOOSE s \in states : \A o \in states : Rank[o] <= Rank[s]
PolledFirst(polls, fs) ==   \* mutant: the first member speaks for the group
  [state |-> polls[1].state, triggered |-> polls[1].triggered, fetch |-> polls[1].fetch]
Polled(polls, fs) ==
  LET fetches == SelectSeq([k \in DOMAIN polls |-> polls[k].fetch], LAMBDA f : f # None)
      triggered == \A k \in DOMAIN polls : polls[k].triggered
  IN IF fetches # <<>>
     THEN [state |-> "reading", triggered |-> triggered,
           fetch |-> Merge(fetches, IF fs[0].depth > 0 THEN fs[0].total ELSE 0)]
     ELSE [state |-> Compose({polls[k].state : k \in DOMAIN polls}), triggered |-> triggered, fetch |-> None]

PollGoes(t, j) ==
  LET answered == Answered(j, fetch) IN
  IF answered.todo = <<>> THEN Ends(t, answered, "done", Polled(answered.got, fetch)) ELSE Goes(t, answered)
----------------------------------------------------------------------------
(* A call begins.                                                          *)

Call(c) ==
  [call |-> c, todo |-> <<>>, open |-> <<>>, plan |-> None, window |-> None, got |-> <<>>, words |-> 0,
   tries |-> 0, alone |-> TRUE, whole |-> FALSE, rest |-> FALSE, fresh |-> Rest, during |-> FALSE]

Whole ==
  /\ orderly
  /\ \A i \in Members : /\ core[i].mode = "idle" /\ core[i].triggered
                        /\ core[i].window = IF M(i).rle THEN 1 ELSE core[i].run.windows

BeginArm(t, c, j) ==
  /\ c.op \in {"arm", "capture"}
  /\ LET window == WindowOf(c)
     IN IF PlanRefused(window, use.members, c.overrides)
        THEN Ends(t, j, "refused", None) /\ UNCHANGED orderly
        ELSE LET plan == Plan(window, use.members, c.overrides)
                 steps == ArmSteps(plan)
             IN IF steps[1].op = "raise" THEN Ends(t, j, "raised", plan) /\ UNCHANGED orderly
                ELSE /\ Goes(t, [j EXCEPT !.todo = steps, !.plan = plan, !.window = window, !.tries = use.tries])
                     /\ orderly' = FALSE
  /\ UNCHANGED fetch

BeginAbort(t, c, j) ==
  /\ c.op = "abort"
  /\ Goes(t, [j EXCEPT !.todo = All("abort")])
  /\ orderly' = FALSE /\ UNCHANGED fetch

BeginPoll(t, c, j) ==
  /\ c.op = "poll"
  /\ PollGoes(t, [j EXCEPT !.todo = All("poll"), !.during = fetch[0].depth > 0])
  /\ UNCHANGED <<fetch, orderly>>

BeginRead(t, c, j) ==
  /\ c.op = "read"
  /\ IF ReadPlan(c) = None THEN Ends(t, j, "refused", None) /\ UNCHANGED fetch
     ELSE /\ Goes(t, Reading([j EXCEPT !.whole = Whole /\ Reused(c)], ReadPlan(c)))
          /\ fetch' = Started(fetch, DOMAIN fetch)
  /\ UNCHANGED orderly

(* A member read on its own.                                               *)
BeginOwnRead(t, c, j) ==
  /\ c.op = "own"
  /\ Goes(t, [j EXCEPT !.open = <<c.m>>, !.todo = <<[op |-> "heads", m |-> c.m]>>,
                       !.plan = [i \in Members |-> c.params]])
  /\ fetch' = Started(fetch, {c.m}) /\ UNCHANGED orderly

Begin(t, c) ==
  /\ ~Busy(t) /\ left.calls > 0
  /\ LET j == [Call(c) EXCEPT !.alone = \A u \in Tasks \ {t} : Busy(u) => Quiet(job[u].call)]
     IN \/ BeginArm(t, c, j)
        \/ BeginAbort(t, c, j)
        \/ BeginPoll(t, c, j)
        \/ BeginRead(t, c, j)
        \/ BeginOwnRead(t, c, j)
  /\ left' = [left EXCEPT !.calls = @ - 1]
  /\ UNCHANGED <<use, core, regs, seen, ticks, fires, host, armed>>
----------------------------------------------------------------------------
(* A step: an access of the link, its answer, and what follows.            *)

Now(t, op) == Settled /\ Busy(t) /\ Head(job[t].todo).op = op
Advanced(t) == [job[t] EXCEPT !.todo = Tail(@)]

Configure(t) ==
  /\ Now(t, "configure")
  /\ LET s == Head(job[t].todo)
     IN /\ regs' = [regs EXCEPT ![s.m] = s.params]
        /\ host' = [host EXCEPT ![s.m].pre_lines = IF M(s.m).rle THEN s.params.pre_lines ELSE @]
  /\ Goes(t, Advanced(t))
  /\ UNCHANGED <<use, core, seen, ticks, fires, fetch, armed, left, orderly>>

(* The last member is armed: the plan is remembered; capture then waits    *)
(* for idle.  The next member is refused: nothing is remembered.           *)
Remember(j) == [window |-> j.window, plan |-> j.plan, overrides |-> j.call.overrides]
ArmMember(t) ==
  /\ Now(t, "arm")
  /\ LET j == Advanced(t)
         m == Head(job[t].todo).m
     IN /\ core' = [core EXCEPT ![m] = Arm(m, @)]
        /\ IF j.todo = <<>>
           THEN /\ armed' = Remember(j) /\ orderly' = (j.alone /\ j.fresh)
                /\ IF j.call.op = "capture" THEN Goes(t, [j EXCEPT !.todo = All("status")])
                   ELSE Ends(t, j, "done", j.plan)
           ELSE /\ UNCHANGED <<armed, orderly>>
                /\ IF Head(j.todo).op = "raise" THEN Ends(t, j, "raised", j.plan) ELSE Goes(t, j)
  /\ UNCHANGED <<use, regs, seen, ticks, fires, fetch, host, left>>

(* status: capture's loop.  All idle, the group is read; out of tries, it  *)
(* is aborted first.                                                       *)
ReadStatus(t) ==
  /\ Now(t, "status")
  /\ LET c == core[Head(job[t].todo).m]
         j == [Advanced(t) EXCEPT !.got = Append(@, [state |-> c.mode, triggered |-> c.triggered])]
         idle == Compose({j.got[k].state : k \in DOMAIN j.got}) = "idle"
     IN IF j.todo # <<>> THEN Goes(t, j) /\ UNCHANGED fetch
        ELSE IF idle
        THEN /\ Goes(t, Reading([j EXCEPT !.whole = \A k \in DOMAIN j.got : j.got[k].triggered], armed.plan))
             /\ fetch' = Started(fetch, DOMAIN fetch)
        ELSE /\ Goes(t, [j EXCEPT !.got = <<>>, !.tries = @ - 1,
                                  !.todo = IF j.tries > 1 THEN All("status") ELSE All("abort")])
             /\ UNCHANGED fetch
  /\ UNCHANGED <<use, core, regs, seen, ticks, fires, host, armed, left, orderly>>

AbortMember(t) ==
  /\ Now(t, "abort")
  /\ LET j == Advanced(t)
     IN /\ core' = [core EXCEPT ![Head(job[t].todo).m] = Abort(@)]
        /\ IF j.todo # <<>> THEN Goes(t, j) /\ UNCHANGED fetch
           ELSE IF j.call.op = "capture"
           THEN Goes(t, Reading(j, armed.plan)) /\ fetch' = Started(fetch, DOMAIN fetch)
           ELSE Ends(t, j, "done", None) /\ UNCHANGED fetch
  /\ orderly' = FALSE
  /\ UNCHANGED <<use, regs, seen, ticks, fires, host, armed, left>>

PollMember(t) ==
  /\ Now(t, "poll")
  /\ LET m == Head(job[t].todo).m
         c == core[m]
     IN /\ host' = [host EXCEPT ![m].triggered = c.triggered]
        /\ PollGoes(t, [Advanced(t) EXCEPT !.got =
                          Append(@, [state |-> c.mode, triggered |-> c.triggered, fetch |-> None])])
  /\ UNCHANGED <<use, core, regs, seen, ticks, fires, fetch, armed, left, orderly>>

(* read_plan of each member sizes the whole transfer; then the first       *)
(* member's own readback begins.                                           *)
Begins(fs, j) == IF Head(j.todo).op = "heads" /\ j.call.op # "own" THEN Started(fs, {Head(j.todo).m}) ELSE fs
Inside(j) == IF Head(j.todo).op = "heads" THEN [j EXCEPT !.open = Append(@, Head(j.todo).m)] ELSE j

ReadSize(t) ==
  /\ Now(t, "size")
  /\ LET m == Head(job[t].todo).m
         j == [Advanced(t) EXCEPT !.words = @ + PlannedWords(M(m), Regions(m, job[t].plan[m]))]
         last == Head(j.todo).op # "size"
     IN /\ Goes(t, Inside(j))
        /\ fetch' = IF last THEN Begins(Expected(fetch, 0, j.words), j) ELSE fetch
  /\ UNCHANGED <<use, core, regs, seen, ticks, fires, host, armed, left, orderly>>

(* A member's readback is over: its counters close, and the next member's  *)
(* begins; after the last one the group's close.                           *)
(* A post region without a line, read from inside a word of the ring: no   *)
(* word is planned for it, and one is read.                                *)
Overrun(i) == M(i).rle /\ core[i].end <= host[i].pre_lines /\ host[i].pre_lines % M(i).spw # 0

MemberDone(t, j, m, fs) ==
  LET p == j.plan[m]
      shots == [w \in DOMAIN j.got[Len(j.got)].shots |->
                  IF Shots(m, p)[w] = j.got[Len(j.got)].shots[w] THEN Shots(m, p)[w] ELSE None]
      k == [j EXCEPT !.open = Front(@), !.got[Len(j.got)].shots = shots]
      closed == Closed(fs, <<m>>)
  IN IF j.todo # <<>> THEN Goes(t, Inside(k)) /\ fetch' = Begins(closed, k)
     ELSE /\ Ends(t, k, "done", [members |-> k.got, planned |-> fs[0].total,
                                 counted |-> \A i \in Members : ~Overrun(i),
                                 moved |-> FoldLeft(+, 0, [i \in Members |-> fs[i].done])])
          /\ fetch' = Closed(closed, k.open)

ReadHeads(t) ==
  /\ Now(t, "heads")
  /\ LET m == Head(job[t].todo).m
         p == job[t].plan[m]
         regions == Regions(m, p)
         bursts == PlannedBursts(M(m), regions, use.max_burst)
         j == [Advanced(t) EXCEPT !.got = Append(@, [m |-> m, shots |-> Shots(m, p), trace |-> TraceOf(m, p)]),
                                  !.todo = [k \in DOMAIN bursts |-> [op |-> "burst", m |-> m, words |-> bursts[k]]] \o @]
         expected == Expected(fetch, m, PlannedWords(M(m), regions))
     IN IF bursts = <<>> THEN MemberDone(t, j, m, expected) ELSE Goes(t, j) /\ fetch' = expected
  /\ UNCHANGED <<use, core, regs, seen, ticks, fires, host, armed, left, orderly>>

ReadBurst(t) ==
  /\ Now(t, "burst")
  /\ LET s == Head(job[t].todo)
         j == Advanced(t)
         moved == [fetch EXCEPT ![s.m].done = @ + s.words]
     IN IF j.todo = <<>> \/ Head(j.todo).op # "burst" THEN MemberDone(t, j, s.m, moved)
        ELSE Goes(t, j) /\ fetch' = moved
  /\ UNCHANGED <<use, core, regs, seen, ticks, fires, host, armed, left, orderly>>

(* An access fails: the call raises, through its finally clauses.          *)
Fail(t) ==
  /\ Settled /\ Busy(t) /\ left.failures > 0
  /\ left' = [left EXCEPT !.failures = @ - 1]
  /\ fetch' = Closed(fetch, job[t].open)
  /\ Ends(t, job[t], "failed", None)
  /\ UNCHANGED <<use, core, regs, seen, ticks, fires, host, armed, orderly>>
----------------------------------------------------------------------------
Empty(i) ==
  [mode |-> "idle", full |-> FALSE, triggered |-> FALSE, window |-> 0, shot |-> None, end |-> 1,
   run |-> IF M(i).rle THEN [pre_lines |-> 0] ELSE [count |-> 1, windows |-> 1, pretrigger |-> 0],
   kept |-> [w \in 1..(IF M(i).rle THEN 1 ELSE M(i).max_windows) |->
               [base |-> 0, count |-> 1, head |-> 0, shot |-> None]]]

Init ==
  /\ use \in Uses
  /\ core = [i \in Members |-> Empty(i)]
  /\ regs = [i \in Members |-> Empty(i).run]
  /\ seen = [i \in Members |-> FALSE]
  /\ ticks = [i \in Members |-> <<>>]
  /\ fires = 0 /\ fired = FALSE
  /\ fetch = [x \in {0} \union Members |-> [total |-> 0, done |-> 0, depth |-> 0]]
  /\ host = [i \in Members |-> [pre_lines |-> 0, triggered |-> FALSE]]
  /\ armed = None
  /\ job = [t \in Tasks |-> Idle]
  /\ outcome = None
  /\ left = [calls |-> use.budget, failures |-> use.failures]
  /\ orderly = FALSE

(* A trigger that fired holds off until its enable drops.                  *)
Latched == fired' = ((fired \/ fires' # fires) /\ Enabled')

Gateware ==
  /\ \/ \E i \in Members : Fill(i) \/ See(i) \/ Tick(i) \/ CompleteRaw(i) \/ CompleteRle(i)
     \/ Fire
  /\ outcome' = None

Client(t) ==
  \/ \E c \in use.calls[t] : Begin(t, c)
  \/ Configure(t) \/ ArmMember(t) \/ ReadStatus(t) \/ AbortMember(t) \/ PollMember(t)
  \/ ReadSize(t) \/ ReadHeads(t) \/ ReadBurst(t) \/ Fail(t)

Next == (Gateware \/ \E t \in Tasks : Client(t)) /\ Latched

Spec == Init /\ [][Next]_vars
----------------------------------------------------------------------------
(* A member that no plan of the calls gives more than one window; and the  *)
(* groups whose trigger lines can be trusted: a crossed member has one     *)
(* window, and so has a member on the trigger's own clock, if there is any.*)
OneWindow == [u \in Uses |-> {i \in DOMAIN u.members :
  \/ u.members[i].rle
  \/ \A c \in Arms(u) :
       LET w == Merged(DefaultWindow, c.fields)
           p == Plan(w, u.members, c.overrides)[i]
       IN ~PlanRefused(w, u.members, c.overrides) /\ ValidCapture(u.members[i], p) => p.windows = 1}]
LinesHold == {u \in Uses :
  LET crossed == {i \in DOMAIN u.members : u.members[i].crossed}
      uncrossed == DOMAIN u.members \ crossed
  IN crossed # {} => /\ crossed \subseteq OneWindow[u]
                     /\ uncrossed # {} => uncrossed \intersect OneWindow[u] # {}}

Shot == {None} \union 1..MaxFires
Windows(i) == IF M(i).rle THEN 1 ELSE M(i).max_windows
RunOK(i, run) ==
  IF M(i).rle THEN run.pre_lines \in 0..M(i).depth-1
  ELSE run.windows \in 1..M(i).max_windows /\ run.count \in Nat \ {0} /\ (i \in OneWindow[use] => run.windows = 1)
KeptOK(i, kept) ==
  /\ DOMAIN kept = 1..Windows(i)
  /\ \A w \in 1..Windows(i) :
       /\ DOMAIN kept[w] = {"base", "count", "head", "shot"}
       /\ kept[w].head \in Int /\ kept[w].shot \in Shot
CoreOK(i, c) ==
  /\ DOMAIN c = {"mode", "full", "triggered", "window", "shot", "end", "run", "kept"}
  /\ c.mode \in {"idle", "armed", "capturing"} /\ c.full \in BOOLEAN /\ c.triggered \in BOOLEAN
  /\ c.window \in 0..Windows(i) /\ c.end \in 1..M(i).depth /\ c.shot \in Shot
  /\ RunOK(i, c.run) /\ (~M(i).rle /\ c.mode # "idle" => c.window < c.run.windows)
  /\ KeptOK(i, c.kept)
TypeOK ==
  /\ use \in Uses
  /\ DOMAIN core = Members /\ \A i \in Members : CoreOK(i, core[i])
  /\ DOMAIN regs = Members /\ \A i \in Members : RunOK(i, regs[i])
  /\ seen \in [Members -> BOOLEAN] /\ fires \in 0..MaxFires /\ fired \in BOOLEAN
  /\ ticks \in [Members -> Seq(1..fires)]
  /\ fetch \in [{0} \union Members -> [total : Nat, done : Nat, depth : Nat]]
  /\ DOMAIN host = Members
  /\ \A i \in Members : /\ host[i] \in [pre_lines : Nat, triggered : BOOLEAN]
                        /\ host[i].pre_lines \in 0..M(i).depth-1

(* The plan the driver remembers came of one of the calls, and was taken   *)
(* by every member.                                                        *)
AllReadable(plan) == \A i \in Members : Readable(M(i), plan[i])
ArmedBy(window, overrides) ==
  \E c \in Taken[use] : window = Merged(DefaultWindow, c.fields) /\ overrides = c.overrides
Remembered == /\ armed.window.windows \in Nat \ {0} /\ ArmedBy(armed.window, armed.overrides)
              /\ AllReadable(armed.plan)

(* What a call is in the middle of: the counters it has open are the ones  *)
(* of the steps it has left.                                               *)
Only(j, ops) == \A k \in DOMAIN j.todo : j.todo[k].op \in ops
First(j, op) == \A k \in DOMAIN j.todo : j.todo[k].op = op => \A l \in 1..k : j.todo[l].op = op
StepOK(s) ==
  /\ s.op # "raise" => s.m \in Members
  /\ s.op = "configure" => RunOK(s.m, s.params)
  /\ s.op = "burst" => s.words \in Nat
Arming(j) ==
  /\ j.open = <<>> /\ Only(j, {"configure", "arm", "raise"})
  /\ j.window.windows \in Nat \ {0} /\ j.todo[Len(j.todo)].op # "configure"
  /\ j.todo[Len(j.todo)].op # "raise" => AllReadable(j.plan) /\ ArmedBy(j.window, j.call.overrides)
Waiting(j) ==
  \/ j.open = <<>> /\ Only(j, {"status"}) /\ j.call.op = "capture" /\ Remembered
  \/ j.open = <<>> /\ Only(j, {"abort"}) /\ (j.call.op = "capture" => Remembered)
  \/ j.open = <<>> /\ Only(j, {"poll"})
Sizing(j) ==
  /\ j.open = GroupOpen /\ Only(j, {"size", "heads"}) /\ First(j, "size")
  /\ j.todo[1].op = "size" /\ j.todo[Len(j.todo)].op = "heads"
  /\ j.call.op # "own" /\ AllReadable(j.plan) /\ j.words \in Nat
Transferring(j, m) ==
  /\ j.open = Append(GroupOpen, m) /\ Only(j, {"heads", "burst"}) /\ First(j, "burst")
  /\ j.todo[1].m = m /\ \A k \in DOMAIN j.todo : j.todo[k].op = "burst" => j.todo[k].m = m
  /\ j.call.op # "own" /\ AllReadable(j.plan)
ReadingOwn(j, m) ==
  /\ j.open = <<m>> /\ \A k \in DOMAIN j.todo : j.todo[k].m = m
  /\ Only(j, {"burst"}) \/ (Only(j, {"heads"}) /\ Len(j.todo) = 1)
  /\ j.call.op = "own" /\ Readable(M(m), j.plan[m])
CallOK(j) ==
  /\ DOMAIN j = DOMAIN Call(j.call)
  /\ IsSequence(j.todo) /\ \A k \in DOMAIN j.todo : StepOK(j.todo[k])
  /\ \/ Arming(j)
     \/ Waiting(j)
     \/ Sizing(j)
     \/ \E m \in Members : Transferring(j, m) \/ ReadingOwn(j, m)
CallsInStep ==
  /\ DOMAIN job = Tasks
  /\ \A t \in Tasks : IF Busy(t) THEN CallOK(job[t]) ELSE job[t] = Idle
  /\ armed # None => Remembered

(* A line that is stale, or a tick on its way, is only there while the     *)
(* trigger holds off, or a member that fired then has yet to be armed      *)
(* again -- which takes an access of the link, after all have crossed.     *)
Stale(i) == M(i).crossed /\ seen[i] /\ core[i].mode # "armed" /\ core[i].triggered
HoldsOff(i) == i \in OneWindow[use] /\ core[i].mode # "armed" /\ (M(i).crossed => ~seen[i])
LinesInStep ==
  /\ \A i \in Members : ~M(i).crossed => ticks[i] = <<>>
  /\ fired => Enabled
  /\ \A i \in Members : core[i].mode = "capturing" => core[i].triggered
  /\ \A i \in OneWindow[use] : /\ core[i].mode # "idle" => core[i].window = 0
                               /\ core[i].mode = "armed" => ~core[i].triggered
  /\ \A i \in Members : M(i).crossed /\ seen[i] /\ core[i].mode = "armed" => core[i].full
  /\ (\E i \in Members : ticks[i] # <<>> \/ Stale(i)) => fired \/ \E i \in Members : HoldsOff(i)

Ended(ops, end) == outcome # None /\ outcome.call.op \in ops /\ outcome.end = end
ReadDone == Ended({"read", "capture"}, "done")
Reads(t) == Busy(t) /\ job[t].open # <<>>

(* A capture armed on members at rest that reports its trigger, or a read  *)
(* of a group so armed that is all idle and triggered, with no other       *)
(* client at it: every member's windows are complete, they are of the same *)
(* fires of the trigger, and in order -- whatever the order the members    *)
(* were armed in and however late a tick reaches one of them.              *)
CaptureIsOwn ==
  ReadDone /\ outcome.alone /\ outcome.whole /\ (outcome.call.op = "capture" => outcome.fresh) =>
    LET all == {outcome.value.members[k].shots : k \in Members}
    IN /\ Cardinality(all) = 1
       /\ \A shots \in all : \A w \in DOMAIN shots :
            /\ shots[w] # None
            /\ w > 1 => shots[w - 1] < shots[w]

(* doc/instrument/logic_analyzer/index.rst:258: "Every participating       *)
(* domain must be armed before the trigger can fire", 262: "One event cuts *)
(* every buffer".  A fire finds every core ready, but for one aborted a    *)
(* moment ago, its ready line still on its way.                            *)
JustAborted(i) == M(i).crossed /\ seen[i] /\ core[i].mode = "idle" /\ ~core[i].triggered
FireFindsAllArmed ==
  [][fires' # fires => \A i \in Members : Ready(core[i]) \/ JustAborted(i)]_vars

(* doc/host/gui.rst:97: "Arm starts a capture".  So a capture with no      *)
(* other client at the group that reports its trigger is one of the window *)
(* it was given.                                                           *)
ArmStartsCapture ==
  Ended({"capture"}, "done") /\ outcome.alone /\ outcome.whole =>
    \A k \in Members : \A w \in DOMAIN outcome.value.members[k].shots :
      outcome.value.members[k].shots[w] # None

(* The counters of a readback close with it, whichever way it ends and     *)
(* whatever it was nested in: a member counts as fetching for as long as   *)
(* some call reads it, and not a moment longer.                            *)
Open(x) ==
  {h \in Tasks \X (1..Len(use.members) + 2) : h[2] \in DOMAIN job[h[1]].open /\ job[h[1]].open[h[2]] = x}
FetchBalanced == \A x \in DOMAIN fetch : fetch[x].depth = Cardinality(Open(x))

(* A group read of members at rest moves the words it announced before the *)
(* first of them, so that the progress reported ends at the whole.  (Not   *)
(* when a post region without a line follows a ring that ends inside a     *)
(* word: Overrun.)                                                         *)
FetchAccounts ==
  ReadDone /\ outcome.alone /\ outcome.rest /\ outcome.value.counted =>
    outcome.value.moved = outcome.value.planned

(* The denominator a poll reports does not move while words do: a single   *)
(* reader has sized all of its transfer before the first burst.            *)
DenominatorFixed ==
  [][(\A t \in Tasks : Reads(t) => job[t].alone) =>
       \A x \in DOMAIN fetch :
         /\ fetch[x].depth > 0 /\ fetch'[x].depth > 0
         /\ \E y \in IF x = 0 THEN Members ELSE {x} : fetch[y].done > 0
         => fetch'[x].total = fetch[x].total]_vars

(* A poll that begins while a group read is in flight is answered from     *)
(* host memory for every member: it never reaches the link.                *)
PollStaysOffTheLink == \A t \in Tasks : Busy(t) /\ job[t].call.op = "poll" => ~job[t].during

(* A poll that says idle, when nothing else was asked of the group since   *)
(* it began, is right: every member has come to rest by the time it is     *)
(* answered, though they were looked at one after the other.               *)
IdleIsRest ==
  [][\A t \in Tasks : Busy(t) /\ job[t].call.op = "poll" /\ ~Busy(t)' /\ outcome'.end = "done"
                  /\ outcome'.alone /\ outcome'.value.state = "idle" =>
         \A i \in Members : core'[i].mode = "idle"]_vars

(* A plan derived from a window of real time, without overrides, is one    *)
(* its members take: an arm alone never leaves the group half armed, as    *)
(* long as no member has too few windows or too small a cycle counter.     *)
ArmIsWhole ==
  Ended({"arm", "capture"}, "raised") =>
    LET c == outcome.call
        w == Merged(DefaultWindow, c.fields)
    IN \/ c.overrides # <<>>
       \/ \E i \in Members : IF M(i).rle THEN M(i).rate # 0 /\ Rounded(PostSeconds(w), M(i).rate) >= CycleLimit
                             ELSE w.windows > M(i).max_windows

(* A plan that reports no difference keeps the members correlated: the     *)
(* raw ones capture the same span of real time, before and after the       *)
(* trigger, to half a sample of either.                                    *)
Within(a, ra, b, rb) ==
  LET difference == a * rb - b * ra
  IN 2 * (IF difference < 0 THEN -difference ELSE difference) <= ra + rb
QuietPlansAgree ==
  armed # None =>
    LET quiet == {i \in Members : ~M(i).rle /\ M(i).rate # 0 /\ RawNotes(M(i), armed.window, armed.plan[i]) = {}}
    IN armed.window.seconds # None =>
         \A i, k \in quiet :
           /\ Within(armed.plan[i].count, M(i).rate, armed.plan[k].count, M(k).rate)
           /\ Within(armed.plan[i].pretrigger, M(i).rate, armed.plan[k].pretrigger, M(k).rate)

(* A composed trace keeps its windows apart: all of a window, to the end   *)
(* of its last sample, comes before any of the next, nothing before tick   *)
(* 0; and the sample a run-length member was triggered with comes after    *)
(* the trigger, by its latency.                                            *)
ComposedInOrder ==
  ReadDone =>
    LET traces == [k \in Members |-> outcome.value.members[k].trace]
        windows == 1..WindowCount(traces[1])
        Ticks(i, w) == {TickOf(traces, i, w, k) : k \in DOMAIN Events(traces[i], w)}
        Over(i, w) == Composed(traces).triggers[w] + End(traces[i], w) * traces[i].period
    IN Composable(traces) =>
         /\ \A i \in Members : \A w \in windows : \A tick \in Ticks(i, w) :
              /\ tick >= 0
              /\ \A k \in Members : w + 1 \in windows => \A next \in Ticks(k, w + 1) :
                   tick < next /\ Over(i, w) <= next
         /\ \A i \in Members : (IsRle(traces[i]) /\ outcome.alone /\ outcome.whole) =>
              Events(traces[i], 1)[traces[i].trigger_run + 1] = traces[i].latency

(* The counters of a call are in step with what it has left to do, and the *)
(* lines with the cores, between any two steps.                            *)
TasksOK == TypeOK /\ CallsInStep /\ FetchBalanced /\ PollStaysOffTheLink
LinesOK == TypeOK /\ use \in LinesHold /\ LinesInStep
AccountsOK == TasksOK /\ (use \in LinesHold => LinesInStep)
------------------------------------------------------------------------------
(* What a poll tells.  A call that is alone has only polls beside it; a    *)
(* poll has looked at the members before the ones it has left, and the     *)
(* ones it found idle still are, if it is alone; and a readback that is    *)
(* alone has moved no word of the members it has not come to.              *)
CompanyOK ==
  \A t \in Tasks : Busy(t) /\ job[t].alone => \A u \in Tasks \ {t} : Busy(u) => Quiet(job[u].call)
Polling(j) ==
  /\ j.open = <<>> /\ Only(j, {"poll"}) /\ IsSequence(j.got)
  /\ Len(j.got) + Len(j.todo) = Len(use.members)
  /\ \A k \in DOMAIN j.todo : j.todo[k].m = Len(j.got) + k
  /\ \A k \in DOMAIN j.got : j.got[k].state \in DOMAIN Rank
Witnessed(j, cores) ==
  j.alone => \A k \in DOMAIN j.got : j.got[k].state = "idle" => cores[k].mode = "idle"
PollsOK == \A t \in Tasks : Busy(t) /\ Quiet(job[t].call) => Polling(job[t]) /\ Witnessed(job[t], core)
Untouched(j, fs) ==
  /\ j.todo[1].op = "size" => \A i \in Members : fs[i].done = 0
  /\ \A k \in DOMAIN j.todo : j.todo[k].op = "heads" => fs[j.todo[k].m].done = 0
  /\ \A k, l \in DOMAIN j.todo :
       k < l /\ j.todo[k].op # "size" /\ j.todo[l].op = "heads" => j.todo[k].m # j.todo[l].m
ReadersOK == \A t \in Tasks : Reads(t) /\ job[t].alone => Untouched(job[t], fetch)
TellOK == TasksOK /\ CompanyOK /\ PollsOK /\ ReadersOK
------------------------------------------------------------------------------
(* What a read shows.  The fires F of an orderly capture: a core has taken *)
(* all of them, or its tick of the only one is on its way; and the windows *)
(* it completed hold them, in slots one after the other.                   *)
Planning(i, c) == IF M(i).rle THEN 1 ELSE c.run.windows
Holds(i, c, w, fire, shot) ==
  IF M(i).rle THEN c.kept[w].shot = shot
  ELSE LET base == (w - 1) * c.run.count
       IN c.kept[w] = [base |-> base, count |-> c.run.count, head |-> base + (fire % c.run.count), shot |-> shot]
Armed(c, pending, F) == c.mode = "armed" /\ c.window = Len(F) /\ pending = <<>>
Coming(c, pending, F) == c.mode = "armed" /\ c.full /\ c.window = 0 /\ Len(F) = 1 /\ pending = F
Capturing(i, c, pending, F) ==
  /\ c.mode = "capturing" /\ c.window + 1 = Len(F) /\ c.shot = F[Len(F)] /\ pending = <<>>
  /\ ~M(i).rle => Holds(i, c, Len(F), F[Len(F)], None)
Rested(i, c, pending, F) ==
  c.mode = "idle" /\ c.window = Len(F) /\ Planning(i, c) = Len(F) /\ c.triggered /\ pending = <<>>
Cut(i, c, pending, F) ==
  /\ Armed(c, pending, F) \/ Coming(c, pending, F) \/ Capturing(i, c, pending, F) \/ Rested(i, c, pending, F)
  /\ \A w \in 1..c.window : Holds(i, c, w, F[w], F[w])
Fires(F, upTo) ==
  /\ F \in Seq(Nat) /\ \A w \in DOMAIN F : F[w] \in 1..upTo
  /\ \A w \in DOMAIN F : w > 1 => F[w - 1] < F[w]
  /\ \A i \in Members : M(i).crossed => Len(F) <= 1
Session(F, cores, pending, upTo, remembered) ==
  /\ Fires(F, upTo)
  /\ \A i \in Members : cores[i].run = remembered.plan[i] /\ Cut(i, cores[i], pending[i], F)
ArmsNow(t) == Busy(t) /\ job[t].todo[1].op \in {"configure", "arm"}
SessionOK ==
  orderly => /\ \E F : Session(F, core, ticks, fires, armed)
             /\ \A t \in Tasks : ~ArmsNow(t)

(* A call alone that arms members at rest: which of them it has armed.     *)
Ordered(j) ==
  /\ j.got = <<>>
  /\ \A k \in DOMAIN j.todo : j.todo[k].op = "configure" => j.todo[k].params = j.plan[j.todo[k].m]
  /\ \A k \in DOMAIN j.todo : k + 1 \in DOMAIN j.todo =>
       /\ j.todo[k].op = "configure" => j.todo[k + 1].op = "arm" /\ j.todo[k + 1].m = j.todo[k].m
       /\ j.todo[k].op = "arm" /\ j.todo[k + 1].op # "raise" =>
            j.todo[k + 1].op = "configure" /\ j.todo[k + 1].m = j.todo[k].m + 1
  /\ \A k \in DOMAIN j.todo : j.todo[k].op = "arm" /\ k + 1 \notin DOMAIN j.todo =>
       j.todo[k].m = Len(use.members)
ArmedTo(j, cores, registers, lines, pending) ==
  LET m == j.todo[1].m
  IN /\ \A i \in Members : IF i < m THEN /\ cores[i].mode = "armed" /\ cores[i].window = 0
                                         /\ cores[i].run = j.plan[i]
                           ELSE cores[i].mode = "idle"
     /\ j.todo[1].op = "arm" => registers[m] = j.plan[m]
     /\ m # 1 \/ j.todo[1].op = "arm" =>
          \A i \in Members : pending[i] = <<>> /\ (M(i).crossed /\ i >= m => ~lines[i])
Armers(j) == j.alone /\ j.fresh /\ j.todo[1].op \in {"configure", "arm"}
Waiters(j) == j.alone /\ j.fresh /\ j.todo[1].op = "status"
Waited(j, cores) ==
  /\ IsSequence(j.got) /\ Len(j.got) + Len(j.todo) = Len(use.members)
  /\ \A k \in DOMAIN j.todo : j.todo[k].m = Len(j.got) + k
  /\ \A k \in DOMAIN j.got : j.got[k].state \in DOMAIN Rank /\ (j.got[k].state = "idle" => cores[k].mode = "idle")

(* A read, or a capture's, of an orderly capture, with nobody beside it.   *)
Tellers(j) == j.alone /\ j.whole /\ j.call.op # "own" /\ (j.call.op = "capture" => j.fresh)
ShotsOf(cores, i, p) ==
  IF M(i).rle THEN <<cores[i].kept[1].shot>>
  ELSE [w \in 1..p.windows |->
     LET k == cores[i].kept[w] IN IF Slot(k.head, p.count) = k.base /\ p.count = k.count THEN k.shot ELSE None]
Aligned(j) ==
  LET h == (Len(j.todo) + Len(j.got)) - Len(use.members)
  IN /\ h \in 0..Len(j.todo) /\ IsSequence(j.got)
     /\ \A k \in DOMAIN j.todo : /\ j.todo[k].op = "heads" <=> k > h
                                 /\ j.todo[k].op = "burst" => j.todo[k].m = Len(j.got)
     /\ \A k \in DOMAIN j.todo : k > h => j.todo[k].m = (k - h) + Len(j.got)
Telling(j, cores, remembered) ==
  /\ \A i \in Members : cores[i].mode = "idle"
  /\ j.plan = remembered.plan /\ Aligned(j)
  /\ \A k \in DOMAIN j.got : "shots" \in DOMAIN j.got[k] /\ j.got[k].shots = ShotsOf(cores, k, j.plan[k])
OwnCall(j) ==
  /\ j.whole => j.open # <<>>
  /\ Armers(j) => Ordered(j) /\ ArmedTo(j, core, regs, seen, ticks)
  /\ Waiters(j) => orderly /\ Waited(j, core)
  /\ Tellers(j) => orderly /\ Telling(j, core, armed)
OwnOK == \A t \in Tasks : Busy(t) => OwnCall(job[t])
CutsOK == TellOK /\ LinesOK /\ SessionOK /\ OwnOK
------------------------------------------------------------------------------
(* The fires a member has taken, or is about to.                           *)
FiresOf(i) ==
  [w \in 1..core[i].window |-> core[i].kept[w].shot]
  \o (IF core[i].mode = "capturing" THEN <<core[i].shot>> ELSE ticks[i])

(* A poll and a read put together what they see of the members one after   *)
(* the other (la/driver.py's poll, capture and read).  What a poll has     *)
(* found idle still is, a readback has moved no word of a member it has    *)
(* not come to, and a read has of each member the windows of one sequence  *)
(* of fires, which every member of the group took -- as long as nobody     *)
(* else is at the group, and its trigger lines hold.                       *)
ReadsAreInStep ==
  /\ CompanyOK /\ PollsOK /\ ReadersOK
  /\ use \in LinesHold =>
       /\ OwnOK
       /\ orderly => Session(FiresOf(1), core, ticks, fires, armed) /\ \A t \in Tasks : ~ArmsNow(t)

(* A readback in flight is accounted for, and has the link to itself; and  *)
(* what it and the polls know so far of each member is still so.           *)
ReadsAreAccounted == AccountsOK /\ ReadsAreInStep
------------------------------------------------------------------------------
(* A window of real time becomes plans that members take, that agree, that *)
(* move the words they announce, and whose traces compose again.           *)
PlansHold == ArmIsWhole /\ QuietPlansAgree /\ FetchAccounts /\ ComposedInOrder

(* What a poll tells is so: idle, or how far a readback is.                *)
PollsTell == IdleIsRest /\ DenominatorFixed
==============================================================================
