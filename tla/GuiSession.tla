----------------------------- MODULE GuiSession -----------------------------
(***************************************************************************)
(* The web frontend's hold on a target: the Api the pages call             *)
(* (gui/app.py), the Session that owns a transport (session.py), and the   *)
(* status poll that rebuilds that transport when the target went away and  *)
(* puts back the configuration it lost.                                    *)
(*                                                                         *)
(* One event loop runs a status poll and the calls of a user side by side; *)
(* a step is what happens from one await to the next.  A transport is a    *)
(* number, in the order they were opened; the shared hardware tree caches  *)
(* the one that is attached.  A board's gateware is an image: it tells the *)
(* instruments, and it is the fingerprint.                                 *)
(***************************************************************************)
EXTENDS Integers, Sequences, FiniteSets

CONSTANTS
  None,
  Images,        \* gateware the board may be loaded with
  Holds(_),      \* the instruments an image holds
  Settings,      \* what a panel's "configure" may say
  MaxFaults,     \* bound: links lost, reprogrammings, cancelled calls
  MaxCalls       \* bound: calls of the user

Instruments == UNION {Holds(image) : image \in Images}

(* A call and a poll: what it was asked, where it stands (pc) and what it  *)
(* holds in its locals across an await; s, t and d are the ranges of its   *)
(* references to sessions, transports and dictionaries.                    *)
Jobs(s, t, d) ==
  [op : {"poll", "connect", "disconnect", "configure"},
   pc : {"status", "teardown", "resolve", "status again", "replay",
         "open", "fingerprint", "close", "forget", "write"},
   name : Instruments \union {None}, value : Settings \union {None},
   s : s, node : t, transport : t, dict : d, todo : SUBSET Instruments, size : Nat,
   read : Images \union {None}, began : s, swapped : BOOLEAN, faulted : BOOLEAN, beside : BOOLEAN]

Told == [value : Settings, of : Images \union {None}]

ASSUME NoneAssumption ==
  /\ None \notin Images \union Instruments \union Settings
  /\ None \notin Told /\ None \notin Jobs(Nat, Nat, Nat)
ASSUME InstrumentsAssumption == IsFiniteSet(Instruments)

VARIABLES
  board,      \* present, image, link (its epoch), regs: each instrument's configuration
  transports, \* of each ever opened: the epoch of its link, the image enumerated
  tree,       \* the transport the hardware tree holds, or 0
  sessions,   \* Session: node, transport, fingerprint; history: opened, the image
              \* that connected, and hurt, what it and its rebuilds went through
  session,    \* Api.session, or 0
  dicts,      \* every dictionary of last "configure" messages: what each instrument
              \* was told and, history, the image its connection was of
  cache,      \* the one that is Api's
  shell,      \* what the page shows: disconnected, connected, stale
  poller,     \* the status poll in flight, or None
  user,       \* the user's call in flight, or None
  outcome,    \* the call the last step ended, or None
  left        \* the faults and calls to come

vars == <<board, transports, tree, sessions, session, dicts, cache, shell, poller, user, outcome, left>>

Empty == [i \in Instruments |-> None]
Cached(d) == {i \in Instruments : dicts[d][i] # None}

Alive(t) == t # 0 /\ tree = t /\ board.present /\ transports[t].link = board.link

(* The instrument the current session enumerated under a name.             *)
NodeOf(s) == IF s = 0 THEN 0 ELSE sessions[s].node
Found(s, i) == NodeOf(s) # 0 /\ i \in Holds(transports[NodeOf(s)].image)
----------------------------------------------------------------------------
(* Session.                                                                *)

(* resolve: what the tree holds, or a transport opened anew.               *)
Summoned(t, opened) ==
  IF tree # 0 THEN t = tree /\ opened = transports
  ELSE /\ board.present /\ t = Len(transports) + 1
       /\ opened = Append(transports, [link |-> board.link, image |-> board.image])
Reachable == tree # 0 \/ board.present

(* What a session refers to once resolved.  Its fingerprint is kept.       *)
ResolvedUnowned(s, t) == [s EXCEPT !.node = t]   \* mutant: the transport is not its own
Resolved(s, t) == [s EXCEPT !.node = t, !.transport = t]

(* __teardown_transport: what leaves the tree.                             *)
TornDownNothing(t) == tree   \* mutant
TornDown(t) == IF t # 0 /\ tree = t THEN 0 ELSE tree
----------------------------------------------------------------------------
(* The status poll.                                                        *)

Job(op, pc) ==
  [op |-> op, pc |-> pc, name |-> None, value |-> None, s |-> 0, node |-> 0, transport |-> 0, dict |-> 0,
   todo |-> {}, size |-> 0, read |-> None, began |-> session, swapped |-> FALSE, faulted |-> FALSE, beside |-> FALSE]

Ends(j, end, read, changed) ==
  outcome' = [op |-> j.op, end |-> end, read |-> read, changed |-> changed, s |-> j.s,
              began |-> j.began, faulted |-> j.faulted, beside |-> j.beside]
Goes(j) == poller' = j /\ outcome' = None
PollEnds(end, read, changed) == poller' = None /\ Ends(poller, end, read, changed)

(* Where the poll stands: it awaits pc.                                    *)
At(pc) == poller # None /\ poller.pc = pc

(* The page listens for the instruments it was told of at connect.         *)
Panels == Holds(sessions[Len(sessions)].opened)

BeginPoll(name) ==
  /\ poller = None /\ shell = "connected" /\ name \in Panels
  /\ LET j == [Job("poll", "status") EXCEPT !.name = name, !.node = NodeOf(session), !.beside = user # None] IN
     IF session = 0 THEN poller' = None /\ Ends(j, "not connected", None, FALSE)
     ELSE IF ~Found(session, name) THEN poller' = None /\ Ends(j, "no instrument", None, FALSE)
     ELSE Goes(j)
  /\ UNCHANGED <<board, transports, tree, sessions, session, dicts, cache, shell, user, left>>

Differs(read) == sessions[session].fingerprint # None /\ read # sessions[session].fingerprint

(* A page that is told of other gateware stops listening; one that stopped *)
(* or connected again ignores what the earlier stream still says.          *)
Shown(changed) ==
  shell' = IF changed /\ shell = "connected" /\ poller.began = session THEN "stale" ELSE shell

StatusAnswered ==
  /\ At("status") /\ Alive(poller.node) /\ session # 0
  /\ PollEnds("healthy", board.image, Differs(board.image))
  /\ Shown(Differs(board.image))
  /\ UNCHANGED <<board, transports, tree, sessions, session, dicts, cache, user, left>>

(* The transport dropped: the session rebuilds it.                         *)
StatusFailed ==
  /\ At("status") /\ (~Alive(poller.node) \/ session = 0)
  /\ IF session = 0 THEN PollEnds("reconnecting", None, FALSE) /\ UNCHANGED sessions
     ELSE /\ sessions' = [sessions EXCEPT ![session].transport = 0]
          /\ Goes([poller EXCEPT !.pc = "teardown", !.s = session, !.transport = sessions[session].transport])
  /\ UNCHANGED <<board, transports, tree, session, dicts, cache, shell, user, left>>

Rebuild ==
  /\ At("teardown")
  /\ tree' = TornDown(poller.transport)
  /\ sessions' = [sessions EXCEPT ![poller.s].node = 0]
  /\ Goes([poller EXCEPT !.pc = "resolve"])
  /\ UNCHANGED <<board, transports, session, dicts, cache, shell, user, left>>

(* Resolved again, the poll asks for the status once more.                 *)
Rebuilt ==
  /\ At("resolve") /\ Reachable
  /\ \E t \in 1..Len(transports)+1 :
       /\ Summoned(t, transports') /\ tree' = t
       /\ sessions' = [sessions EXCEPT ![poller.s] = Resolved(@, t)]
       /\ LET n == IF session = 0 THEN 0 ELSE sessions'[session].node IN
          IF n # 0 /\ poller.name \in Holds(transports'[n].image)
          THEN Goes([poller EXCEPT !.pc = "status again", !.node = n])
          ELSE PollEnds("raised", None, FALSE)
  /\ UNCHANGED <<board, session, dicts, cache, shell, user, left>>

StillAway ==
  /\ At("resolve") /\ ~Reachable
  /\ PollEnds("reconnecting", None, FALSE)
  /\ sessions' = [sessions EXCEPT ![poller.s].hurt = @ \union {"found no board"}]
  /\ UNCHANGED <<board, transports, tree, session, dicts, cache, shell, user, left>>

ReplaysAlways(changed) == TRUE   \* mutant
Replays(changed) == ~changed

ToReplayPolled(d) == Cached(d) \intersect {poller.name}   \* mutant: one instrument's only
ToReplay(d) == Cached(d)

StatusAgain ==
  /\ At("status again")
  /\ IF ~Alive(poller.node) \/ session = 0 THEN PollEnds("raised", None, FALSE) /\ UNCHANGED shell
     ELSE IF Replays(Differs(board.image))
     THEN /\ Goes([poller EXCEPT !.pc = "replay", !.dict = cache, !.todo = ToReplay(cache),
                                 !.size = Cardinality(Cached(cache)), !.read = board.image,
                                 !.faulted = poller.swapped, !.beside = user # None])
          /\ UNCHANGED shell
     ELSE PollEnds("reconnected", board.image, TRUE) /\ Shown(TRUE)
  /\ UNCHANGED <<board, transports, tree, sessions, session, dicts, cache, user, left>>

(* __replay_config: one message, to what bears the name by now.  A message *)
(* that fails is passed over; a dictionary that grew raises.               *)
Grown == Cardinality(Cached(poller.dict)) # poller.size

Replay(i) ==
  /\ At("replay") /\ i \in poller.todo /\ ~Grown
  /\ board' = IF Found(session, i) /\ Alive(NodeOf(session))
              THEN [board EXCEPT !.regs[i] = dicts[poller.dict][i].value] ELSE board
  /\ Goes([poller EXCEPT !.todo = @ \ {i}])
  /\ UNCHANGED <<transports, tree, sessions, session, dicts, cache, shell, user, left>>

Replayed ==
  /\ At("replay") /\ (poller.todo = {} \/ Grown)
  /\ IF Grown THEN PollEnds("raised", None, FALSE) ELSE PollEnds("reconnected", poller.read, FALSE)
  /\ UNCHANGED <<board, transports, tree, sessions, session, dicts, cache, shell, user, left>>

(* The page closed its stream, or the poll took a minute.                  *)
CancelPoll ==
  /\ poller # None
  /\ IF shell = "connected"
     THEN left.faults > 0 /\ left' = [left EXCEPT !.faults = @ - 1]
     ELSE UNCHANGED left
  /\ sessions' = IF poller.s = 0 THEN sessions
                 ELSE [sessions EXCEPT ![poller.s].hurt = @ \union {"was cancelled"}]
  /\ PollEnds("cancelled", None, FALSE)
  /\ UNCHANGED <<board, transports, tree, session, dicts, cache, shell, user>>
----------------------------------------------------------------------------
(* The calls of the user.                                                  *)

Does(pc) == user # None /\ user.pc = pc
UserGoes(j) == user' = j /\ outcome' = None
UserEnds(end) == user' = None /\ Ends(user, end, None, FALSE)

NewDict == dicts' = Append(dicts, Empty) /\ cache' = Len(dicts) + 1
(* A poll in flight notices that it is not alone.                          *)
Beside == IF poller = None THEN None ELSE [poller EXCEPT !.beside = TRUE]
Called == left.calls > 0 /\ user = None /\ left' = [left EXCEPT !.calls = @ - 1] /\ poller' = Beside

BeginConnect ==
  /\ Called /\ shell = "disconnected"
  /\ NewDict
  /\ sessions' = Append(sessions, [node |-> 0, transport |-> 0, fingerprint |-> None, opened |-> None,
                                   hurt |-> IF poller = None THEN {} ELSE {"opened beside a poll"}])
  /\ session' = Len(sessions) + 1
  /\ UserGoes([Job("connect", "open") EXCEPT !.s = Len(sessions) + 1, !.beside = poller # None])
  /\ UNCHANGED <<board, transports, tree, shell>>

Open ==
  /\ Does("open")
  /\ IF Reachable
     THEN \E t \in 1..Len(transports)+1 :
            /\ Summoned(t, transports') /\ tree' = t
            /\ sessions' = [sessions EXCEPT ![user.s].node = t, ![user.s].transport = t]
            /\ UserGoes([user EXCEPT !.pc = "fingerprint"])
     ELSE UserEnds("error") /\ UNCHANGED <<transports, tree, sessions>>
  /\ UNCHANGED <<board, session, dicts, cache, shell, poller, left>>

ReadFingerprint ==
  /\ Does("fingerprint")
  /\ IF Alive(sessions[user.s].node)
     THEN /\ sessions' = [sessions EXCEPT ![user.s].fingerprint = board.image, ![user.s].opened = board.image]
          /\ shell' = "connected" /\ UserEnds("connected")
     ELSE UserEnds("error") /\ UNCHANGED <<sessions, shell>>
  /\ UNCHANGED <<board, transports, tree, session, dicts, cache, poller, left>>

(* The page is disconnected from the moment it asks.                       *)
BeginDisconnect ==
  /\ Called /\ sessions # <<>>
  /\ shell' = "disconnected"
  /\ IF session = 0 THEN UserGoes([Job("disconnect", "forget") EXCEPT !.beside = poller # None]) /\ UNCHANGED sessions
     ELSE /\ sessions' = [sessions EXCEPT ![session].transport = 0]
          /\ UserGoes([Job("disconnect", "close") EXCEPT !.s = session, !.transport = sessions[session].transport,
                                                         !.beside = poller # None])
  /\ UNCHANGED <<board, transports, tree, session, dicts, cache>>

Close ==
  /\ Does("close")
  /\ tree' = TornDown(user.transport)
  /\ sessions' = [sessions EXCEPT ![user.s].node = 0, ![user.s].fingerprint = None]
  /\ UserGoes([user EXCEPT !.pc = "forget"])
  /\ UNCHANGED <<board, transports, session, dicts, cache, shell, poller, left>>

Forget ==
  /\ Does("forget")
  /\ session' = 0 /\ NewDict
  /\ UserEnds("disconnected")
  /\ UNCHANGED <<board, transports, tree, sessions, shell, poller, left>>

BeginConfigure(i, v) ==
  /\ Called /\ shell = "connected"
  /\ LET j == [Job("configure", "write") EXCEPT !.name = i, !.value = v, !.node = NodeOf(session)] IN
     IF Found(session, i) THEN UserGoes(j) ELSE user' = None /\ Ends(j, "error", None, FALSE)
  /\ UNCHANGED <<board, transports, tree, sessions, session, dicts, cache, shell>>

(* Written, and only then cached.                                          *)
Configure ==
  /\ Does("write")
  /\ IF Alive(user.node)
     THEN /\ board' = [board EXCEPT !.regs[user.name] = user.value]
          /\ dicts' = [dicts EXCEPT ![cache][user.name] =
                        [value |-> user.value, of |-> sessions[user.began].opened]]
          /\ UserEnds("configured")
     ELSE UserEnds("error") /\ UNCHANGED <<board, dicts>>
  /\ UNCHANGED <<transports, tree, sessions, session, cache, shell, poller, left>>
----------------------------------------------------------------------------
(* The board.                                                              *)

Fault == left.faults > 0 /\ left' = [left EXCEPT !.faults = @ - 1] /\ outcome' = None
Noticing(j, swap) == IF j = None THEN None ELSE [j EXCEPT !.faulted = TRUE, !.swapped = @ \/ swap]

(* The link is lost: a glitch, a reset, other gateware, or gone for now.   *)
Lose ==
  /\ Fault
  /\ \E image \in Images, present, reset \in BOOLEAN :
       /\ image # board.image => reset
       /\ board' = [present |-> present, image |-> image, link |-> board.link + 1,
                    regs |-> IF reset THEN Empty ELSE board.regs]
       /\ poller' = Noticing(poller, image # board.image) /\ user' = Noticing(user, image # board.image)
  /\ UNCHANGED <<transports, tree, sessions, session, dicts, cache, shell>>

(* Reprogrammed under a link that stays.                                   *)
Reprogram ==
  /\ Fault /\ board.present
  /\ \E image \in Images \ {board.image} : board' = [board EXCEPT !.image = image, !.regs = Empty]
  /\ poller' = Noticing(poller, TRUE) /\ user' = Noticing(user, TRUE)
  /\ UNCHANGED <<transports, tree, sessions, session, dicts, cache, shell>>

Return ==
  /\ ~board.present
  /\ board' = [board EXCEPT !.present = TRUE] /\ outcome' = None
  /\ UNCHANGED <<transports, tree, sessions, session, dicts, cache, shell, poller, user, left>>
----------------------------------------------------------------------------
Init ==
  /\ board \in [present : {TRUE}, image : Images, link : {0}, regs : {Empty}]
  /\ transports = <<>> /\ tree = 0 /\ sessions = <<>> /\ session = 0
  /\ dicts = <<Empty>> /\ cache = 1
  /\ shell = "disconnected" /\ poller = None /\ user = None /\ outcome = None
  /\ left = [faults |-> MaxFaults, calls |-> MaxCalls]

Poll ==
  \/ \E i \in Instruments : BeginPoll(i)
  \/ StatusAnswered \/ StatusFailed \/ Rebuild \/ Rebuilt \/ StillAway
  \/ StatusAgain \/ (\E i \in Instruments : Replay(i)) \/ Replayed

User ==
  \/ BeginConnect \/ Open \/ ReadFingerprint
  \/ BeginDisconnect \/ Close \/ Forget
  \/ (\E i \in Instruments, v \in Settings : BeginConfigure(i, v)) \/ Configure

Next == Poll \/ CancelPoll \/ User \/ Lose \/ Reprogram \/ Return

Spec == Init /\ [][Next]_vars

(* The event loop runs what is ready: the pusher polls for as long as the  *)
(* page listens, and an access that was begun is answered or fails.        *)
FairSpec ==
  /\ Spec
  /\ \A i \in Instruments : SF_vars(BeginPoll(i))
  /\ WF_vars(Poll) /\ WF_vars(Open \/ ReadFingerprint \/ Close \/ Forget \/ Configure)
----------------------------------------------------------------------------
Transports == 0..Len(transports)
Running == Jobs(0..Len(sessions), Transports, 0..Len(dicts))

TypeOK ==
  /\ board \in [present : BOOLEAN, image : Images, link : Nat, regs : [Instruments -> Settings \union {None}]]
  /\ transports \in Seq([link : Nat, image : Images]) /\ tree \in Transports
  /\ sessions \in Seq([node : Transports, transport : Transports, fingerprint : Images \union {None},
                       opened : Images \union {None},
                       hurt : SUBSET {"opened beside a poll", "found no board", "was cancelled"}])
  /\ session \in 0..Len(sessions)
  /\ dicts \in Seq([Instruments -> Told \union {None}])
  /\ cache \in DOMAIN dicts
  /\ shell \in {"disconnected", "connected", "stale"}
  /\ shell # "disconnected" => session # 0 /\ sessions[session].fingerprint \in Images
  /\ poller \in Running \union {None} /\ user \in Running \union {None}

PollDone == outcome # None /\ outcome.op = "poll" /\ outcome.end \in {"healthy", "reconnected"}

(* The reference a session compares with is the gateware it was opened on, *)
(* however often it was rebuilt since: a status that a page is shown and   *)
(* does not say changed was read from that gateware (session.py:97).       *)
ChangedIsSeen ==
  PollDone /\ ~outcome.changed /\ shell = "connected" /\ outcome.began = session =>
    outcome.read = sessions[session].opened

(* A configuration made on one gateware is not replayed onto another by a  *)
(* poll a page listens to, unless the board is reprogrammed in that very   *)
(* poll.  (A disconnect forgets the fingerprint first: the poll beside it  *)
(* then sees no change.)                                                   *)
ReplayFits ==
  [][\A i \in Instruments :
       At("replay") /\ ~poller.swapped /\ shell = "connected" /\ poller.began = session /\ i \in poller.todo /\ poller' # None /\ i \notin poller'.todo
       /\ board' # board => dicts[poller.dict][i].of = board.image]_vars

(* No poll of an earlier session was in flight when this one was opened: a *)
(* rebuild that outlives its session tears down, or opens, what the next   *)
(* one does not know of.                                                   *)
Untangled == session # 0 /\ "opened beside a poll" \notin sessions[session].hurt

(* After a poll that says it reconnected, with no fault and no call since  *)
(* the status it reports, each instrument holds what it was last told.     *)
ReconnectRestores ==
  PollDone /\ outcome.end = "reconnected" /\ ~outcome.changed /\ ~outcome.faulted /\ ~outcome.beside /\ Untangled =>
    \A i \in Cached(cache) \intersect Holds(board.image) : board.regs[i] = dicts[cache][i].value

(* A disconnect closes the transport, whichever rebuild opened it, unless  *)
(* a poll was in flight beside it or beside the connect, or a rebuild was  *)
(* cancelled halfway.                                                      *)
DisconnectCloses ==
  outcome # None /\ outcome.op = "disconnect" /\ outcome.s # 0 /\ ~outcome.beside
  /\ sessions[outcome.s].hurt \subseteq {"found no board"} => tree = 0

(* A link that drops and is back by the time it is missed is rebuilt, and  *)
(* the page is served again.                                               *)
Recovers ==
  <>[](shell = "connected" /\ board.present /\ sessions[session].hurt \subseteq {"opened beside a poll"}) => []<>PollDone

(* gui/app.py:196: "if it is still gone the rebuild raises and we report   *)
(* reconnecting (a non-fatal wait). The shell keeps polling, so recovery   *)
(* is automatic on a later tick".                                          *)
RecoversOnALaterTick ==
  <>[](shell = "connected" /\ board.present) => []<>PollDone

----------------------------------------------------------------------------
(* The inductive invariant.                                                *)

(* A link that was lost stays lost.                                        *)
Links ==
  \A t \in DOMAIN transports :
    transports[t].link <= board.link /\ (~board.present => transports[t].link < board.link)

(* The user's call and the page.                                           *)
Calls ==
  user # None =>
    /\ user.op = "connect" =>
         /\ user.pc \in {"open", "fingerprint"} /\ shell = "disconnected"
         /\ user.s = session /\ session # 0 /\ Cached(cache) = {}
         /\ poller # None => poller.began # session
    /\ user.op = "disconnect" =>
         /\ user.pc \in {"close", "forget"} /\ shell = "disconnected"
         /\ user.s = session /\ (user.pc = "close" => session # 0)
         /\ ~user.beside => poller = None /\ (session # 0 => sessions[session].transport = 0)
    /\ user.op = "configure" =>
         user.pc = "write" /\ user.began = session /\ session # 0 /\ user.name # None /\ user.value # None
    /\ user.op # "poll"

(* The page's dictionary and reference are those of its session.           *)
Remembered ==
  /\ \A s \in DOMAIN sessions :
       sessions[s].fingerprint # None => sessions[s].fingerprint = sessions[s].opened
  /\ \A i \in Cached(cache) : session # 0 /\ dicts[cache][i].of = sessions[session].opened

Polling ==
  poller # None =>
    /\ poller.op = "poll" /\ poller.began # 0
    /\ poller.pc \in {"status", "teardown", "resolve", "status again", "replay"}
    /\ poller.pc \in {"teardown", "resolve"} => poller.s # 0
    /\ poller.pc = "status again" =>
         /\ poller.node # 0
         /\ tree = poller.node /\ session # 0 =>
              NodeOf(session) = poller.node \/ (user # None /\ user.pc \in {"open", "forget"})

Replaying ==
  At("replay") =>
    /\ poller.dict # 0 /\ poller.todo \subseteq Cached(poller.dict)
    /\ ~poller.swapped => poller.read = board.image
    /\ shell = "connected" /\ poller.began = session =>
         poller.read = sessions[session].opened /\ poller.dict = cache
    /\ ~poller.faulted /\ ~poller.beside =>
         /\ user = None /\ session # 0 /\ poller.dict = cache /\ Alive(NodeOf(session))
         /\ Untangled =>
              /\ transports[NodeOf(session)].image = board.image
              /\ \A i \in (Cached(cache) \ poller.todo) \intersect Holds(board.image) :
                   board.regs[i] = dicts[cache][i].value

Dead(t) == t # 0 => transports[t].link # board.link

(* The tree holds what the session resolved, or what can serve nobody.     *)
TreeIsOwn ==
  Untangled =>
    /\ NodeOf(session) \in {0, tree}
    /\ poller # None =>
         /\ poller.began = session
         /\ poller.pc = "status" => tree \in {0, poller.node}
         /\ poller.pc \in {"teardown", "resolve"} => poller.s = session /\ Dead(tree)
         /\ poller.pc = "status again" /\ ~poller.swapped /\ Alive(poller.node) =>
              transports[poller.node].image = board.image

(* Somebody is about to close what the tree holds.                         *)
TreeIsOwned ==
  Untangled /\ "was cancelled" \notin sessions[session].hurt /\ tree # 0 =>
    \/ sessions[session].transport = tree
    \/ At("teardown") /\ poller.transport = tree
    \/ /\ user # None
       /\ \/ user.pc = "open"
          \/ user.pc = "close" /\ user.transport = tree
          \/ user.op = "disconnect" /\ user.beside

IInv ==
  TypeOK /\ Links /\ Calls /\ Remembered /\ Polling /\ Replaying /\ TreeIsOwn /\ TreeIsOwned

(* A session across rebuilds: its reference and its configuration last.    *)
SessionLasts == ChangedIsSeen /\ ReconnectRestores /\ IInv
=============================================================================
