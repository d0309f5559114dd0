-------------------------- MODULE GuiSessionProofs --------------------------
(***************************************************************************)
(* For any images, instruments and settings, however many calls and        *)
(* faults: the invariant that holds the session, the poll and the user's   *)
(* call together, and what it gives - a status is compared with the        *)
(* gateware the session was opened on, a rebuild puts the configuration    *)
(* back, no configuration reaches other gateware, and a disconnect leaves  *)
(* no transport open.                                                      *)
(***************************************************************************)
EXTENDS GuiSession, FiniteSetTheorems, SequenceTheorems, TLAPS

----------------------------------------------------------------------------
(* What the type invariant says of each part.                              *)

Hurts == SUBSET {"opened beside a poll", "found no board", "was cancelled"}

(* What a call holds is of what exists.                                    *)
Held(j) ==
  /\ j.op \in {"poll", "connect", "disconnect", "configure"}
  /\ j.node \in Transports /\ j.transport \in Transports
  /\ j.s \in 0..Len(sessions) /\ j.began \in 0..Len(sessions) /\ j.dict \in 0..Len(dicts)
  /\ j.name \in Instruments \union {None} /\ j.value \in Settings \union {None}
  /\ j.read \in Images \union {None} /\ j.todo \subseteq Instruments /\ j.size \in Nat
  /\ j.swapped \in BOOLEAN /\ j.faulted \in BOOLEAN /\ j.beside \in BOOLEAN

LEMMA CallsHold == ASSUME TypeOK
  PROVE  (poller # None => Held(poller)) /\ (user # None => Held(user))
  BY DEF TypeOK, Held, Running, Jobs

AnyTransport == [link : Nat, image : Images]
AnySession ==
  [node : Transports, transport : Transports, fingerprint : Images \union {None},
   opened : Images \union {None}, hurt : Hurts]
AnyDict == [Instruments -> Told \union {None}]

(* The elements of a sequence.                                             *)
LEMMA Elements == ASSUME NEW S, NEW q \in Seq(S)
  PROVE  Len(q) \in Nat /\ DOMAIN q = 1..Len(q) /\ \A i \in 1..Len(q) : q[i] \in S
  OBVIOUS

LEMMA TransportsHold == ASSUME TypeOK
  PROVE  /\ Len(transports) \in Nat /\ DOMAIN transports = 1..Len(transports) /\ tree \in 0..Len(transports)
         /\ board.link \in Nat /\ board.image \in Images /\ board.present \in BOOLEAN
         /\ board.regs \in [Instruments -> Settings \union {None}]
         /\ \A t \in 1..Len(transports) : transports[t].link \in Nat /\ transports[t].image \in Images
<1>1. transports \in Seq(AnyTransport)
  BY DEF TypeOK, AnyTransport
<1>2. /\ Len(transports) \in Nat /\ DOMAIN transports = 1..Len(transports)
      /\ \A t \in 1..Len(transports) : transports[t] \in AnyTransport
  BY <1>1, Elements
<1>3. /\ board.link \in Nat /\ board.image \in Images /\ board.present \in BOOLEAN
      /\ board.regs \in [Instruments -> Settings \union {None}] /\ tree \in 0..Len(transports)
  BY DEF TypeOK, Transports
<1> QED
  BY <1>2, <1>3 DEF AnyTransport

LEMMA SessionsHold == ASSUME TypeOK
  PROVE  /\ Len(sessions) \in Nat /\ DOMAIN sessions = 1..Len(sessions) /\ session \in 0..Len(sessions)
         /\ \A s \in 1..Len(sessions) :
              /\ sessions[s].node \in 0..Len(transports) /\ sessions[s].transport \in 0..Len(transports)
              /\ sessions[s].fingerprint \in Images \union {None} /\ sessions[s].opened \in Images \union {None}
              /\ sessions[s].hurt \in Hurts
         /\ NodeOf(session) \in 0..Len(transports)
<1>1. sessions \in Seq(AnySession) /\ session \in 0..Len(sessions)
  BY DEF TypeOK, AnySession, Hurts
<1>2. /\ Len(sessions) \in Nat /\ DOMAIN sessions = 1..Len(sessions)
      /\ \A s \in 1..Len(sessions) : sessions[s] \in AnySession
  BY <1>1, Elements
<1>3. \A s \in 1..Len(sessions) :
        /\ sessions[s].node \in 0..Len(transports) /\ sessions[s].transport \in 0..Len(transports)
        /\ sessions[s].fingerprint \in Images \union {None} /\ sessions[s].opened \in Images \union {None}
        /\ sessions[s].hurt \in Hurts
  BY <1>2 DEF AnySession, Transports
<1> QED
  BY <1>1, <1>2, <1>3, TransportsHold DEF NodeOf

LEMMA DictsHold == ASSUME TypeOK
  PROVE  /\ Len(dicts) \in Nat /\ DOMAIN dicts = 1..Len(dicts) /\ cache \in 1..Len(dicts)
         /\ \A d \in 1..Len(dicts) : dicts[d] \in [Instruments -> Told \union {None}]
<1>1. dicts \in Seq(AnyDict) /\ cache \in DOMAIN dicts
  BY DEF TypeOK, AnyDict
<1> QED
  BY <1>1, Elements DEF AnyDict

----------------------------------------------------------------------------
(* What a call becomes.                                                    *)

LEMMA JobsGrow ==
  ASSUME NEW s, NEW t, NEW d, NEW ss, NEW tt, NEW dd, s \subseteq ss, t \subseteq tt, d \subseteq dd
  PROVE  Jobs(s, t, d) \subseteq Jobs(ss, tt, dd)
  BY DEF Jobs

LEMMA JobsNotNone == ASSUME NEW j \in Running, TypeOK
  PROVE  j # None
<1>1. 0..Len(sessions) \subseteq Nat /\ Transports \subseteq Nat /\ 0..Len(dicts) \subseteq Nat
  BY TransportsHold, SessionsHold, DictsHold DEF Transports
<1>2. Running \subseteq Jobs(Nat, Nat, Nat)
  BY <1>1, JobsGrow DEF Running
<1> QED
  BY <1>2, NoneAssumption

LEMMA StartedJob == ASSUME TypeOK,
    NEW op \in {"poll", "connect", "disconnect", "configure"},
    NEW pc \in {"status", "open", "close", "forget", "write"}
  PROVE  /\ Job(op, pc) \in Running
         /\ Job(op, pc).op = op /\ Job(op, pc).pc = pc /\ Job(op, pc).s = 0
         /\ Job(op, pc).began = session
<1>1. /\ 0 \in 0..Len(sessions) /\ session \in 0..Len(sessions)
      /\ 0 \in Transports /\ 0 \in 0..Len(dicts)
  BY SessionsHold, TransportsHold, DictsHold DEF Transports
<1>2. Job(op, pc) \in Running
  BY <1>1 DEF Job, Running, Jobs
<1> QED
  BY <1>2 DEF Job

LEMMA FlaggedJob == ASSUME NEW j \in Running, NEW b \in BOOLEAN
  PROVE  [j EXCEPT !.beside = b] \in Running
  BY DEF Running, Jobs

(* A poll that ends, short of tearing a transport down, disturbs nothing.  *)
LEMMA PollEnded ==
  ASSUME IInv, poller' = None, ~At("teardown"),
         UNCHANGED <<board, transports, tree, sessions, session, dicts, cache, user>>,
         shell' = shell \/ (shell = "connected" /\ shell' = "stale")
  PROVE  IInv'
<1>1. TypeOK'
  BY DEF IInv, TypeOK, Transports, Running
<1>2. Links'
  BY DEF IInv, Links
<1>3. Calls'
  BY DEF IInv, Calls, Cached
<1>4. Remembered'
  BY DEF IInv, Remembered, Cached
<1>5. Polling' /\ Replaying'
  BY DEF Polling, Replaying, At
<1>6. TreeIsOwn' /\ TreeIsOwned'
  BY DEF IInv, TreeIsOwn, TreeIsOwned, Untangled, NodeOf, At
<1> QED
  BY <1>1, <1>2, <1>3, <1>4, <1>5, <1>6 DEF IInv

LEMMA BeginPollIInv ==
  ASSUME IInv, NEW name \in Instruments, BeginPoll(name)
  PROVE  IInv'
<1> DEFINE j == [Job("poll", "status") EXCEPT !.name = name, !.node = NodeOf(session), !.beside = user # None]
<1>1. CASE session = 0 \/ ~Found(session, name)
  BY <1>1, PollEnded DEF BeginPoll, PollEnds, At
<1>2. CASE session # 0 /\ Found(session, name)
  <2>1. poller' = j /\ poller = None /\ shell = "connected"
        /\ UNCHANGED <<board, transports, tree, sessions, session, dicts, cache, shell, user>>
    BY <1>2 DEF BeginPoll, Goes
  <2>2. j \in Running /\ j.op = "poll" /\ j.pc = "status" /\ j.began = session /\ j.node = NodeOf(session)
    <3>1. Job("poll", "status") \in Running /\ Job("poll", "status").op = "poll"
          /\ Job("poll", "status").pc = "status" /\ Job("poll", "status").began = session
      BY StartedJob DEF IInv
    <3>2. NodeOf(session) \in Transports
      BY SessionsHold DEF IInv, Transports
    <3> HIDE DEF Job
    <3> QED
      BY <3>1, <3>2 DEF Running, Jobs
  <2> HIDE DEF j
  <2>3. TypeOK'
    BY <2>1, <2>2 DEF IInv, TypeOK, Transports, Running
  <2>4. Links'
    BY <2>1 DEF IInv, Links
  <2>5. Calls'
    BY <2>1 DEF IInv, Calls
  <2>6. Remembered'
    BY <2>1 DEF IInv, Remembered, Cached
  <2>7. Polling' /\ Replaying'
    BY <1>2, <2>1, <2>2 DEF Polling, Replaying, At
  <2>8. TreeIsOwn'
    BY <1>2, <2>1, <2>2 DEF IInv, TreeIsOwn, Untangled, NodeOf, At, Found
  <2>9. TreeIsOwned'
    BY <2>1 DEF IInv, TreeIsOwned, Untangled, At
  <2> QED
    BY <2>3, <2>4, <2>5, <2>6, <2>7, <2>8, <2>9 DEF IInv
<1> QED
  BY <1>1, <1>2

LEMMA StatusAnsweredIInv == ASSUME IInv, StatusAnswered PROVE IInv'
  BY PollEnded DEF StatusAnswered, PollEnds, Shown, At

LEMMA ReplayedIInv == ASSUME IInv, Replayed PROVE IInv'
  BY PollEnded DEF Replayed, PollEnds, At

(* One session changes.                                                    *)
LEMMA Replaced ==
  ASSUME NEW S, NEW q \in Seq(S), NEW i \in 1..Len(q), NEW e \in S
  PROVE  LET p == [q EXCEPT ![i] = e] IN
         /\ p \in Seq(S) /\ Len(p) = Len(q) /\ DOMAIN p = 1..Len(q) /\ p[i] = e
         /\ \A x \in 1..Len(q) : x # i => p[x] = q[x]
  OBVIOUS

LEMMA SessionReplaced ==
  ASSUME TypeOK, NEW s \in 1..Len(sessions), NEW e \in AnySession,
         sessions' = [sessions EXCEPT ![s] = e]
  PROVE  /\ sessions' \in Seq(AnySession) /\ Len(sessions') = Len(sessions)
         /\ DOMAIN sessions' = DOMAIN sessions /\ sessions'[s] = e
         /\ \A x \in DOMAIN sessions : x # s => sessions'[x] = sessions[x]
<1>1. sessions \in Seq(AnySession)
  BY DEF TypeOK, AnySession, Hurts
<1> QED
  BY <1>1, Replaced, SessionsHold

LEMMA SessionTyped == ASSUME TypeOK, NEW s \in 1..Len(sessions) PROVE sessions[s] \in AnySession
<1>1. sessions \in Seq(AnySession)
  BY DEF TypeOK, AnySession, Hurts
<1> QED
  BY <1>1, Elements

LEMMA StatusFailedIInv == ASSUME IInv, StatusFailed PROVE IInv'
<1>1. CASE session = 0
  BY <1>1, PollEnded DEF StatusFailed, PollEnds, At
<1>2. CASE session # 0
  <2> DEFINE e == [sessions[session] EXCEPT !.transport = 0]
             j == [poller EXCEPT !.pc = "teardown", !.s = session, !.transport = sessions[session].transport]
  <2>1. /\ sessions' = [sessions EXCEPT ![session] = e] /\ poller' = j
        /\ At("status") /\ ~Alive(poller.node)
        /\ UNCHANGED <<board, transports, tree, session, dicts, cache, shell, user>>
    BY <1>2 DEF StatusFailed, Goes
  <2>2. session \in 1..Len(sessions) /\ session \in DOMAIN sessions
    BY <1>2, SessionsHold DEF IInv
  <2>3. e \in AnySession /\ e.node = sessions[session].node /\ e.transport = 0
        /\ e.fingerprint = sessions[session].fingerprint /\ e.opened = sessions[session].opened
        /\ e.hurt = sessions[session].hurt
    <3>1. sessions[session] \in AnySession /\ 0 \in Transports
      BY <2>2, SessionTyped, TransportsHold DEF IInv, Transports
    <3> QED
      BY <3>1 DEF AnySession
  <2>4. j \in Running /\ j.op = poller.op /\ j.pc = "teardown" /\ j.s = session /\ j.transport = sessions[session].transport
        /\ j.began = poller.began
    <3>1. poller \in Running
      BY <2>1 DEF IInv, TypeOK, At
    <3>2. sessions[session].transport \in Transports /\ session \in 0..Len(sessions)
      BY <2>2, SessionsHold DEF IInv, Transports
    <3> QED
      BY <3>1, <3>2 DEF Running, Jobs
  <2> HIDE DEF e, j
  <2>5. /\ sessions' \in Seq(AnySession) /\ Len(sessions') = Len(sessions)
        /\ DOMAIN sessions' = DOMAIN sessions /\ sessions'[session] = e
        /\ \A x \in DOMAIN sessions : x # session => sessions'[x] = sessions[x]
    BY <2>1, <2>2, <2>3, SessionReplaced DEF IInv
  <2>6. NodeOf(session)' = NodeOf(session) /\ Untangled' = Untangled
    BY <2>1, <2>3, <2>5 DEF NodeOf, Untangled
  <2>7. TypeOK'
    BY <2>1, <2>2, <2>3, <2>4, <2>5 DEF IInv, TypeOK, Transports, Running, AnySession, Hurts
  <2>8. Links'
    BY <2>1 DEF IInv, Links
  <2>9. Calls'
    BY <2>1, <2>4 DEF IInv, Calls, Cached, At
  <2>10. Remembered'
    BY <2>1, <2>2, <2>3, <2>5 DEF IInv, Remembered, Cached
  <2>11. Polling' /\ Replaying'
    BY <1>2, <2>1, <2>4 DEF IInv, Polling, Replaying, At
  <2>12. TreeIsOwn'
    <3>1. Untangled /\ tree # 0 => transports[tree].link # board.link
      BY <1>2, <2>1, TransportsHold DEF IInv, TreeIsOwn, At, Alive, Links
    <3> QED
      BY <2>1, <2>4, <2>6, <3>1 DEF IInv, TreeIsOwn, Dead, At
  <2>13. TreeIsOwned'
    BY <2>1, <2>3, <2>4, <2>5, <2>6, JobsNotNone DEF IInv, TreeIsOwned, At
  <2> QED
    BY <2>7, <2>8, <2>9, <2>10, <2>11, <2>12, <2>13 DEF IInv
<1> QED
  BY <1>1, <1>2

LEMMA RebuildIInv == ASSUME IInv, Rebuild PROVE IInv'
<1> DEFINE e == [sessions[poller.s] EXCEPT !.node = 0]
           j == [poller EXCEPT !.pc = "resolve"]
           s == poller.s
<1>1. /\ sessions' = [sessions EXCEPT ![s] = e] /\ poller' = j
      /\ At("teardown") /\ tree' = TornDown(poller.transport)
      /\ UNCHANGED <<board, transports, session, dicts, cache, shell, user>>
  BY DEF Rebuild, Goes
<1>2. s \in 1..Len(sessions) /\ s \in DOMAIN sessions /\ Held(poller)
  BY <1>1, SessionsHold, CallsHold DEF IInv, Polling, At, Held
<1>3. e \in AnySession /\ e.node = 0 /\ e.transport = sessions[s].transport
      /\ e.fingerprint = sessions[s].fingerprint /\ e.opened = sessions[s].opened
      /\ e.hurt = sessions[s].hurt
  <2>1. sessions[s] \in AnySession /\ 0 \in Transports
    BY <1>2, SessionTyped, TransportsHold DEF IInv, Transports
  <2> QED
    BY <2>1 DEF AnySession
<1>4. j \in Running /\ j.op = poller.op /\ j.pc = "resolve" /\ j.s = s /\ j.began = poller.began
  <2>1. poller \in Running
    BY <1>1 DEF IInv, TypeOK, At
  <2> QED
    BY <2>1 DEF Running, Jobs
<1> HIDE DEF e, j
<1>5. /\ sessions' \in Seq(AnySession) /\ Len(sessions') = Len(sessions)
      /\ DOMAIN sessions' = DOMAIN sessions /\ sessions'[s] = e
      /\ \A x \in DOMAIN sessions : x # s => sessions'[x] = sessions[x]
  BY <1>1, <1>2, <1>3, SessionReplaced DEF IInv
<1>6. /\ NodeOf(session)' = IF session = s THEN 0 ELSE NodeOf(session)
      /\ Untangled' = Untangled /\ tree' \in {0, tree} /\ tree' \in Transports
      /\ session # 0 => /\ sessions'[session].transport = sessions[session].transport
                        /\ sessions'[session].hurt = sessions[session].hurt
                        /\ sessions'[session].opened = sessions[session].opened
                        /\ sessions'[session].fingerprint = sessions[session].fingerprint
  <2>1. session # 0 => session \in DOMAIN sessions
    BY SessionsHold DEF IInv
  <2>2. tree' \in {0, tree} /\ tree' \in Transports
    BY <1>1, TransportsHold DEF IInv, TornDown, Transports
  <2>3. CASE session = s
    BY <1>1, <1>2, <1>3, <1>5, <2>1, <2>2, <2>3 DEF NodeOf, Untangled
  <2>4. CASE session # s
    <3>1. session # 0 => sessions'[session] = sessions[session]
      BY <1>5, <2>1, <2>4
    <3> QED
      BY <1>1, <2>2, <2>4, <3>1 DEF NodeOf, Untangled
  <2> QED
    BY <2>3, <2>4
<1>7. TypeOK'
  BY <1>1, <1>3, <1>4, <1>5, <1>6 DEF IInv, TypeOK, Transports, Running, AnySession, Hurts
<1>8. Links'
  BY <1>1 DEF IInv, Links
<1>9. Calls'
  BY <1>1, <1>4, <1>6 DEF IInv, Calls, Cached, At
<1>10. Remembered'
  BY <1>1, <1>2, <1>3, <1>5, <1>6 DEF IInv, Remembered, Cached
<1>11. Polling' /\ Replaying'
  BY <1>1, <1>2, <1>4 DEF IInv, Polling, Replaying, At
<1>12. TreeIsOwn'
  BY <1>1, <1>4, <1>6 DEF IInv, TreeIsOwn, Dead, At
<1>13. TreeIsOwned'
  BY <1>1, <1>2, <1>4, <1>6 DEF IInv, TreeIsOwned, At, TornDown, Untangled
<1> QED
  BY <1>7, <1>8, <1>9, <1>10, <1>11, <1>12, <1>13 DEF IInv

(* What is resolved is the tree's, or what was opened for it.              *)
LEMMA SummonedHold ==
  ASSUME TypeOK, Links, Reachable, NEW t \in 1..Len(transports)+1, Summoned(t, transports')
  PROVE  /\ t \in 1..Len(transports') /\ Transports \subseteq Transports' /\ Len(transports) <= Len(transports')
         /\ transports' \in Seq([link : Nat, image : Images])
         /\ \A x \in 1..Len(transports) : transports'[x] = transports[x]
         /\ tree # 0 => t = tree /\ transports' = transports
         /\ tree = 0 => transports'[t].link = board.link /\ transports'[t].image = board.image
         /\ UNCHANGED board => Links'
<1>1. transports \in Seq([link : Nat, image : Images])
  BY DEF TypeOK
<1>2. CASE tree # 0
  BY <1>1, <1>2, TransportsHold DEF Summoned, Transports, Links
<1>3. CASE tree = 0
  <2> DEFINE e == [link |-> board.link, image |-> board.image]
  <2>1. board.present /\ t = Len(transports) + 1 /\ transports' = Append(transports, e)
    BY <1>3 DEF Summoned
  <2>2. e \in [link : Nat, image : Images] /\ e.link = board.link /\ e.image = board.image
    BY TransportsHold
  <2> HIDE DEF e
  <2>3. /\ transports' \in Seq([link : Nat, image : Images])
        /\ Len(transports') = Len(transports) + 1 /\ transports'[t] = e
        /\ DOMAIN transports' = 1..Len(transports) + 1
        /\ \A x \in 1..Len(transports) : transports'[x] = transports[x]
    BY <1>1, <2>1, <2>2
  <2>4. UNCHANGED board => Links'
    <3> SUFFICES ASSUME board' = board, NEW x \in 1..Len(transports) + 1
                 PROVE  transports'[x].link <= board.link /\ (~board.present => transports'[x].link < board.link)
      BY <2>3 DEF Links
    <3>1. CASE x = t
      BY <2>1, <2>2, <2>3, <3>1, TransportsHold
    <3>2. CASE x # t
      BY <2>1, <2>3, <3>2, TransportsHold DEF Links
    <3> QED
      BY <3>1, <3>2
  <2> QED
    BY <1>3, <2>1, <2>2, <2>3, <2>4, TransportsHold DEF Transports
<1> QED
  BY <1>2, <1>3

LEMMA RebuiltIInv == ASSUME IInv, Rebuilt PROVE IInv'
<1> DEFINE s == poller.s
<1>1. PICK t \in 1..Len(transports)+1 :
        /\ At("resolve") /\ Reachable /\ Summoned(t, transports') /\ tree' = t
        /\ sessions' = [sessions EXCEPT ![s] = Resolved(@, t)]
        /\ UNCHANGED <<board, session, dicts, cache, shell, user>>
        /\ LET n == IF session = 0 THEN 0 ELSE sessions'[session].node IN
             \/ n # 0 /\ poller' = [poller EXCEPT !.pc = "status again", !.node = n]
             \/ poller' = None
  BY DEF Rebuilt, Goes, PollEnds
<1> DEFINE e == Resolved(sessions[s], t)
           n == IF session = 0 THEN 0 ELSE sessions'[session].node
<1>2. s \in 1..Len(sessions) /\ s \in DOMAIN sessions /\ Held(poller) /\ poller \in Running /\ poller # None
  <2>1. poller # None /\ poller.pc = "resolve"
    BY <1>1 DEF At
  <2>2. s # 0 /\ Held(poller) /\ poller \in Running
    BY <2>1, CallsHold DEF IInv, TypeOK, Polling
  <2> QED
    BY <2>1, <2>2, SessionsHold DEF IInv, Held
<1>3. /\ t \in 1..Len(transports') /\ Transports \subseteq Transports' /\ Len(transports) <= Len(transports')
      /\ transports' \in Seq([link : Nat, image : Images])
      /\ \A x \in 1..Len(transports) : transports'[x] = transports[x]
      /\ tree # 0 => t = tree /\ transports' = transports
      /\ tree = 0 => transports'[t].link = board.link /\ transports'[t].image = board.image
      /\ Links'
  BY <1>1, SummonedHold DEF IInv
<1>t. t \in Transports' /\ t # 0 /\ Len(transports') \in Nat
  BY <1>3, Elements DEF Transports
<1>4. e \in AnySession' /\ e.node = t /\ e.transport = t
      /\ e.fingerprint = sessions[s].fingerprint /\ e.opened = sessions[s].opened
      /\ e.hurt = sessions[s].hurt
  <2>1. sessions[s] \in AnySession
    BY <1>2, SessionTyped DEF IInv
  <2> QED
    BY <1>t, <1>3, <2>1 DEF AnySession, Resolved
<1>5. /\ sessions' \in Seq(AnySession') /\ Len(sessions') = Len(sessions)
      /\ DOMAIN sessions' = DOMAIN sessions /\ sessions'[s] = e
      /\ \A x \in DOMAIN sessions : x # s => sessions'[x] = sessions[x]
  <2>1. sessions \in Seq(AnySession)
    BY DEF IInv, TypeOK, AnySession, Hurts
  <2>2. AnySession \subseteq AnySession'
    BY <1>3 DEF AnySession
  <2>3. sessions \in Seq(AnySession')
    BY <2>1, <2>2
  <2> HIDE DEF e
  <2>4. sessions' = [sessions EXCEPT ![s] = e]
    BY <1>1 DEF e
  <2> QED
    BY <1>2, <1>4, <2>3, <2>4, Replaced, SessionsHold DEF IInv
<1>6. /\ session # 0 => /\ session \in DOMAIN sessions
                        /\ sessions'[session].hurt = sessions[session].hurt
                        /\ sessions'[session].opened = sessions[session].opened
                        /\ sessions'[session].fingerprint = sessions[session].fingerprint
      /\ session = s => n = t /\ NodeOf(session)' = t /\ sessions'[session].transport = t
      /\ Untangled' = Untangled /\ NodeOf(session)' = n /\ n \in Transports'
      /\ Untangled => session = s /\ Dead(tree)
  <2>1. session # 0 => session \in DOMAIN sessions
    BY SessionsHold DEF IInv
  <2>2. Untangled => session = s /\ Dead(tree)
    BY <1>1 DEF IInv, TreeIsOwn, At
  <2>3. CASE session = s
    <3>1. session # 0 /\ sessions'[session] = e /\ session' = session /\ n = t
      BY <1>1, <1>2, <1>4, <1>5, <2>3
    <3> HIDE DEF e, n
    <3> QED
      BY <1>2, <1>4, <1>t, <2>1, <2>2, <2>3, <3>1 DEF NodeOf, Untangled
  <2>4. CASE session # s
    <3>1. session # 0 => sessions'[session] = sessions[session]
      BY <1>5, <2>1, <2>4
    <3>2. session # 0 => sessions[session].node \in Transports
      BY <2>1, SessionsHold DEF IInv, Transports
    <3>3. n \in Transports'
      BY <1>3, <1>t, <3>1, <3>2 DEF Transports
    <3>4. Untangled' = Untangled
      BY <1>1, <2>2, <2>4, <3>1 DEF Untangled
    <3>5. NodeOf(session)' = n
      BY <1>1 DEF NodeOf
    <3> HIDE DEF n
    <3> QED
      BY <2>1, <2>2, <2>4, <3>1, <3>3, <3>4, <3>5
  <2> QED
    BY <2>3, <2>4
<1>7. /\ poller' # None =>
           /\ poller'.pc = "status again" /\ poller'.node = n /\ n # 0
           /\ poller'.op = poller.op /\ poller'.began = poller.began /\ poller'.s = poller.s
           /\ poller'.swapped = poller.swapped
      /\ poller' \in Running' \union {None}
  <2> HIDE DEF n
  <2>1. poller \in Running'
    <3>1. Running \subseteq Running'
      BY <1>1, <1>3, <1>5, JobsGrow DEF Running
    <3> QED
      BY <1>2, <3>1
  <2>2. CASE poller' = None
    BY <2>2
  <2>3. CASE n # 0 /\ poller' = [poller EXCEPT !.pc = "status again", !.node = n]
    BY <1>6, <2>1, <2>3 DEF Running, Jobs
  <2> QED
    BY <1>1, <2>2, <2>3 DEF n
<1> HIDE DEF e, n
<1>8. TypeOK'
  <2>1. Running \subseteq Running'
    BY <1>1, <1>3, <1>5, JobsGrow DEF Running
  <2>2. user' \in Running' \union {None}
    BY <1>1, <2>1 DEF IInv, TypeOK
  <2>3. board' \in [present : BOOLEAN, image : Images, link : Nat, regs : [Instruments -> Settings \union {None}]]
        /\ dicts' \in Seq([Instruments -> Told \union {None}]) /\ cache' \in DOMAIN dicts'
        /\ shell' \in {"disconnected", "connected", "stale"} /\ session' \in 0..Len(sessions')
    BY <1>1, <1>5 DEF IInv, TypeOK
  <2>4. shell' # "disconnected" => session' # 0 /\ sessions'[session'].fingerprint \in Images
    BY <1>1, <1>6 DEF IInv, TypeOK
  <2>5. sessions' \in Seq([node : Transports', transport : Transports', fingerprint : Images \union {None},
                       opened : Images \union {None},
                       hurt : SUBSET {"opened beside a poll", "found no board", "was cancelled"}])
    BY <1>5 DEF AnySession, Hurts
  <2> QED
    BY <1>1, <1>3, <1>t, <1>7, <2>2, <2>3, <2>4, <2>5 DEF TypeOK
<1>9. Calls'
  BY <1>1, <1>7, <1>6 DEF IInv, Calls, Cached, At
<1>10. Remembered'
  BY <1>1, <1>2, <1>4, <1>5, <1>6 DEF IInv, Remembered, Cached
<1>11. Polling' /\ Replaying'
  BY <1>1, <1>2, <1>6, <1>7 DEF IInv, Polling, Replaying, At
<1>12. TreeIsOwn'
  <2>1. Untangled /\ Alive(t)' => transports'[t].image = board.image
    BY <1>1, <1>3, <1>6, TransportsHold DEF IInv, Alive, Dead
  <2>2. Untangled => /\ n = t /\ tree' = t
                     /\ poller' # None => poller'.began = session /\ poller'.pc = "status again" /\ poller'.node = t
    BY <1>1, <1>2, <1>6, <1>7 DEF IInv, TreeIsOwn
  <2>3. Untangled /\ poller' # None /\ Alive(poller.node)' => transports'[poller'.node].image = board'.image
    BY <1>1, <2>1, <2>2 DEF Alive
  <2> QED
    BY <1>1, <1>6, <2>2, <2>3 DEF TreeIsOwn
<1>13. TreeIsOwned'
  BY <1>1, <1>6 DEF IInv, TreeIsOwned, At, Untangled
<1> QED
  BY <1>3, <1>8, <1>9, <1>10, <1>11, <1>12, <1>13 DEF IInv

LEMMA StillAwayIInv == ASSUME IInv, StillAway PROVE IInv'
<1> DEFINE s == poller.s
           e == [sessions[s] EXCEPT !.hurt = @ \union {"found no board"}]
<1>1. /\ sessions' = [sessions EXCEPT ![s] = e] /\ poller' = None
      /\ At("resolve") /\ tree = 0
      /\ UNCHANGED <<board, transports, tree, session, dicts, cache, shell, user>>
  BY DEF StillAway, PollEnds, Reachable
<1>2. s \in 1..Len(sessions) /\ s \in DOMAIN sessions
  <2>1. poller # None /\ poller.pc = "resolve"
    BY <1>1 DEF At
  <2>2. s # 0 /\ Held(poller)
    BY <2>1, CallsHold DEF IInv, Polling
  <2> QED
    BY <2>2, SessionsHold DEF IInv, Held
<1>3. e \in AnySession /\ e.node = sessions[s].node /\ e.transport = sessions[s].transport
      /\ e.fingerprint = sessions[s].fingerprint /\ e.opened = sessions[s].opened
      /\ e.hurt = sessions[s].hurt \union {"found no board"}
  <2>1. sessions[s] \in AnySession
    BY <1>2, SessionTyped DEF IInv
  <2> QED
    BY <2>1 DEF AnySession, Hurts
<1> HIDE DEF e
<1>4. /\ sessions' \in Seq(AnySession) /\ Len(sessions') = Len(sessions)
      /\ DOMAIN sessions' = DOMAIN sessions /\ sessions'[s] = e
      /\ \A x \in DOMAIN sessions : x # s => sessions'[x] = sessions[x]
  BY <1>1, <1>2, <1>3, SessionReplaced DEF IInv
<1>5. \A x \in DOMAIN sessions :
        /\ sessions'[x].node = sessions[x].node /\ sessions'[x].transport = sessions[x].transport
        /\ sessions'[x].fingerprint = sessions[x].fingerprint /\ sessions'[x].opened = sessions[x].opened
        /\ "opened beside a poll" \notin sessions'[x].hurt => "opened beside a poll" \notin sessions[x].hurt
  BY <1>2, <1>3, <1>4
<1>6. session # 0 => session \in DOMAIN sessions
  BY SessionsHold DEF IInv
<1>7. TypeOK'
  BY <1>1, <1>4, <1>5, <1>6 DEF IInv, TypeOK, Transports, Running, AnySession, Hurts
<1>8. Links' /\ Polling' /\ Replaying'
  BY <1>1 DEF IInv, Links, Polling, Replaying, At
<1>9. Calls'
  BY <1>1, <1>5, <1>6 DEF IInv, Calls, Cached
<1>10. Remembered'
  <2>1. \A x \in DOMAIN sessions' :
          sessions'[x].fingerprint # None => sessions'[x].fingerprint = sessions'[x].opened
    BY <1>4, <1>5 DEF IInv, Remembered
  <2>2. \A i \in Cached(cache)' : session' # 0 /\ dicts'[cache'][i].of = sessions'[session'].opened
    BY <1>1, <1>5, <1>6 DEF IInv, Remembered, Cached
  <2> QED
    BY <2>1, <2>2 DEF Remembered
<1>11. TreeIsOwn' /\ TreeIsOwned'
  BY <1>1, <1>5, <1>6 DEF IInv, TreeIsOwn, TreeIsOwned, Untangled, NodeOf
<1> QED
  BY <1>7, <1>8, <1>9, <1>10, <1>11 DEF IInv

LEMMA CachedIsFinite == ASSUME TypeOK, NEW d PROVE Cardinality(Cached(d)) \in Nat
<1>1. Cached(d) \subseteq Instruments
  BY DEF Cached
<1> QED
  BY <1>1, InstrumentsAssumption, FS_Subset, FS_CardinalityType

LEMMA StatusAgainIInv == ASSUME IInv, StatusAgain PROVE IInv'
<1> DEFINE j == [poller EXCEPT !.pc = "replay", !.dict = cache, !.todo = ToReplay(cache),
                               !.size = Cardinality(Cached(cache)), !.read = board.image,
                               !.faulted = poller.swapped, !.beside = user # None]
<1>1. CASE ~Alive(poller.node) \/ session = 0
  BY <1>1, PollEnded DEF StatusAgain, PollEnds, At
<1>2. CASE Alive(poller.node) /\ session # 0 /\ ~Replays(Differs(board.image))
  BY <1>2, PollEnded DEF StatusAgain, PollEnds, Shown, At
<1>3. CASE Alive(poller.node) /\ session # 0 /\ Replays(Differs(board.image))
  <2>1. /\ poller' = j /\ At("status again") /\ poller # None /\ ~Differs(board.image)
        /\ UNCHANGED <<board, transports, tree, sessions, session, dicts, cache, shell, user>>
    BY <1>3 DEF StatusAgain, Goes, Replays, At
  <2>2. /\ j \in Running /\ j.op = poller.op /\ j.pc = "replay" /\ j.began = poller.began
        /\ j.dict = cache /\ j.todo = Cached(cache) /\ j.read = board.image
        /\ j.swapped = poller.swapped /\ j.faulted = poller.swapped /\ j.beside = (user # None)
    <3>1. poller \in Running
      BY <2>1 DEF IInv, TypeOK
    <3>2. cache \in 0..Len(dicts) /\ Cached(cache) \subseteq Instruments /\ board.image \in Images
      BY DictsHold, TransportsHold DEF IInv, Cached
    <3>3. poller.swapped \in BOOLEAN /\ (user # None) \in BOOLEAN
      BY <2>1, CallsHold DEF IInv, Held
    <3> DEFINE size == Cardinality(Cached(cache))
               beside == user # None
               image == board.image
    <3>4. size \in Nat
      BY CachedIsFinite DEF IInv
    <3>5. beside \in BOOLEAN
      OBVIOUS
    <3>6. j = [poller EXCEPT !.pc = "replay", !.dict = cache, !.todo = Cached(cache),
                               !.size = size, !.read = image,
                               !.faulted = poller.swapped, !.beside = beside]
      BY DEF ToReplay
    <3> HIDE DEF j, size, beside
    <3>7. j \in Running
      BY <3>1, <3>2, <3>3, <3>4, <3>5, <3>6 DEF Running, Jobs
    <3>8. /\ j.op = poller.op /\ j.pc = "replay" /\ j.began = poller.began
          /\ j.dict = cache /\ j.todo = Cached(cache) /\ j.read = board.image
          /\ j.swapped = poller.swapped /\ j.faulted = poller.swapped /\ j.beside = beside
      BY <3>1, <3>6 DEF Running, Jobs
    <3> QED
      BY <3>7, <3>8 DEF beside
  <2> HIDE DEF j
  <2>3. TypeOK'
    BY <2>1, <2>2 DEF IInv, TypeOK, Transports, Running
  <2>4. Links'
    BY <2>1 DEF IInv, Links
  <2>5. Calls'
    BY <2>1, <2>2 DEF IInv, Calls, Cached
  <2>6. Remembered'
    BY <2>1 DEF IInv, Remembered, Cached
  <2>7. Polling'
    BY <2>1, <2>2 DEF IInv, Polling
  <2>8. Replaying'
    <3>1. shell = "connected" => board.image = sessions[session].opened
      <4>1. shell = "connected" => sessions[session].fingerprint \in Images
        BY DEF IInv, TypeOK
      <4>2. shell = "connected" => sessions[session].fingerprint = board.image
        BY <2>1, <4>1, NoneAssumption DEF Differs
      <4>3. session \in DOMAIN sessions
        BY <1>3, SessionsHold DEF IInv
      <4> QED
        BY <4>1, <4>2, <4>3, NoneAssumption DEF IInv, Remembered
    <3>2. cache # 0
      BY DictsHold DEF IInv
    <3>3. user = None => NodeOf(session) = poller.node
      BY <1>3, <2>1 DEF IInv, Polling, At, Alive
    <3>4. Untangled /\ ~poller.swapped => transports[poller.node].image = board.image
      BY <1>3, <2>1 DEF IInv, TreeIsOwn, At
    <3>5. Cached(cache)' = Cached(cache) /\ NodeOf(session)' = NodeOf(session) /\ Untangled' = Untangled
      BY <2>1 DEF Cached, NodeOf, Untangled
    <3>6. user = None => Alive(NodeOf(session))'
      BY <1>3, <2>1, <3>3, <3>5 DEF Alive
    <3> QED
      BY <1>3, <2>1, <2>2, <3>1, <3>2, <3>3, <3>4, <3>5, <3>6 DEF Replaying, At
  <2>9. TreeIsOwn'
    BY <2>1, <2>2 DEF IInv, TreeIsOwn, Untangled, NodeOf, Dead
  <2>10. TreeIsOwned'
    BY <2>1, <2>2 DEF IInv, TreeIsOwned, Untangled, At
  <2> QED
    BY <2>3, <2>4, <2>5, <2>6, <2>7, <2>8, <2>9, <2>10 DEF IInv
<1> QED
  BY <1>1, <1>2, <1>3

LEMMA ReplayIInv ==
  ASSUME IInv, NEW i \in Instruments, Replay(i)
  PROVE  IInv'
<1> DEFINE j == [poller EXCEPT !.todo = @ \ {i}]
           value == dicts[poller.dict][i].value
<1>1. /\ poller' = j /\ At("replay") /\ poller # None /\ poller.pc = "replay" /\ i \in poller.todo
      /\ UNCHANGED <<transports, tree, sessions, session, dicts, cache, shell, user>>
  BY DEF Replay, Goes, At
<1>2. /\ j \in Running /\ j.op = poller.op /\ j.pc = "replay" /\ j.began = poller.began
      /\ j.dict = poller.dict /\ j.todo = poller.todo \ {i} /\ j.read = poller.read
      /\ j.swapped = poller.swapped /\ j.faulted = poller.faulted /\ j.beside = poller.beside
  <2>1. poller \in Running
    BY <1>1 DEF IInv, TypeOK
  <2>2. poller.todo \ {i} \in SUBSET Instruments
    BY <1>1, CallsHold DEF IInv, Held
  <2> QED
    BY <1>1, <2>1, <2>2 DEF Running, Jobs
<1> HIDE DEF j
<1>3. value \in Settings
  <2>1. i \in Cached(poller.dict) /\ poller.dict \in 1..Len(dicts)
    BY <1>1, CallsHold, DictsHold DEF IInv, Replaying, Held
  <2>2. dicts[poller.dict][i] \in Told
    BY <2>1, DictsHold DEF IInv, Cached
  <2> QED
    BY <2>2 DEF Told
<1> HIDE DEF value
<1>4. /\ board' \in [present : BOOLEAN, image : Images, link : Nat, regs : [Instruments -> Settings \union {None}]]
      /\ board'.present = board.present /\ board'.link = board.link /\ board'.image = board.image
      /\ \A x \in Instruments : x # i => board'.regs[x] = board.regs[x]
      /\ Found(session, i) /\ Alive(NodeOf(session)) => board'.regs[i] = value
      /\ board'.regs[i] \in {value, board.regs[i]}
  <2>1. board' = board \/ board' = [board EXCEPT !.regs[i] = value]
    BY DEF Replay, value
  <2>2. Found(session, i) /\ Alive(NodeOf(session)) => board' = [board EXCEPT !.regs[i] = value]
    BY DEF Replay, value
  <2>3. board \in [present : BOOLEAN, image : Images, link : Nat, regs : [Instruments -> Settings \union {None}]]
    BY DEF IInv, TypeOK
  <2> QED
    BY <1>3, <2>1, <2>2, <2>3
<1>5. TypeOK'
  BY <1>1, <1>2, <1>4 DEF IInv, TypeOK, Transports, Running
<1>6. Links'
  BY <1>1, <1>4 DEF IInv, Links
<1>7. Calls'
  BY <1>1, <1>2 DEF IInv, Calls, Cached
<1>8. Remembered'
  BY <1>1 DEF IInv, Remembered, Cached
<1>9. Polling'
  BY <1>1, <1>2 DEF IInv, Polling
<1>10. Replaying'
  <2>1. Cached(poller.dict)' = Cached(poller.dict) /\ Cached(cache)' = Cached(cache)
        /\ NodeOf(session)' = NodeOf(session) /\ Untangled' = Untangled
    BY <1>1, <1>2 DEF Cached, NodeOf, Untangled
  <2>2. Alive(NodeOf(session)) => Alive(NodeOf(session))'
    BY <1>1, <1>4, <2>1 DEF Alive
  <2>3. ASSUME ~poller.faulted, ~poller.beside, Untangled,
               NEW x \in (Cached(cache) \ (poller.todo \ {i})) \intersect Holds(board.image)
        PROVE  board'.regs[x] = dicts[cache][x].value
    <3>1. /\ poller.dict = cache /\ Alive(NodeOf(session)) /\ transports[NodeOf(session)].image = board.image
          /\ \A y \in (Cached(cache) \ poller.todo) \intersect Holds(board.image) :
               board.regs[y] = dicts[cache][y].value
      BY <1>1, <2>3 DEF IInv, Replaying
    <3>2. CASE x = i
      <4>1. Found(session, i)
        BY <3>1, <3>2, <2>3 DEF Found, Alive
      <4> QED
        BY <1>4, <3>1, <3>2, <4>1 DEF value
    <3>3. CASE x # i
      BY <1>4, <2>3, <3>1, <3>3 DEF Cached
    <3> QED
      BY <3>2, <3>3
  <2>4. /\ poller.dict # 0 /\ poller.todo \subseteq Cached(poller.dict)
        /\ ~poller.swapped => poller.read = board.image
        /\ shell = "connected" /\ poller.began = session =>
             poller.read = sessions[session].opened /\ poller.dict = cache
        /\ ~poller.faulted /\ ~poller.beside =>
             /\ user = None /\ session # 0 /\ poller.dict = cache /\ Alive(NodeOf(session))
             /\ Untangled => transports[NodeOf(session)].image = board.image
    BY <1>1 DEF IInv, Replaying
  <2> QED
    BY <1>1, <1>2, <1>4, <2>1, <2>2, <2>3, <2>4 DEF Replaying
<1>11. TreeIsOwn'
  BY <1>1, <1>2 DEF IInv, TreeIsOwn, Untangled, NodeOf
<1>12. TreeIsOwned'
  BY <1>1, <1>2 DEF IInv, TreeIsOwned, Untangled, At
<1> QED
  BY <1>5, <1>6, <1>7, <1>8, <1>9, <1>10, <1>11, <1>12 DEF IInv

LEMMA CancelPollIInv == ASSUME IInv, CancelPoll PROVE IInv'
<1> DEFINE s == poller.s
           e == [sessions[s] EXCEPT !.hurt = @ \union {"was cancelled"}]
<1>1. /\ poller # None /\ poller' = None
      /\ UNCHANGED <<board, transports, tree, session, dicts, cache, shell, user>>
  BY DEF CancelPoll, PollEnds
<1>2. CASE s = 0
  BY <1>1, <1>2, PollEnded DEF CancelPoll, IInv, Polling, At
<1>3. CASE s # 0
  <2>1. sessions' = [sessions EXCEPT ![s] = e]
    BY <1>3 DEF CancelPoll
  <2>2. s \in 1..Len(sessions) /\ s \in DOMAIN sessions
    BY <1>1, <1>3, SessionsHold, CallsHold DEF IInv, Held
  <2>3. e \in AnySession /\ e.node = sessions[s].node /\ e.transport = sessions[s].transport
        /\ e.fingerprint = sessions[s].fingerprint /\ e.opened = sessions[s].opened
        /\ e.hurt = sessions[s].hurt \union {"was cancelled"}
    <3>1. sessions[s] \in AnySession
      BY <2>2, SessionTyped DEF IInv
    <3> QED
      BY <3>1 DEF AnySession, Hurts
  <2> HIDE DEF e
  <2>4. /\ sessions' \in Seq(AnySession) /\ Len(sessions') = Len(sessions)
        /\ DOMAIN sessions' = DOMAIN sessions /\ sessions'[s] = e
        /\ \A x \in DOMAIN sessions : x # s => sessions'[x] = sessions[x]
    BY <2>1, <2>2, <2>3, SessionReplaced DEF IInv
  <2>5. \A x \in DOMAIN sessions :
          /\ sessions'[x].node = sessions[x].node /\ sessions'[x].transport = sessions[x].transport
          /\ sessions'[x].fingerprint = sessions[x].fingerprint /\ sessions'[x].opened = sessions[x].opened
          /\ \A h : h \notin sessions'[x].hurt => h \notin sessions[x].hurt
    BY <2>2, <2>3, <2>4
  <2>6. session # 0 => session \in DOMAIN sessions
    BY SessionsHold DEF IInv
  <2>7. TypeOK'
    BY <1>1, <2>4, <2>5, <2>6 DEF IInv, TypeOK, Transports, Running, AnySession, Hurts
  <2>8. Links' /\ Polling' /\ Replaying'
    BY <1>1 DEF IInv, Links, Polling, Replaying, At
  <2>9. Calls'
    BY <1>1, <2>5, <2>6 DEF IInv, Calls, Cached
  <2>10. Remembered'
    <3>1. \A x \in DOMAIN sessions' :
            sessions'[x].fingerprint # None => sessions'[x].fingerprint = sessions'[x].opened
      BY <2>4, <2>5 DEF IInv, Remembered
    <3>2. \A i \in Cached(cache)' : session' # 0 /\ dicts'[cache'][i].of = sessions'[session'].opened
      BY <1>1, <2>5, <2>6 DEF IInv, Remembered, Cached
    <3> QED
      BY <3>1, <3>2 DEF Remembered
  <2>11. TreeIsOwn'
    BY <1>1, <2>5, <2>6 DEF IInv, TreeIsOwn, Untangled, NodeOf
  <2>12. TreeIsOwned'
    <3>1. CASE session = s
      BY <1>1, <1>3, <2>3, <2>4, <3>1 DEF TreeIsOwned
    <3>2. CASE session # s
      BY <1>1, <2>5, <2>6, <3>2 DEF IInv, TreeIsOwned, TreeIsOwn, Untangled, At
    <3> QED
      BY <3>1, <3>2
  <2> QED
    BY <2>7, <2>8, <2>9, <2>10, <2>11, <2>12 DEF IInv
<1> QED
  BY <1>2, <1>3

(* What a call goes on with when it is not alone, or its board changes.    *)
Same(j, k) ==
  /\ k # None /\ k.op = j.op /\ k.pc = j.pc /\ k.name = j.name /\ k.value = j.value /\ k.s = j.s
  /\ k.node = j.node /\ k.transport = j.transport /\ k.dict = j.dict /\ k.todo = j.todo
  /\ k.read = j.read /\ k.began = j.began

LEMMA BesideSame == ASSUME TypeOK
  PROVE  /\ Beside \in Running \union {None}
         /\ poller = None => Beside = None
         /\ poller # None => Same(poller, Beside) /\ Beside.beside /\ Beside.swapped = poller.swapped
<1>1. CASE poller = None
  BY <1>1 DEF Beside
<1>2. CASE poller # None
  <2>1. poller \in Running /\ Beside = [poller EXCEPT !.beside = TRUE]
    BY <1>2 DEF TypeOK, Beside
  <2>2. Beside \in Running
    BY <2>1 DEF Running, Jobs
  <2>3. Beside # None
    BY <2>2, JobsNotNone
  <2> HIDE DEF Beside
  <2>4. Beside.beside /\ Beside.swapped = poller.swapped
    BY <2>1 DEF Running, Jobs
  <2>5. Same(poller, Beside)
    BY <2>1, <2>3 DEF Same, Running, Jobs
  <2> QED
    BY <1>2, <2>2, <2>4, <2>5
<1> QED
  BY <1>1, <1>2

LEMMA NoticingSame == ASSUME TypeOK, NEW j \in Running \union {None}, NEW swap \in BOOLEAN
  PROVE  /\ Noticing(j, swap) \in Running \union {None}
         /\ j = None => Noticing(j, swap) = None
         /\ j # None => /\ Same(j, Noticing(j, swap)) /\ Noticing(j, swap).faulted
                        /\ Noticing(j, swap).beside = j.beside
                        /\ ~Noticing(j, swap).swapped => ~j.swapped /\ ~swap
<1>1. CASE j = None
  BY <1>1 DEF Noticing
<1>2. CASE j # None
  <2> DEFINE k == Noticing(j, swap)
             swapped == j.swapped \/ swap
  <2>1. j \in Running /\ k = [j EXCEPT !.faulted = TRUE, !.swapped = swapped]
    BY <1>2 DEF Noticing
  <2>2. swapped \in BOOLEAN
    BY DEF Running, Jobs
  <2> HIDE DEF k, swapped
  <2>3. k \in Running
    BY <2>1, <2>2 DEF Running, Jobs
  <2>4. k # None
    BY <2>3, JobsNotNone
  <2>5. k.faulted /\ k.beside = j.beside /\ k.swapped = swapped
    BY <2>1 DEF Running, Jobs
  <2>6. Same(j, k)
    BY <2>1, <2>4 DEF Same, Running, Jobs
  <2>7. ~k.swapped => ~j.swapped /\ ~swap
    BY <2>5 DEF swapped
  <2> QED
    BY <1>2, <2>3, <2>5, <2>6, <2>7 DEF k
<1> QED
  BY <1>1, <1>2

(* A dictionary more.                                                      *)
LEMMA NewDictHold == ASSUME TypeOK, NewDict
  PROVE  /\ dicts' \in Seq([Instruments -> Told \union {None}]) /\ cache' \in DOMAIN dicts'
         /\ Len(dicts) <= Len(dicts') /\ 0..Len(dicts) \subseteq 0..Len(dicts')
         /\ \A d \in 1..Len(dicts) : Cached(d)' = Cached(d)
         /\ Cached(cache)' = {}
<1>1. dicts \in Seq([Instruments -> Told \union {None}]) /\ Empty \in [Instruments -> Told \union {None}]
  BY DEF TypeOK, Empty
<1>2. /\ dicts' \in Seq([Instruments -> Told \union {None}]) /\ Len(dicts') = Len(dicts) + 1
      /\ DOMAIN dicts' = 1..Len(dicts) + 1 /\ cache' = Len(dicts) + 1 /\ dicts'[cache'] = Empty
      /\ \A d \in 1..Len(dicts) : dicts'[d] = dicts[d]
  BY <1>1, DictsHold DEF NewDict
<1>3. \A d \in 1..Len(dicts) : Cached(d)' = Cached(d)
  BY <1>2 DEF Cached
<1>4. Cached(cache)' = {}
  BY <1>2 DEF Cached, Empty
<1> QED
  BY <1>2, <1>3, <1>4, DictsHold

LEMMA BeginConnectIInv == ASSUME IInv, BeginConnect PROVE IInv'
<1> DEFINE n == Len(sessions) + 1
           e == [node |-> 0, transport |-> 0, fingerprint |-> None, opened |-> None,
                 hurt |-> IF poller = None THEN {} ELSE {"opened beside a poll"}]
           j == [Job("connect", "open") EXCEPT !.s = n, !.beside = poller # None]
<1>1. /\ user = None /\ shell = "disconnected" /\ NewDict /\ poller' = Beside
      /\ sessions' = Append(sessions, e) /\ session' = n /\ user' = j
      /\ UNCHANGED <<board, transports, tree, shell>>
  BY DEF BeginConnect, Called, UserGoes
<1>2. e \in AnySession /\ e.node = 0 /\ e.fingerprint = None
      /\ (poller # None => "opened beside a poll" \in e.hurt)
  BY TransportsHold DEF IInv, AnySession, Transports, Hurts
<1>3. /\ sessions \in Seq(AnySession) /\ Len(sessions) \in Nat
  BY SessionsHold DEF IInv, TypeOK, AnySession, Hurts
<1> HIDE DEF e
<1>4. /\ sessions' \in Seq(AnySession) /\ Len(sessions') = n /\ DOMAIN sessions' = 1..n
      /\ sessions'[n] = e /\ \A x \in 1..Len(sessions) : sessions'[x] = sessions[x]
  <2>1. sessions' = Append(sessions, e)
    BY <1>1
  <2>2. /\ Append(sessions, e) \in Seq(AnySession) /\ Len(Append(sessions, e)) = Len(sessions) + 1
        /\ DOMAIN Append(sessions, e) = 1..Len(sessions) + 1 /\ Append(sessions, e)[Len(sessions) + 1] = e
        /\ \A x \in 1..Len(sessions) : Append(sessions, e)[x] = sessions[x]
    <3>1. e \in AnySession /\ sessions \in Seq(AnySession)
      BY <1>2, <1>3
    <3> QED
      BY <3>1
  <2> QED
    BY <2>1, <2>2
<1>5. /\ dicts' \in Seq([Instruments -> Told \union {None}]) /\ cache' \in DOMAIN dicts'
      /\ Len(dicts) <= Len(dicts') /\ 0..Len(dicts) \subseteq 0..Len(dicts')
      /\ \A d \in 1..Len(dicts) : Cached(d)' = Cached(d)
      /\ Cached(cache)' = {}
  BY <1>1, NewDictHold DEF IInv
<1>6. Running \subseteq Running'
  <2>1. 0..Len(sessions) \subseteq 0..Len(sessions') /\ Transports \subseteq Transports'
    BY <1>1, <1>3, <1>4 DEF Transports
  <2> QED
    BY <1>5, <2>1, JobsGrow DEF Running
<1>7. j \in Running' /\ j.op = "connect" /\ j.pc = "open" /\ j.s = n /\ j # None
  <2>1. Job("connect", "open") \in Running' /\ Job("connect", "open").op = "connect"
        /\ Job("connect", "open").pc = "open"
    BY <1>6, StartedJob DEF IInv
  <2>2. n \in 0..Len(sessions')
    BY <1>3, <1>4
  <2>3. j \in Running' /\ j.op = "connect" /\ j.pc = "open" /\ j.s = n
    <3> HIDE DEF Job
    <3> QED
      BY <2>1, <2>2 DEF Running, Jobs
  <2>4. 0..n \subseteq Nat /\ Transports' \subseteq Nat /\ 0..Len(dicts') \subseteq Nat
    BY <1>1, <1>3, <1>5, TransportsHold, Elements DEF IInv, Transports
  <2>5. Running' \subseteq Jobs(Nat, Nat, Nat)
    BY <1>4, <2>4, JobsGrow DEF Running
  <2> QED
    BY <2>3, <2>5, NoneAssumption
<1> HIDE DEF j
<1>8. /\ Beside \in Running \union {None}
      /\ poller = None => Beside = None
      /\ poller # None => Same(poller, Beside) /\ Beside.beside
      /\ poller # None => poller.began \in 0..Len(sessions) /\ poller.dict \in 0..Len(dicts)
  BY BesideSame, CallsHold DEF IInv, Held
<1>9. TypeOK'
  <2>1. /\ board' \in [present : BOOLEAN, image : Images, link : Nat, regs : [Instruments -> Settings \union {None}]]
        /\ transports' \in Seq([link : Nat, image : Images]) /\ tree' \in Transports' /\ shell' = "disconnected"
    BY <1>1 DEF IInv, TypeOK, Transports
  <2>2. session' \in 0..Len(sessions')
    BY <1>1, <1>3, <1>4
  <2>3. sessions' \in Seq([node : Transports', transport : Transports', fingerprint : Images \union {None},
                       opened : Images \union {None},
                       hurt : SUBSET {"opened beside a poll", "found no board", "was cancelled"}])
    BY <1>1, <1>4 DEF AnySession, Hurts, Transports
  <2>4. poller' \in Running' \union {None} /\ user' \in Running' \union {None}
    BY <1>1, <1>6, <1>7, <1>8
  <2> QED
    BY <1>5, <2>1, <2>2, <2>3, <2>4 DEF TypeOK
<1>10. Links'
  BY <1>1 DEF IInv, Links
<1>11. Calls'
  BY <1>1, <1>3, <1>5, <1>7, <1>8 DEF Calls, Same
<1>12. Remembered'
  <2>1. ASSUME NEW x \in 1..n
        PROVE  sessions'[x].fingerprint # None => sessions'[x].fingerprint = sessions'[x].opened
    <3>1. CASE x = n
      BY <1>2, <1>4, <3>1
    <3>2. CASE x # n
      BY <1>3, <1>4, <3>2, SessionsHold DEF IInv, Remembered
    <3> QED
      BY <3>1, <3>2
  <2> QED
    BY <1>4, <1>5, <2>1 DEF Remembered
<1>13. Polling'
  BY <1>1, <1>7, <1>8 DEF IInv, Polling, Same
<1>14. Replaying'
  <2>1. poller # None /\ poller.pc = "replay" =>
          /\ poller.dict # 0 /\ poller.todo \subseteq {i \in Instruments : dicts'[poller.dict][i] # None}
          /\ ~poller.swapped => poller.read = board.image
    BY <1>5, <1>8, DictsHold DEF IInv, Replaying, At, Cached
  <2>2. poller # None => Beside.swapped = poller.swapped
    BY BesideSame DEF IInv
  <2> QED
    BY <1>1, <1>8, <2>1, <2>2 DEF Replaying, At, Same, Cached
<1>15. TreeIsOwn'
  <2>1. Untangled' => poller = None /\ NodeOf(session)' = 0
    BY <1>1, <1>2, <1>4 DEF Untangled, NodeOf
  <2> QED
    BY <1>1, <1>8, <2>1 DEF TreeIsOwn
<1>16. TreeIsOwned'
  BY <1>1, <1>7 DEF TreeIsOwned
<1> QED
  BY <1>9, <1>10, <1>11, <1>12, <1>13, <1>14, <1>15, <1>16 DEF IInv

LEMMA OpenIInv == ASSUME IInv, Open PROVE IInv'
<1>1. /\ user # None /\ user.pc = "open"
      /\ UNCHANGED <<board, session, dicts, cache, shell, poller>>
  BY DEF Open, Does
<1>2. /\ user.op = "connect" /\ shell = "disconnected" /\ user.s = session /\ session # 0
      /\ session \in DOMAIN sessions /\ Cached(cache) = {} /\ user \in Running
      /\ poller # None => poller.began # session
  <2>1. user.op = "connect" /\ user \in Running
    BY <1>1, CallsHold DEF IInv, TypeOK, Held, Calls
  <2> QED
    BY <1>1, <2>1, SessionsHold DEF IInv, Calls
<1>3. poller # None /\ poller.pc = "replay" => poller.faulted \/ poller.beside
  BY <1>1 DEF IInv, Replaying, At
<1>4. CASE Reachable
  <2>1. PICK t \in 1..Len(transports)+1 :
          /\ Summoned(t, transports') /\ tree' = t
          /\ sessions' = [sessions EXCEPT ![session] = Resolved(@, t)]
          /\ user' = [user EXCEPT !.pc = "fingerprint"]
    <3>1. PICK t \in 1..Len(transports)+1 :
            /\ Summoned(t, transports') /\ tree' = t
            /\ sessions' = [sessions EXCEPT ![user.s].node = t, ![user.s].transport = t]
            /\ user' = [user EXCEPT !.pc = "fingerprint"]
      BY <1>4 DEF Open, UserGoes
    <3>2. sessions' = [sessions EXCEPT ![session] = Resolved(@, t)]
      BY <1>2, <3>1 DEF Resolved
    <3> QED
      BY <3>1, <3>2
  <2> DEFINE e == Resolved(sessions[session], t)
  <2>2. /\ t \in 1..Len(transports') /\ Transports \subseteq Transports' /\ Len(transports) <= Len(transports')
        /\ transports' \in Seq([link : Nat, image : Images])
        /\ Links'
    BY <1>1, <1>4, <2>1, SummonedHold DEF IInv
  <2>3. t \in Transports' /\ t # 0 /\ Len(transports') \in Nat
    BY <2>2, Elements DEF Transports
  <2>4. e \in AnySession' /\ e.node = t /\ e.transport = t
        /\ e.fingerprint = sessions[session].fingerprint /\ e.opened = sessions[session].opened
        /\ e.hurt = sessions[session].hurt
    <3>1. sessions[session] \in AnySession
      BY <1>2, SessionTyped, SessionsHold DEF IInv
    <3> QED
      BY <2>2, <2>3, <3>1 DEF AnySession, Resolved
  <2> HIDE DEF e
  <2>5. /\ sessions' \in Seq(AnySession') /\ Len(sessions') = Len(sessions)
        /\ DOMAIN sessions' = DOMAIN sessions /\ sessions'[session] = e
        /\ \A x \in DOMAIN sessions : x # session => sessions'[x] = sessions[x]
    <3>1. sessions \in Seq(AnySession)
      BY DEF IInv, TypeOK, AnySession, Hurts
    <3>2. AnySession \subseteq AnySession'
      BY <2>2 DEF AnySession
    <3>3. sessions \in Seq(AnySession')
      BY <3>1, <3>2
    <3>4. sessions' = [sessions EXCEPT ![session] = e]
      BY <2>1 DEF e
    <3> QED
      BY <1>2, <2>4, <3>3, <3>4, Replaced, SessionsHold DEF IInv
  <2>6. /\ NodeOf(session)' = t /\ Untangled' = Untangled
        /\ sessions'[session].fingerprint = sessions[session].fingerprint
        /\ sessions'[session].opened = sessions[session].opened
        /\ sessions'[session].transport = t
    BY <1>1, <1>2, <2>4, <2>5 DEF NodeOf, Untangled
  <2>7. Running \subseteq Running'
    BY <1>1, <2>2, <2>5, JobsGrow DEF Running
  <2>8. user' \in Running' /\ user'.op = "connect" /\ user'.pc = "fingerprint" /\ user'.s = session
    <3>1. user \in Running' /\ user.op = "connect" /\ user.s = session
      BY <1>2, <2>7
    <3>2. user' = [user EXCEPT !.pc = "fingerprint"]
      BY <2>1
    <3>3. user' \in Running'
      BY <3>1, <3>2 DEF Running, Jobs
    <3>4. user'.op = user.op /\ user'.pc = "fingerprint" /\ user'.s = user.s
      BY <3>1, <3>2 DEF Running, Jobs
    <3> QED
      BY <3>1, <3>3, <3>4
  <2>9. TypeOK'
    <3>1. board' \in [present : BOOLEAN, image : Images, link : Nat, regs : [Instruments -> Settings \union {None}]]
          /\ dicts' \in Seq([Instruments -> Told \union {None}]) /\ cache' \in DOMAIN dicts'
          /\ shell' = "disconnected" /\ session' \in 0..Len(sessions')
          /\ poller' \in Running' \union {None}
      BY <1>1, <1>2, <2>5, <2>7 DEF IInv, TypeOK
    <3>2. sessions' \in Seq([node : Transports', transport : Transports', fingerprint : Images \union {None},
                         opened : Images \union {None},
                         hurt : SUBSET {"opened beside a poll", "found no board", "was cancelled"}])
      BY <2>5 DEF AnySession, Hurts
    <3> QED
      BY <2>1, <2>2, <2>3, <2>8, <3>1, <3>2 DEF TypeOK
  <2>10. Calls'
    BY <1>1, <1>2, <2>8 DEF Calls, Cached
  <2>11. Remembered'
    BY <1>1, <1>2, <2>5, <2>6 DEF IInv, Remembered, Cached
  <2>12. Polling' /\ Replaying'
    BY <1>1, <1>2, <1>3, <2>1, <2>6 DEF IInv, Polling, Replaying, At, Cached
  <2>13. TreeIsOwn'
    BY <1>1, <1>2, <2>1, <2>6 DEF IInv, TreeIsOwn
  <2>14. TreeIsOwned'
    BY <1>1, <2>1, <2>6 DEF TreeIsOwned
  <2> QED
    BY <2>2, <2>9, <2>10, <2>11, <2>12, <2>13, <2>14 DEF IInv
<1>5. CASE ~Reachable
  <2>1. tree = 0 /\ user' = None /\ UNCHANGED <<transports, tree, sessions>>
    BY <1>5 DEF Open, UserEnds, Reachable
  <2>2. TypeOK'
    BY <1>1, <2>1 DEF IInv, TypeOK, Transports, Running
  <2>3. Links' /\ Calls' /\ Remembered'
    BY <1>1, <2>1 DEF IInv, Links, Calls, Remembered, Cached
  <2>4. Polling' /\ Replaying'
    BY <1>1, <1>3, <2>1 DEF IInv, Polling, Replaying, At, NodeOf, Cached
  <2>5. TreeIsOwn' /\ TreeIsOwned'
    BY <1>1, <2>1 DEF IInv, TreeIsOwn, TreeIsOwned, Untangled, NodeOf, Dead, Alive
  <2> QED
    BY <2>2, <2>3, <2>4, <2>5 DEF IInv
<1> QED
  BY <1>4, <1>5

LEMMA ReadFingerprintIInv == ASSUME IInv, ReadFingerprint PROVE IInv'
<1>1. /\ user # None /\ user.pc = "fingerprint" /\ user' = None
      /\ UNCHANGED <<board, transports, tree, session, dicts, cache, poller>>
  BY DEF ReadFingerprint, Does, UserEnds
<1>2. /\ user.op = "connect" /\ shell = "disconnected" /\ user.s = session /\ session # 0
      /\ session \in DOMAIN sessions /\ Cached(cache) = {}
      /\ poller # None => poller.began # session
  <2>1. user.op = "connect"
    BY <1>1, CallsHold DEF IInv, Held, Calls
  <2> QED
    BY <1>1, <2>1, SessionsHold DEF IInv, Calls
<1>3. poller # None /\ poller.pc = "replay" => poller.faulted \/ poller.beside
  BY <1>1 DEF IInv, Replaying, At
<1> DEFINE e == [sessions[session] EXCEPT !.fingerprint = board.image, !.opened = board.image]
<1>4. \/ sessions' = [sessions EXCEPT ![session] = e] /\ shell' = "connected"
      \/ UNCHANGED <<sessions, shell>>
  BY <1>2 DEF ReadFingerprint
<1>5. e \in AnySession /\ e.node = sessions[session].node /\ e.transport = sessions[session].transport
      /\ e.fingerprint = board.image /\ e.opened = board.image
      /\ e.hurt = sessions[session].hurt
  <2>1. sessions[session] \in AnySession /\ board.image \in Images
    BY <1>2, SessionTyped, SessionsHold, TransportsHold DEF IInv
  <2> QED
    BY <2>1 DEF AnySession
<1> HIDE DEF e
<1>6. /\ sessions' \in Seq(AnySession) /\ Len(sessions') = Len(sessions) /\ DOMAIN sessions' = DOMAIN sessions
      /\ \/ sessions'[session] = e /\ shell' = "connected"
         \/ sessions'[session] = sessions[session] /\ shell' = "disconnected"
      /\ \A x \in DOMAIN sessions : x # session => sessions'[x] = sessions[x]
  <2>1. CASE sessions' = [sessions EXCEPT ![session] = e] /\ shell' = "connected"
    BY <1>2, <1>5, <2>1, SessionReplaced, SessionsHold DEF IInv
  <2>2. CASE UNCHANGED <<sessions, shell>>
    BY <1>2, <2>2 DEF IInv, TypeOK, AnySession, Hurts
  <2> QED
    BY <1>4, <2>1, <2>2
<1>7. /\ NodeOf(session)' = NodeOf(session) /\ Untangled' = Untangled
      /\ sessions'[session].transport = sessions[session].transport
      /\ sessions'[session].hurt = sessions[session].hurt
      /\ shell' = "connected" => sessions'[session].fingerprint \in Images
  BY <1>1, <1>2, <1>5, <1>6, TransportsHold DEF IInv, NodeOf, Untangled
<1>8. TypeOK'
  BY <1>1, <1>2, <1>6, <1>7 DEF IInv, TypeOK, Transports, Running, AnySession, Hurts
<1>9. Links' /\ Calls'
  BY <1>1 DEF IInv, Links, Calls
<1>10. Remembered'
  BY <1>1, <1>2, <1>5, <1>6 DEF IInv, Remembered, Cached
<1>11. Polling' /\ Replaying'
  BY <1>1, <1>2, <1>3, <1>7 DEF IInv, Polling, Replaying, At, Cached
<1>12. TreeIsOwn'
  BY <1>1, <1>7 DEF IInv, TreeIsOwn, Dead, Alive
<1>13. TreeIsOwned'
  BY <1>1, <1>2, <1>7 DEF IInv, TreeIsOwned, At
<1> QED
  BY <1>8, <1>9, <1>10, <1>11, <1>12, <1>13 DEF IInv

LEMMA BeginDisconnectIInv == ASSUME IInv, BeginDisconnect PROVE IInv'
<1>1. /\ user = None /\ shell' = "disconnected" /\ poller' = Beside
      /\ UNCHANGED <<board, transports, tree, session, dicts, cache>>
  BY DEF BeginDisconnect, Called
<1>2. /\ Beside \in Running \union {None}
      /\ poller = None => Beside = None
      /\ poller # None => Same(poller, Beside) /\ Beside.beside /\ Beside.swapped = poller.swapped
  BY BesideSame DEF IInv
<1> HIDE DEF Beside
<1>3. Polling' /\ Replaying'
  <2>1. NodeOf(session)' = NodeOf(session)
    <3>1. CASE session = 0
      BY <1>1, <3>1 DEF NodeOf
    <3>2. CASE session # 0
      <4>1. sessions' = [sessions EXCEPT ![session].transport = 0]
        BY <3>2 DEF BeginDisconnect
      <4>2. session \in DOMAIN sessions /\ sessions[session] \in AnySession
        BY <3>2, SessionsHold, SessionTyped DEF IInv
      <4> QED
        BY <1>1, <4>1, <4>2 DEF NodeOf, AnySession
    <3> QED
      BY <3>1, <3>2
  <2> QED
    BY <1>1, <1>2, <2>1 DEF IInv, Polling, Replaying, At, Same, Cached
<1>4. CASE session = 0
  <2> DEFINE j == [Job("disconnect", "forget") EXCEPT !.beside = poller # None]
             beside == poller # None
  <2>1. user' = j /\ UNCHANGED sessions
    BY <1>4 DEF BeginDisconnect, UserGoes
  <2>2. j \in Running /\ j.op = "disconnect" /\ j.pc = "forget" /\ j.s = 0 /\ j.beside = beside
    <3>1. Job("disconnect", "forget") \in Running /\ Job("disconnect", "forget").op = "disconnect"
          /\ Job("disconnect", "forget").pc = "forget" /\ Job("disconnect", "forget").s = 0
      BY StartedJob DEF IInv
    <3>2. beside \in BOOLEAN /\ j = [Job("disconnect", "forget") EXCEPT !.beside = beside]
      OBVIOUS
    <3> HIDE DEF Job, beside, j
    <3>3. j \in Running
      BY <3>1, <3>2, FlaggedJob
    <3>4. j.op = "disconnect" /\ j.pc = "forget" /\ j.s = 0 /\ j.beside = beside
      BY <3>1, <3>2 DEF Running, Jobs
    <3> QED
      BY <3>3, <3>4
  <2> HIDE DEF j
  <2>3. TypeOK'
    BY <1>1, <1>2, <2>1, <2>2 DEF IInv, TypeOK, Transports, Running
  <2>4. Links' /\ Remembered'
    BY <1>1, <2>1 DEF IInv, Links, Remembered, Cached
  <2>5. Calls'
    BY <1>1, <1>2, <1>4, <2>1, <2>2 DEF Calls
  <2>6. TreeIsOwn' /\ TreeIsOwned'
    BY <1>1, <1>4 DEF TreeIsOwn, TreeIsOwned, Untangled
  <2> QED
    BY <1>3, <2>3, <2>4, <2>5, <2>6 DEF IInv
<1>5. CASE session # 0
  <2> DEFINE e == [sessions[session] EXCEPT !.transport = 0]
             beside == poller # None
             j == [Job("disconnect", "close") EXCEPT !.s = session, !.transport = sessions[session].transport,
                                                     !.beside = poller # None]
  <2>1. user' = j /\ sessions' = [sessions EXCEPT ![session] = e]
    BY <1>5 DEF BeginDisconnect, UserGoes
  <2>2. session \in 1..Len(sessions) /\ session \in DOMAIN sessions
    BY <1>5, SessionsHold DEF IInv
  <2>3. e \in AnySession /\ e.node = sessions[session].node /\ e.transport = 0
        /\ e.fingerprint = sessions[session].fingerprint /\ e.opened = sessions[session].opened
        /\ e.hurt = sessions[session].hurt
    <3>1. sessions[session] \in AnySession /\ 0 \in Transports
      BY <2>2, SessionTyped, TransportsHold DEF IInv, Transports
    <3> QED
      BY <3>1 DEF AnySession
  <2>4. /\ j \in Running /\ j.op = "disconnect" /\ j.pc = "close" /\ j.s = session
        /\ j.transport = sessions[session].transport /\ j.beside = beside
    <3>1. Job("disconnect", "close") \in Running /\ Job("disconnect", "close").op = "disconnect"
          /\ Job("disconnect", "close").pc = "close"
      BY StartedJob DEF IInv
    <3>2. sessions[session].transport \in Transports /\ session \in 0..Len(sessions)
      BY <2>2, SessionsHold DEF IInv, Transports
    <3>3. beside \in BOOLEAN
          /\ j = [Job("disconnect", "close") EXCEPT !.s = session, !.transport = sessions[session].transport,
                                                    !.beside = beside]
      OBVIOUS
    <3> HIDE DEF Job, beside, j
    <3> QED
      BY <3>1, <3>2, <3>3 DEF Running, Jobs
  <2> HIDE DEF e, j
  <2>5. j # None
    BY <2>4, JobsNotNone DEF IInv
  <2>6. /\ sessions' \in Seq(AnySession) /\ Len(sessions') = Len(sessions)
        /\ DOMAIN sessions' = DOMAIN sessions /\ sessions'[session] = e
        /\ \A x \in DOMAIN sessions : x # session => sessions'[x] = sessions[x]
    BY <2>1, <2>2, <2>3, SessionReplaced DEF IInv
  <2>7. NodeOf(session)' = NodeOf(session) /\ Untangled' = Untangled
    BY <1>1, <2>3, <2>6 DEF NodeOf, Untangled
  <2>8. TypeOK'
    BY <1>1, <1>2, <2>1, <2>3, <2>4, <2>6 DEF IInv, TypeOK, Transports, Running, AnySession, Hurts
  <2>9. Links'
    BY <1>1 DEF IInv, Links
  <2>10. Calls'
    BY <1>1, <1>2, <1>5, <2>1, <2>3, <2>4, <2>6 DEF Calls
  <2>11. Remembered'
    BY <1>1, <2>2, <2>3, <2>6 DEF IInv, Remembered, Cached
  <2>12. TreeIsOwn'
    BY <1>1, <1>2, <2>7 DEF IInv, TreeIsOwn, Same, Dead, Alive
  <2>13. TreeIsOwned'
    <3>1. Untangled /\ "was cancelled" \notin sessions[session].hurt /\ tree # 0 =>
            sessions[session].transport = tree \/ (At("teardown") /\ poller.transport = tree)
      BY <1>1 DEF IInv, TreeIsOwned
    <3> QED
      BY <1>1, <1>2, <2>1, <2>3, <2>4, <2>5, <2>6, <2>7, <3>1 DEF TreeIsOwned, Same, At
  <2> QED
    BY <1>3, <2>8, <2>9, <2>10, <2>11, <2>12, <2>13 DEF IInv
<1> QED
  BY <1>4, <1>5

(* A disconnect in flight.                                                 *)
LEMMA Disconnecting == ASSUME IInv, user # None, user.pc \in {"close", "forget"}
  PROVE  /\ user.op = "disconnect" /\ shell = "disconnected" /\ user.s = session
         /\ user.pc = "close" => session # 0
         /\ ~user.beside => poller = None /\ (session # 0 => sessions[session].transport = 0)
         /\ user \in Running
         /\ poller # None /\ poller.pc = "replay" => poller.faulted \/ poller.beside
<1>1. user.op = "disconnect" /\ user \in Running
  BY CallsHold DEF IInv, TypeOK, Held, Calls
<1>2. poller # None /\ poller.pc = "replay" => poller.faulted \/ poller.beside
  BY DEF IInv, Replaying, At
<1> QED
  BY <1>1, <1>2 DEF IInv, Calls

LEMMA CloseIInv == ASSUME IInv, Close PROVE IInv'
<1> DEFINE e == [sessions[session] EXCEPT !.node = 0, !.fingerprint = None]
           j == [user EXCEPT !.pc = "forget"]
<1>1. /\ user # None /\ user.pc = "close" /\ user' = j /\ tree' = TornDown(user.transport)
      /\ UNCHANGED <<board, transports, session, dicts, cache, shell, poller>>
  BY DEF Close, Does, UserGoes
<1>2. /\ user.op = "disconnect" /\ shell = "disconnected" /\ user.s = session /\ session # 0
      /\ ~user.beside => poller = None /\ sessions[session].transport = 0
      /\ user \in Running
      /\ poller # None /\ poller.pc = "replay" => poller.faulted \/ poller.beside
  BY <1>1, Disconnecting
<1>3. session \in 1..Len(sessions) /\ session \in DOMAIN sessions
  BY <1>2, SessionsHold DEF IInv
<1>4. sessions' = [sessions EXCEPT ![session] = e]
  BY <1>2, <1>3 DEF Close
<1>5. e \in AnySession /\ e.node = 0 /\ e.transport = sessions[session].transport
      /\ e.fingerprint = None /\ e.opened = sessions[session].opened /\ e.hurt = sessions[session].hurt
  <2>1. sessions[session] \in AnySession /\ 0 \in Transports
    BY <1>3, SessionTyped, TransportsHold DEF IInv, Transports
  <2> QED
    BY <2>1 DEF AnySession
<1>6. /\ j \in Running /\ j.op = "disconnect" /\ j.pc = "forget" /\ j.s = session
      /\ j.beside = user.beside
  BY <1>2 DEF Running, Jobs
<1> HIDE DEF e, j
<1>7. j # None
  BY <1>6, JobsNotNone DEF IInv
<1>8. /\ sessions' \in Seq(AnySession) /\ Len(sessions') = Len(sessions)
      /\ DOMAIN sessions' = DOMAIN sessions /\ sessions'[session] = e
      /\ \A x \in DOMAIN sessions : x # session => sessions'[x] = sessions[x]
  BY <1>3, <1>4, <1>5, SessionReplaced DEF IInv
<1>9. NodeOf(session)' = 0 /\ Untangled' = Untangled /\ tree' \in {0, tree} /\ tree' \in Transports
  <2>1. tree' \in {0, tree} /\ tree' \in Transports
    BY <1>1, TransportsHold DEF IInv, TornDown, Transports
  <2>2. session' = session /\ session # 0
    BY <1>1, <1>2
  <2> QED
    BY <1>5, <1>8, <2>1, <2>2 DEF NodeOf, Untangled
<1>10. TypeOK'
  BY <1>1, <1>2, <1>5, <1>6, <1>8, <1>9 DEF IInv, TypeOK, Transports, Running, AnySession, Hurts
<1>11. Links'
  BY <1>1 DEF IInv, Links
<1>12. Calls'
  BY <1>1, <1>2, <1>5, <1>6, <1>8 DEF Calls
<1>13. Remembered'
  BY <1>1, <1>2, <1>3, <1>5, <1>8 DEF IInv, Remembered, Cached
<1>14. Polling' /\ Replaying'
  BY <1>1, <1>2, <1>6, <1>7 DEF IInv, Polling, Replaying, At, Cached
<1>15. TreeIsOwn'
  <2>1. poller # None /\ poller.pc = "status again" => poller.node # 0
    BY DEF IInv, Polling
  <2>2. poller # None /\ poller.node # 0 /\ Alive(poller.node)' => Alive(poller.node)
    BY <1>1, <1>9 DEF Alive
  <2> QED
    BY <1>1, <1>9, <2>1, <2>2 DEF IInv, TreeIsOwn, Dead
<1>16. TreeIsOwned'
  BY <1>1, <1>2, <1>5, <1>6, <1>7, <1>8, <1>9 DEF IInv, TreeIsOwned, TornDown, At
<1> QED
  BY <1>10, <1>11, <1>12, <1>13, <1>14, <1>15, <1>16 DEF IInv

LEMMA ForgetIInv == ASSUME IInv, Forget PROVE IInv'
<1>1. /\ user # None /\ user.pc = "forget" /\ user' = None /\ session' = 0 /\ NewDict
      /\ UNCHANGED <<board, transports, tree, sessions, shell, poller>>
  BY DEF Forget, Does, UserEnds
<1>2. /\ shell = "disconnected"
      /\ poller # None /\ poller.pc = "replay" => poller.faulted \/ poller.beside
  BY <1>1, Disconnecting
<1>3. /\ dicts' \in Seq([Instruments -> Told \union {None}]) /\ cache' \in DOMAIN dicts'
      /\ Len(dicts) <= Len(dicts') /\ 0..Len(dicts) \subseteq 0..Len(dicts')
      /\ \A d \in 1..Len(dicts) : Cached(d)' = Cached(d)
      /\ Cached(cache)' = {}
  BY <1>1, NewDictHold DEF IInv
<1>4. Running \subseteq Running'
  BY <1>1, <1>3, JobsGrow DEF Running, Transports
<1>5. TypeOK'
  <2>1. session' \in 0..Len(sessions') /\ Transports' = Transports /\ tree' \in Transports'
    <3>1. 0 \in 0..Len(sessions)
      BY SessionsHold DEF IInv
    <3>2. Transports' = Transports
      BY <1>1 DEF Transports
    <3> QED
      BY <1>1, <3>1, <3>2 DEF IInv, TypeOK
  <2>2. poller' \in Running' \union {None} /\ user' \in Running' \union {None}
    BY <1>1, <1>4 DEF IInv, TypeOK
  <2> QED
    BY <1>1, <1>2, <1>3, <2>1, <2>2 DEF IInv, TypeOK
<1>6. Links' /\ Calls' /\ TreeIsOwn' /\ TreeIsOwned'
  BY <1>1 DEF IInv, Links, Calls, TreeIsOwn, TreeIsOwned, Untangled
<1>7. Remembered'
  BY <1>1, <1>3 DEF IInv, Remembered
<1>8. Polling'
  BY <1>1 DEF IInv, Polling
<1>9. Replaying'
  <2>1. poller # None /\ poller.pc = "replay" =>
          /\ poller.dict # 0 /\ poller.todo \subseteq {i \in Instruments : dicts'[poller.dict][i] # None}
          /\ ~poller.swapped => poller.read = board.image
    BY <1>3, CallsHold, DictsHold DEF IInv, Replaying, At, Cached, Held
  <2> QED
    BY <1>1, <1>2, <2>1 DEF Replaying, At, Cached
<1> QED
  BY <1>5, <1>6, <1>7, <1>8, <1>9 DEF IInv

LEMMA BeginConfigureIInv ==
  ASSUME IInv, NEW i \in Instruments, NEW v \in Settings, BeginConfigure(i, v)
  PROVE  IInv'
<1> DEFINE j == [Job("configure", "write") EXCEPT !.name = i, !.value = v, !.node = NodeOf(session)]
<1>1. /\ user = None /\ shell = "connected" /\ poller' = Beside /\ user' \in {j, None}
      /\ UNCHANGED <<board, transports, tree, sessions, session, dicts, cache, shell>>
  BY DEF BeginConfigure, Called, UserGoes
<1>2. session # 0
  BY <1>1 DEF IInv, TypeOK
<1>3. j \in Running /\ j.op = "configure" /\ j.pc = "write" /\ j.began = session /\ j.name = i /\ j.value = v
  <2>1. /\ Job("configure", "write") \in Running /\ Job("configure", "write").op = "configure"
        /\ Job("configure", "write").pc = "write" /\ Job("configure", "write").began = session
    BY StartedJob DEF IInv
  <2>2. NodeOf(session) \in Transports
    BY SessionsHold DEF IInv, Transports
  <2> HIDE DEF Job
  <2> QED
    BY <2>1, <2>2 DEF Running, Jobs
<1> HIDE DEF j
<1>4. /\ Beside \in Running \union {None}
      /\ poller = None => Beside = None
      /\ poller # None => Same(poller, Beside) /\ Beside.beside /\ Beside.swapped = poller.swapped
  BY BesideSame DEF IInv
<1> HIDE DEF Beside
<1>5. TypeOK'
  BY <1>1, <1>3, <1>4 DEF IInv, TypeOK, Transports, Running
<1>6. Links' /\ Remembered'
  BY <1>1 DEF IInv, Links, Remembered, Cached
<1>7. Calls'
  BY <1>1, <1>2, <1>3, NoneAssumption DEF Calls
<1>8. Polling'
  BY <1>1, <1>4 DEF IInv, Polling, NodeOf, Same
<1>9. Replaying'
  BY <1>1, <1>4 DEF IInv, Replaying, At, Cached, Same
<1>10. TreeIsOwn'
  BY <1>1, <1>4 DEF IInv, TreeIsOwn, Untangled, NodeOf, Same, Dead, Alive
<1>11. TreeIsOwned'
  BY <1>1, <1>4 DEF IInv, TreeIsOwned, Untangled, At, Same
<1> QED
  BY <1>5, <1>6, <1>7, <1>8, <1>9, <1>10, <1>11 DEF IInv

LEMMA ConfigureIInv == ASSUME IInv, Configure PROVE IInv'
<1>1. /\ user # None /\ user.pc = "write" /\ user' = None
      /\ UNCHANGED <<transports, tree, sessions, session, cache, shell, poller>>
  BY DEF Configure, Does, UserEnds
<1>2. /\ user.op = "configure" /\ user.began = session /\ session # 0 /\ session \in DOMAIN sessions
      /\ user.name \in Instruments /\ user.value \in Settings
      /\ poller # None /\ poller.pc = "replay" => poller.faulted \/ poller.beside
  <2>1. Held(user) /\ user.op = "configure"
    BY <1>1, CallsHold DEF IInv, Held, Calls
  <2>2. user.began = session /\ session # 0 /\ user.name \in Instruments /\ user.value \in Settings
    BY <1>1, <2>1 DEF IInv, Held, Calls
  <2>3. poller # None /\ poller.pc = "replay" => poller.faulted \/ poller.beside
    BY <1>1 DEF IInv, Replaying, At
  <2> QED
    BY <2>1, <2>2, <2>3, SessionsHold DEF IInv
<1> DEFINE e == [value |-> user.value, of |-> sessions[session].opened]
<1>3. e \in Told /\ e # None /\ e.of = sessions[session].opened
  <2>1. sessions[session].opened \in Images \union {None}
    BY <1>2, SessionsHold DEF IInv
  <2>2. e \in Told
    BY <1>2, <2>1 DEF Told
  <2> QED
    BY <2>2, NoneAssumption
<1> HIDE DEF e
<1>4. /\ board' \in [present : BOOLEAN, image : Images, link : Nat, regs : [Instruments -> Settings \union {None}]]
      /\ board'.present = board.present /\ board'.link = board.link /\ board'.image = board.image
  <2>1. board' = board \/ board' = [board EXCEPT !.regs[user.name] = user.value]
    BY DEF Configure
  <2>2. board \in [present : BOOLEAN, image : Images, link : Nat, regs : [Instruments -> Settings \union {None}]]
    BY DEF IInv, TypeOK
  <2> QED
    BY <1>2, <2>1, <2>2
<1>5. /\ dicts' \in Seq([Instruments -> Told \union {None}]) /\ Len(dicts') = Len(dicts)
      /\ DOMAIN dicts' = 1..Len(dicts) /\ cache \in 1..Len(dicts)
      /\ \A d \in 1..Len(dicts), i \in Instruments :
           dicts'[d][i] = dicts[d][i] \/ (d = cache /\ dicts'[d][i] = e)
  <2>1. dicts \in Seq([Instruments -> Told \union {None}])
    BY DEF IInv, TypeOK
  <2>2. cache \in 1..Len(dicts) /\ dicts[cache] \in [Instruments -> Told \union {None}]
        /\ Len(dicts) \in Nat /\ DOMAIN dicts = 1..Len(dicts)
    BY DictsHold DEF IInv
  <2> DEFINE f == [dicts[cache] EXCEPT ![user.name] = e]
  <2>3. dicts' = [dicts EXCEPT ![cache] = f] \/ dicts' = dicts
    <3>1. \/ dicts' = [dicts EXCEPT ![cache][user.name] = [value |-> user.value, of |-> sessions[user.began].opened]]
          \/ dicts' = dicts
      BY DEF Configure
    <3> QED
      BY <1>2, <2>2, <3>1 DEF e
  <2>4. /\ f \in [Instruments -> Told \union {None}]
        /\ \A i \in Instruments : f[i] = dicts[cache][i] \/ f[i] = e
    BY <1>2, <1>3, <2>2
  <2> HIDE DEF f
  <2>5. CASE dicts' = dicts
    BY <2>1, <2>2, <2>5
  <2>6. CASE dicts' = [dicts EXCEPT ![cache] = f]
    <3>1. /\ dicts' \in Seq([Instruments -> Told \union {None}]) /\ Len(dicts') = Len(dicts)
          /\ DOMAIN dicts' = 1..Len(dicts) /\ dicts'[cache] = f
          /\ \A d \in 1..Len(dicts) : d # cache => dicts'[d] = dicts[d]
      BY <2>1, <2>2, <2>4, <2>6, Replaced
    <3> QED
      BY <2>2, <2>4, <3>1
  <2> QED
    BY <2>3, <2>5, <2>6
<1>6. TypeOK'
  BY <1>1, <1>4, <1>5 DEF IInv, TypeOK, Transports, Running
<1>7. Links' /\ Calls'
  BY <1>1, <1>4 DEF IInv, Links, Calls
<1>8. Remembered'
  <2>1. ASSUME NEW i \in Instruments, dicts'[cache][i] # None
        PROVE  dicts'[cache][i].of = sessions[session].opened
    BY <1>3, <1>5, <2>1 DEF IInv, Remembered, Cached
  <2> QED
    BY <1>1, <1>2, <2>1 DEF IInv, Remembered, Cached
<1>9. Polling'
  BY <1>1 DEF IInv, Polling, NodeOf
<1>10. Replaying'
  <2>1. poller # None /\ poller.pc = "replay" =>
          /\ poller.dict # 0 /\ poller.todo \subseteq {i \in Instruments : dicts'[poller.dict][i] # None}
          /\ ~poller.swapped => poller.read = board.image
          /\ shell = "connected" /\ poller.began = session =>
               poller.read = sessions[session].opened /\ poller.dict = cache
    BY SMTT(60), <1>3, <1>5, CallsHold DEF IInv, Replaying, At, Cached, Held
  <2> QED
    BY <1>1, <1>2, <1>4, <2>1 DEF Replaying, At, Cached
<1>11. TreeIsOwn'
  BY <1>1, <1>4 DEF IInv, TreeIsOwn, Untangled, NodeOf, Dead, Alive
<1>12. TreeIsOwned'
  BY <1>1, <1>2 DEF IInv, TreeIsOwned, Untangled, At
<1> QED
  BY <1>6, <1>7, <1>8, <1>9, <1>10, <1>11, <1>12 DEF IInv

(* The link is lost or the gateware changes: every call sees a fault, and  *)
(* what was enumerated is of no more links than before.                    *)
LEMMA Faulted ==
  ASSUME IInv, NEW swap \in BOOLEAN,
         board' \in [present : BOOLEAN, image : Images, link : Nat, regs : [Instruments -> Settings \union {None}]],
         \/ board'.link = board.link + 1
         \/ board'.link = board.link /\ board.present /\ board'.present /\ swap,
         ~swap => board'.image = board.image,
         poller' = Noticing(poller, swap), user' = Noticing(user, swap),
         UNCHANGED <<transports, tree, sessions, session, dicts, cache, shell>>
  PROVE  IInv'
<1>0. TypeOK /\ poller \in Running \union {None} /\ user \in Running \union {None} /\ swap \in BOOLEAN
  BY DEF IInv, TypeOK
<1>1. /\ Noticing(poller, swap) \in Running \union {None}
      /\ poller = None => Noticing(poller, swap) = None
      /\ poller # None => /\ Same(poller, Noticing(poller, swap)) /\ Noticing(poller, swap).faulted
                          /\ ~Noticing(poller, swap).swapped => ~poller.swapped /\ ~swap
  BY <1>0, NoticingSame
<1>2. /\ Noticing(user, swap) \in Running \union {None}
      /\ user = None => Noticing(user, swap) = None
      /\ user # None => Same(user, Noticing(user, swap)) /\ Noticing(user, swap).beside = user.beside
  BY <1>0, NoticingSame
<1> HIDE DEF Noticing
<1>3. TypeOK'
  BY <1>1, <1>2 DEF IInv, TypeOK, Transports, Running
<1>4. Links'
  BY TransportsHold DEF IInv, Links
<1>5. Calls'
  BY <1>1, <1>2 DEF IInv, Calls, Cached, Same
<1>6. Remembered'
  BY DEF IInv, Remembered, Cached
<1>7. Polling'
  BY <1>1, <1>2 DEF IInv, Polling, NodeOf, Same
<1>8. Replaying'
  BY <1>1 DEF IInv, Replaying, At, Cached, Same
<1>9. TreeIsOwn'
  <2>1. \A t \in 1..Len(transports) :
          /\ transports[t].link # board.link => transports[t].link # board'.link
          /\ ~swap => transports[t].link # board'.link
    BY TransportsHold DEF IInv, Links
  <2>2. Dead(tree) => Dead(tree)'
    BY <2>1, TransportsHold DEF IInv, Dead
  <2>3. poller # None /\ poller.pc = "status again" /\ ~swap => ~Alive(poller.node)'
    <3>1. poller # None => poller'.node = poller.node /\ poller.node \in 0..Len(transports)
      BY <1>1, CallsHold DEF IInv, Held, Transports, Same
    <3>2. poller # None /\ poller.node # 0 => poller.node \in 1..Len(transports)
      BY <3>1, TransportsHold DEF IInv
    <3>3. transports' = transports
      OBVIOUS
    <3>4. poller # None /\ poller.node # 0 /\ ~swap => transports'[poller'.node].link # board'.link
      BY <2>1, <3>1, <3>2, <3>3
    <3> QED
      BY <3>1, <3>4 DEF Alive
  <2> QED
    BY <1>1, <2>2, <2>3 DEF IInv, TreeIsOwn, Untangled, NodeOf, Same
<1>10. TreeIsOwned'
  BY <1>1, <1>2 DEF IInv, TreeIsOwned, Untangled, At, Same
<1> QED
  BY <1>3, <1>4, <1>5, <1>6, <1>7, <1>8, <1>9, <1>10 DEF IInv

LEMMA LoseIInv == ASSUME IInv, Lose PROVE IInv'
<1>1. PICK image \in Images, present \in BOOLEAN, reset \in BOOLEAN :
        /\ board' = [present |-> present, image |-> image, link |-> board.link + 1,
                     regs |-> IF reset THEN Empty ELSE board.regs]
        /\ poller' = Noticing(poller, image # board.image) /\ user' = Noticing(user, image # board.image)
  BY DEF Lose
<1> DEFINE swap == image # board.image
           regs == IF reset THEN Empty ELSE board.regs
<1>2. regs \in [Instruments -> Settings \union {None}] /\ board.link + 1 \in Nat
  BY TransportsHold DEF IInv, Empty
<1> HIDE DEF regs
<1>3. /\ board' \in [present : BOOLEAN, image : Images, link : Nat, regs : [Instruments -> Settings \union {None}]]
      /\ board'.link = board.link + 1 /\ board'.image = image
  BY <1>1, <1>2 DEF regs
<1>4. swap \in BOOLEAN /\ (~swap => board'.image = board.image)
      /\ poller' = Noticing(poller, swap) /\ user' = Noticing(user, swap)
  BY <1>1, <1>3
<1> HIDE DEF swap
<1>5. UNCHANGED <<transports, tree, sessions, session, dicts, cache, shell>>
  BY DEF Lose
<1> QED
  BY <1>3, <1>4, <1>5, Faulted

LEMMA ReprogramIInv == ASSUME IInv, Reprogram PROVE IInv'
<1>1. PICK image \in Images : board' = [board EXCEPT !.image = image, !.regs = Empty]
  BY DEF Reprogram
<1>2. board \in [present : BOOLEAN, image : Images, link : Nat, regs : [Instruments -> Settings \union {None}]]
      /\ Empty \in [Instruments -> Settings \union {None}]
  BY DEF IInv, TypeOK, Empty
<1>3. /\ board' \in [present : BOOLEAN, image : Images, link : Nat, regs : [Instruments -> Settings \union {None}]]
      /\ board'.link = board.link /\ board'.present = board.present
  BY <1>1, <1>2
<1>4. /\ board.present /\ poller' = Noticing(poller, TRUE) /\ user' = Noticing(user, TRUE)
      /\ UNCHANGED <<transports, tree, sessions, session, dicts, cache, shell>>
  BY DEF Reprogram
<1> QED
  BY <1>3, <1>4, Faulted

LEMMA ReturnIInv == ASSUME IInv, Return PROVE IInv'
<1> USE DEF Return
<1>0. (poller # None => Held(poller)) BY CallsHold DEF IInv
<1>b. board' = [board EXCEPT !.present = TRUE] /\ board'.link = board.link /\ board'.image = board.image
      /\ board'.present /\ board'.regs = board.regs
  BY DEF IInv, TypeOK
<1>1. TypeOK' 
  <2>1. board' \in [present : BOOLEAN, image : Images, link : Nat, regs : [Instruments -> Settings \union {None}]]
     BY DEF IInv, TypeOK
  <2> QED BY <2>1 DEF IInv, TypeOK, Transports, Running
<1>2. Links' BY <1>b DEF IInv, TypeOK, Links
<1>3. Calls' BY DEF IInv, Calls, Cached
<1>4. Remembered' BY DEF IInv, Remembered, Cached
<1>5. Polling' BY DEF IInv, Polling, NodeOf
<1>6. Replaying' BY <1>b DEF IInv, TypeOK, Replaying, At, Cached, NodeOf, Alive, Untangled, Links
<1>7. TreeIsOwn' 
  <2>1. poller # None /\ poller.node # 0 => ~Alive(poller.node)'
     BY <1>0, <1>b, TransportsHold DEF IInv, Links, Alive, Held, Transports
  <2> QED BY <2>1, <1>b DEF IInv, TreeIsOwn, Untangled, NodeOf, Dead, Alive
<1>8. TreeIsOwned' BY DEF IInv, TreeIsOwned, Untangled, At
<1> QED BY <1>1, <1>2, <1>3, <1>4, <1>5, <1>6, <1>7, <1>8 DEF IInv
----------------------------------------------------------------------------
LEMMA InitIInv == ASSUME Init PROVE IInv
<1>1. Empty \in [Instruments -> Settings \union {None}] /\ Empty \in [Instruments -> Told \union {None}]
  BY DEF Empty
<1>2. board \in [present : BOOLEAN, image : Images, link : Nat, regs : [Instruments -> Settings \union {None}]]
  <2>1. PICK image \in Images : board = [present |-> TRUE, image |-> image, link |-> 0, regs |-> Empty]
    BY DEF Init
  <2> QED
    BY <1>1, <2>1
<1>3. /\ dicts \in Seq([Instruments -> Told \union {None}]) /\ cache \in DOMAIN dicts /\ dicts[cache] = Empty
  BY <1>1 DEF Init
<1>4. Cached(cache) = {}
  BY <1>3 DEF Cached, Empty
<1>5. TypeOK
  BY <1>2, <1>3 DEF Init, TypeOK, Transports
<1>6. Links /\ Calls /\ Remembered /\ Polling /\ Replaying /\ TreeIsOwn /\ TreeIsOwned
  BY <1>4 DEF Init, Links, Calls, Remembered, Polling, Replaying, TreeIsOwn, TreeIsOwned, Untangled, At
<1> QED
  BY <1>5, <1>6 DEF IInv

LEMMA NextIInv == ASSUME IInv, [Next]_vars PROVE IInv'
<1>1. CASE Next
  <2>1. CASE Poll
    BY <2>1, BeginPollIInv, StatusAnsweredIInv, StatusFailedIInv, RebuildIInv, RebuiltIInv,
       StillAwayIInv, StatusAgainIInv, ReplayIInv, ReplayedIInv DEF Poll
  <2>2. CASE CancelPoll
    BY <2>2, CancelPollIInv
  <2>3. CASE User
    BY <2>3, BeginConnectIInv, OpenIInv, ReadFingerprintIInv, BeginDisconnectIInv, CloseIInv,
       ForgetIInv, BeginConfigureIInv, ConfigureIInv DEF User
  <2>4. CASE Lose \/ Reprogram \/ Return
    BY <2>4, LoseIInv, ReprogramIInv, ReturnIInv
  <2> QED
    BY <1>1, <2>1, <2>2, <2>3, <2>4 DEF Next
<1>2. CASE UNCHANGED vars
  <2> USE <1>2 DEF vars
  <2>1. TypeOK' /\ Links'
    BY DEF IInv, TypeOK, Transports, Running, Links
  <2>2. Calls' /\ Remembered' /\ Polling'
    BY DEF IInv, Calls, Cached, Remembered, Polling, NodeOf
  <2>3. Replaying'
    BY DEF IInv, Replaying, At, Cached, NodeOf, Alive, Untangled
  <2>4. TreeIsOwn'
    BY DEF IInv, TreeIsOwn, NodeOf, Alive, Untangled, Dead
  <2>5. TreeIsOwned'
    BY DEF IInv, TreeIsOwned, At, Untangled
  <2> QED
    BY <2>1, <2>2, <2>3, <2>4, <2>5 DEF IInv
<1> QED
  BY <1>1, <1>2

(* Page, session, poll, call, dictionaries and transports agree after      *)
(* every step of the event loop (session.py, gui/app.py:139-233).          *)
THEOREM SessionIsConsistent == Spec => []IInv
<1>1. Init => IInv
  BY InitIInv
<1>2. IInv /\ [Next]_vars => IInv'
  BY NextIInv
<1> QED
  BY <1>1, <1>2, PTL DEF Spec

----------------------------------------------------------------------------
(* What a step ends, it ends in a consistent state.                        *)

LEMMA EndsSays ==
  ASSUME NEW j, NEW end, NEW read, NEW changed, Ends(j, end, read, changed)
  PROVE  /\ outcome'.op = j.op /\ outcome'.end = end /\ outcome'.read = read /\ outcome'.changed = changed
         /\ outcome'.s = j.s /\ outcome'.began = j.began /\ outcome'.faulted = j.faulted
         /\ outcome'.beside = j.beside
  BY DEF Ends

LEMMA PollEndsSays ==
  ASSUME NEW end, NEW read, NEW changed, PollEnds(end, read, changed)
  PROVE  /\ outcome'.op = poller.op /\ outcome'.end = end /\ outcome'.read = read /\ outcome'.changed = changed
         /\ outcome'.began = poller.began /\ outcome'.faulted = poller.faulted /\ outcome'.beside = poller.beside
  BY EndsSays DEF PollEnds

LEMMA UserEndsSays ==
  ASSUME NEW end, UserEnds(end)
  PROVE  /\ outcome'.op = user.op /\ outcome'.end = end /\ outcome'.s = user.s /\ outcome'.beside = user.beside
  BY EndsSays DEF UserEnds

LEMMA BeginPollSays == ASSUME NEW i \in Instruments, BeginPoll(i)
  PROVE  outcome' = None \/ (outcome'.op = "poll" /\ outcome'.end \in {"not connected", "no instrument"})
<1> DEFINE j == [Job("poll", "status") EXCEPT !.name = i, !.node = NodeOf(session), !.beside = user # None]
<1>1. j.op = "poll"
  BY DEF Job
<1>2. Ends(j, "not connected", None, FALSE) \/ Ends(j, "no instrument", None, FALSE) \/ outcome' = None
  BY DEF BeginPoll, Goes
<1> HIDE DEF j
<1> QED
  BY <1>1, <1>2, EndsSays

LEMMA BeginConfigureSays == ASSUME NEW i \in Instruments, NEW v \in Settings, BeginConfigure(i, v)
  PROVE  outcome' = None \/ outcome'.op = "configure"
<1> DEFINE j == [Job("configure", "write") EXCEPT !.name = i, !.value = v, !.node = NodeOf(session)]
<1>1. j.op = "configure"
  BY DEF Job
<1>2. Ends(j, "error", None, FALSE) \/ outcome' = None
  BY DEF BeginConfigure, UserGoes
<1> HIDE DEF j
<1> QED
  BY <1>1, <1>2, EndsSays

(* Which call a step of the poll, of the user or of the board ends.        *)
LEMMA PollSteps ==
  ASSUME IInv, Poll \/ CancelPoll
  PROVE  \/ outcome' = None
         \/ /\ outcome'.op = "poll"
            /\ \/ StatusAnswered \/ Replayed \/ (StatusAgain /\ (outcome'.changed \/ outcome'.end = "raised"))
               \/ outcome'.end \notin {"healthy", "reconnected"}
<1>1. ASSUME NEW i \in Instruments, BeginPoll(i) PROVE outcome' = None \/ (outcome'.op = "poll" /\ outcome'.end \notin {"healthy", "reconnected"})
  BY <1>1, BeginPollSays
<1>2. ASSUME NEW i \in Instruments, Replay(i) PROVE outcome' = None
  BY <1>2 DEF Replay, Goes
<1>3. ASSUME poller # None, NEW end, NEW read, NEW changed, PollEnds(end, read, changed) PROVE outcome'.op = "poll" /\ outcome'.end = end
  BY <1>3, PollEndsSays DEF IInv, Polling
<1>4. CASE StatusAnswered
  BY <1>3, <1>4 DEF StatusAnswered, At
<1>5. CASE StatusFailed \/ Rebuild \/ Rebuilt \/ StillAway \/ CancelPoll
  <2>1. outcome' = None \/ \E end \in {"reconnecting", "raised", "cancelled"} : poller # None /\ PollEnds(end, None, FALSE)
    BY <1>5 DEF StatusFailed, Rebuild, Rebuilt, StillAway, CancelPoll, Goes, At
  <2> QED
    BY <1>3, <2>1
<1>6. CASE StatusAgain
  <2>1. \/ outcome' = None
        \/ poller # None /\ PollEnds("raised", None, FALSE)
        \/ poller # None /\ PollEnds("reconnected", board.image, TRUE)
    BY <1>6 DEF StatusAgain, Goes, At
  <2> QED
    BY <1>3, <1>6, <2>1, PollEndsSays
<1>7. CASE Replayed
  BY <1>3, <1>7 DEF Replayed, At
<1> QED
  BY <1>1, <1>2, <1>4, <1>5, <1>6, <1>7 DEF Poll

LEMMA UserSteps ==
  ASSUME IInv, User
  PROVE  \/ outcome' = None
         \/ outcome'.op \in {"connect", "configure"}
         \/ Forget /\ outcome'.op = "disconnect"
<1>1. ASSUME NEW i \in Instruments, NEW v \in Settings, BeginConfigure(i, v) PROVE outcome' = None \/ outcome'.op = "configure"
  BY <1>1, BeginConfigureSays
<1>2. CASE BeginConnect \/ BeginDisconnect \/ Close
  BY <1>2 DEF BeginConnect, BeginDisconnect, Close, UserGoes
<1>3. user # None => user.op \in {"connect", "disconnect", "configure"}
  BY CallsHold DEF IInv, Calls, Held
<1>4. CASE Open \/ ReadFingerprint \/ Configure
  <2>1. user # None /\ user.pc \in {"open", "fingerprint", "write"}
    BY <1>4 DEF Open, ReadFingerprint, Configure, Does
  <2>2. user.op \in {"connect", "configure"}
    BY <1>3, <2>1 DEF IInv, Calls
  <2>3. outcome' = None \/ \E end : UserEnds(end)
    BY <1>4 DEF Open, ReadFingerprint, Configure, UserGoes
  <2> QED
    BY <2>2, <2>3, UserEndsSays
<1>5. CASE Forget
  <2>1. UserEnds("disconnected") /\ user # None /\ user.pc = "forget"
    BY <1>5 DEF Forget, Does
  <2>2. user.op = "disconnect"
    BY <2>1, Disconnecting
  <2> QED
    BY <1>5, <2>1, <2>2, UserEndsSays
<1> QED
  BY <1>1, <1>2, <1>4, <1>5 DEF User

LEMMA BoardSteps == ASSUME Lose \/ Reprogram \/ Return PROVE outcome' = None
  BY DEF Lose, Reprogram, Return, Fault

(* A poll is done by a status that was answered or a replay that ended.    *)
LEMMA PollDoneBy ==
  ASSUME IInv, Next, PollDone'
  PROVE  StatusAnswered \/ Replayed \/ outcome'.changed
  BY PollSteps, UserSteps, BoardSteps DEF Next, PollDone

LEMMA StepChangedIsSeen == ASSUME IInv, Next PROVE ChangedIsSeen'
<1> SUFFICES ASSUME PollDone', ~outcome'.changed, shell' = "connected", outcome'.began = session'
             PROVE  outcome'.read = sessions'[session'].opened
  BY DEF ChangedIsSeen
<1>1. StatusAnswered \/ Replayed
  BY PollDoneBy
<1>2. CASE StatusAnswered
  <2>1. /\ PollEnds("healthy", board.image, Differs(board.image)) /\ session # 0
        /\ UNCHANGED <<sessions, session>>
    BY <1>2 DEF StatusAnswered
  <2>2. outcome'.changed = Differs(board.image) /\ outcome'.read = board.image
    BY <2>1, PollEndsSays
  <2>3. shell = "connected"
    BY <1>2, <2>2 DEF StatusAnswered, Shown
  <2>4. sessions[session].fingerprint \in Images
    BY <2>3 DEF IInv, TypeOK
  <2>5. session \in DOMAIN sessions
    BY <2>1, SessionsHold DEF IInv
  <2> QED
    BY <2>1, <2>2, <2>4, <2>5, NoneAssumption DEF IInv, Remembered, Differs
<1>3. CASE Replayed
  <2>1. /\ At("replay") /\ UNCHANGED <<sessions, session, shell>>
        /\ PollEnds("raised", None, FALSE) \/ PollEnds("reconnected", poller.read, FALSE)
    BY <1>3 DEF Replayed
  <2>2. outcome'.read = poller.read /\ outcome'.began = poller.began
    BY <2>1, PollEndsSays DEF PollDone
  <2> QED
    BY <2>1, <2>2 DEF IInv, Replaying
<1> QED
  BY <1>1, <1>2, <1>3

LEMMA StepReconnectRestores == ASSUME IInv, Next PROVE ReconnectRestores'
<1> SUFFICES ASSUME PollDone', outcome'.end = "reconnected", ~outcome'.changed, ~outcome'.faulted,
                    ~outcome'.beside, Untangled'
             PROVE  \A i \in Cached(cache)' \intersect Holds(board'.image) :
                      board'.regs[i] = dicts'[cache'][i].value
  BY DEF ReconnectRestores
<1>1. Replayed
  <2>1. ASSUME StatusAnswered PROVE outcome'.end = "healthy"
    BY <2>1, PollEndsSays DEF StatusAnswered
  <2> QED
    BY <2>1, PollDoneBy
<1>2. /\ At("replay") /\ ~Grown /\ poller.todo = {} /\ ~poller.faulted /\ ~poller.beside /\ poller # None
      /\ UNCHANGED <<board, transports, sessions, session, dicts, cache>>
  <2>1. /\ PollEnds("raised", None, FALSE) \/ (~Grown /\ poller.todo = {} /\ PollEnds("reconnected", poller.read, FALSE))
        /\ At("replay") /\ poller # None /\ UNCHANGED <<board, transports, sessions, session, dicts, cache>>
    BY <1>1 DEF Replayed, At
  <2> QED
    BY <2>1, PollEndsSays
<1>3. Untangled /\ Cached(cache)' = Cached(cache)
  BY <1>2 DEF Untangled, Cached
<1> QED
  BY <1>2, <1>3 DEF IInv, Replaying

LEMMA StepDisconnectCloses == ASSUME IInv, Next PROVE DisconnectCloses'
<1> SUFFICES ASSUME outcome' # None, outcome'.op = "disconnect", outcome'.s # 0, ~outcome'.beside,
                    sessions'[outcome'.s].hurt \subseteq {"found no board"}
             PROVE  tree' = 0
  BY DEF DisconnectCloses
<1>2. Forget
  BY PollSteps, UserSteps, BoardSteps DEF Next
<1>3. /\ user # None /\ user.pc = "forget" /\ ~user.beside /\ user.s # 0 /\ UNCHANGED <<sessions, tree>>
      /\ sessions[user.s].hurt \subseteq {"found no board"}
  <2>1. user # None /\ user.pc = "forget" /\ UserEnds("disconnected") /\ UNCHANGED <<sessions, tree>>
    BY <1>2 DEF Forget, Does
  <2> QED
    BY <2>1, UserEndsSays
<1>4. user.op = "disconnect" /\ user.s = session /\ poller = None /\ sessions[session].transport = 0
  BY <1>3, Disconnecting
<1> QED
  BY <1>3, <1>4 DEF IInv, TreeIsOwned, Untangled, At

(* However many sessions, faults and calls: what a status does not call    *)
(* changed was read from the gateware the session was opened on, and a     *)
(* poll that reconnected put the configuration back (session.py:97, 130).  *)
THEOREM Lasting == Spec => []SessionLasts
<1>1. Init => SessionLasts
  BY InitIInv DEF Init, SessionLasts, ChangedIsSeen, ReconnectRestores, PollDone
<1>2. SessionLasts /\ [Next]_vars => SessionLasts'
  <2> SUFFICES ASSUME SessionLasts, [Next]_vars PROVE SessionLasts'
    OBVIOUS
  <2>1. IInv'
    BY NextIInv DEF SessionLasts
  <2>2. CASE Next
    BY <2>1, <2>2, StepChangedIsSeen, StepReconnectRestores DEF SessionLasts
  <2>3. CASE UNCHANGED vars
    BY <2>1, <2>3 DEF vars, SessionLasts, ChangedIsSeen, ReconnectRestores, PollDone, Untangled, Cached
  <2> QED
    BY <2>2, <2>3
<1> QED
  BY <1>1, <1>2, PTL DEF Spec

(* A disconnect closes the transport its session held, whichever rebuild   *)
(* opened it (session.py:107-118).                                         *)
THEOREM Closing == Spec => []DisconnectCloses
<1>1. Init => IInv /\ DisconnectCloses
  BY InitIInv DEF Init, DisconnectCloses
<1>2. IInv /\ DisconnectCloses /\ [Next]_vars => IInv' /\ DisconnectCloses'
  <2> SUFFICES ASSUME IInv, DisconnectCloses, [Next]_vars PROVE IInv' /\ DisconnectCloses'
    OBVIOUS
  <2>1. CASE Next
    BY <2>1, NextIInv, StepDisconnectCloses
  <2>2. CASE UNCHANGED vars
    BY <2>2, NextIInv DEF vars, DisconnectCloses
  <2> QED
    BY <2>1, <2>2
<1> QED
  BY <1>1, <1>2, PTL DEF Spec

(* A configuration made on one gateware is not replayed onto another to a  *)
(* page that listens (gui/app.py:215-233).                                 *)
THEOREM Fitting == Spec => ReplayFits
<1> DEFINE Fits ==
      \A i \in Instruments :
        At("replay") /\ ~poller.swapped /\ shell = "connected" /\ poller.began = session /\ i \in poller.todo
        /\ poller' # None /\ i \notin poller'.todo /\ board' # board => dicts[poller.dict][i].of = board.image
<1>1. IInv /\ [Next]_vars => [Fits]_vars
  <2> SUFFICES ASSUME IInv, NEW i \in Instruments, At("replay"), ~poller.swapped, shell = "connected",
                      poller.began = session, i \in poller.todo
               PROVE  dicts[poller.dict][i].of = board.image
    OBVIOUS
  <2> QED
    BY DEF IInv, Replaying, Remembered, At
<1>2. Spec => []IInv
  BY SessionIsConsistent
<1>3. []IInv /\ [][Next]_vars => [][Fits]_vars
  BY <1>1, PTL
<1> QED
  BY <1>2, <1>3 DEF Spec, ReplayFits

=============================================================================
