--------------------------- MODULE UsbBridgeProofs ---------------------------
(***************************************************************************)
(* For any number of callers, any commands and transfers, however often    *)
(* the channel is stopped, lost and opened again: as long as no transfer   *)
(* has failed, replies and receives are of the same commands in the same   *)
(* order, and each command is answered with its own reply.                 *)
(***************************************************************************)
EXTENDS UsbBridge, SequenceTheorems, TLAPS

----------------------------------------------------------------------------
(* Sequences.                                                              *)

(* What is left out leaves no command twice.                               *)
LEMMA DropMiddle ==
  ASSUME NEW S, NEW a \in Seq(S), NEW b \in Seq(S), NEW c \in Seq(S),
         IsInjective(a \o b \o c)
  PROVE  IsInjective(a \o c)
<1> DEFINE abc == a \o b \o c
           ac == a \o c
           At(i) == IF i <= Len(a) THEN i ELSE i + Len(b)
<1>1. /\ DOMAIN abc = 1..(Len(a) + Len(b) + Len(c)) /\ DOMAIN ac = 1..(Len(a) + Len(c))
      /\ \A i \in DOMAIN ac : At(i) \in DOMAIN abc /\ ac[i] = abc[At(i)]
  OBVIOUS
<1>2. \A i, j \in DOMAIN ac : At(i) = At(j) => i = j
  BY <1>1
<1> QED
  BY <1>1, <1>2 DEF IsInjective

LEMMA Joined ==
  ASSUME NEW S, NEW a \in Seq(S), NEW b \in Seq(S), NEW c \in Seq(S)
  PROVE  a \o b \in Seq(S) /\ (a \o b) \o c = a \o (b \o c)
  OBVIOUS

LEMMA SameTail ==
  ASSUME NEW S, NEW h \in S, NEW a \in Seq(S), NEW b \in Seq(S), <<h>> \o a = <<h>> \o b
  PROVE  a = b
<1>1. /\ Len(<<h>> \o a) = 1 + Len(a) /\ Len(<<h>> \o b) = 1 + Len(b)
      /\ \A i \in 1..Len(a) : (<<h>> \o a)[i + 1] = a[i]
      /\ \A i \in 1..Len(b) : (<<h>> \o b)[i + 1] = b[i]
  OBVIOUS
<1>2. Len(a) = Len(b) /\ \A i \in 1..Len(a) : a[i] = b[i]
  BY <1>1
<1> QED
  BY <1>2, SeqEqual

LEMMA JoinInjective ==
  ASSUME NEW S, NEW a \in Seq(S), NEW b \in Seq(S), IsInjective(a), IsInjective(b),
         \A i \in DOMAIN a, j \in DOMAIN b : a[i] # b[j]
  PROVE  IsInjective(a \o b)
<1> DEFINE ab == a \o b
<1>1. /\ DOMAIN ab = 1..(Len(a) + Len(b)) /\ DOMAIN a = 1..Len(a) /\ DOMAIN b = 1..Len(b)
      /\ \A i \in DOMAIN ab : ab[i] = IF i <= Len(a) THEN a[i] ELSE b[i - Len(a)]
  OBVIOUS
<1> QED
  BY <1>1 DEF IsInjective

(* The commands that replies are of, in order.                             *)
OfAll(replies) == [i \in DOMAIN replies |-> replies[i].of]
Replies == [of : Parties, left : Nat \ {0}]

LEMMA OfAllFacts ==
  ASSUME NEW s \in Seq(Replies)
  PROVE  /\ OfAll(s) \in Seq(Parties) /\ Len(OfAll(s)) = Len(s)
         /\ OfAll(s) = <<>> <=> s = <<>>
         /\ \A r \in Replies : OfAll(Append(s, r)) = Append(OfAll(s), r.of)
         /\ s # <<>> => /\ OfAll(s) = <<s[1].of>> \o OfAll(Tail(s))
                        /\ \A n \in Nat \ {0} : OfAll([s EXCEPT ![1].left = n]) = OfAll(s)
<1>1. OfAll(s) \in Seq(Parties) /\ Len(OfAll(s)) = Len(s)
  <2>1. Len(s) \in Nat /\ DOMAIN s = 1..Len(s) /\ \A i \in 1..Len(s) : s[i] \in Replies
    OBVIOUS
  <2>2. \A r \in Replies : r.of \in Parties
    BY DEF Replies
  <2>3. OfAll(s) \in [1..Len(s) -> Parties]
    BY <2>1, <2>2 DEF OfAll
  <2> QED
    BY <2>1, <2>3
<1>2. OfAll(s) = <<>> <=> s = <<>>
  BY <1>1
<1>3. ASSUME NEW r \in Replies PROVE OfAll(Append(s, r)) = Append(OfAll(s), r.of)
  BY <1>1 DEF OfAll, Replies
<1>4. ASSUME s # <<>> PROVE OfAll(s) = <<s[1].of>> \o OfAll(Tail(s))
  BY <1>4 DEF OfAll, Replies
<1>5. ASSUME s # <<>>, NEW n \in Nat \ {0}
      PROVE  OfAll([s EXCEPT ![1].left = n]) = OfAll(s)
  BY <1>5 DEF OfAll, Replies
<1> QED
  BY <1>1, <1>2, <1>3, <1>4, <1>5

(* A queue and the task that takes from it.                                *)
LEMMA TakesFacts ==
  ASSUME NEW q \in Seq(Commands)
  PROVE  /\ Rest(q) \in Seq(Commands)
         /\ After(q).alive \in BOOLEAN /\ After(q).cmd \in Parties /\ After(q).made = <<>>
         /\ \A S : After(q) \in Tasks(S)
         /\ InService(After(q)) \o Rest(q) = q
<1>1. CASE q = <<>>
  BY <1>1 DEF Rest, After, NoTask, InService, Tasks, Parties
<1>2. CASE q # <<>>
  <2>1. Head(q) \in Commands /\ Tail(q) \in Seq(Commands) /\ <<Head(q)>> \o Tail(q) = q
    BY <1>2
  <2>2. Head(q) # Nobody
    BY <2>1, TokensAssumption
  <2> QED
    BY <1>2, <2>1, <2>2 DEF Rest, After, InService, Tasks, Parties
<1> QED
  BY <1>1, <1>2

LEMMA InServiceFacts ==
  ASSUME NEW S, NEW t \in Tasks(S)
  PROVE  /\ InService(t) \in Seq(Commands)
         /\ t.cmd = Nobody => InService(t) = <<>>
         /\ t.cmd # Nobody => t.cmd \in Commands /\ InService(t) = <<t.cmd>>
  BY DEF InService, Tasks, Parties

LEMMA TransfersFacts ==
  \A c \in Parties : Transfers(c) \in Nat \ {0}
  BY TransfersAssumption, TokensAssumption DEF Transfers, Parties
----------------------------------------------------------------------------
(* The invariant, action by action.                                        *)
queues == <<posted, sends, recvs, writer, reader>>
target == <<gathering, device, in>>

LEMMA TypeFacts ==
  ASSUME TypeOK
  PROVE  /\ posted \in Seq(Commands) /\ sends \in Seq(Commands) /\ recvs \in Seq(Commands)
         /\ in \in Seq(Replies)
         /\ InService(reader) \in Seq(Commands) /\ InService(writer) \in Seq(Commands)
         /\ OfAll(in) \in Seq(Parties) /\ device \in Seq(Parties)
         /\ Asked \in Seq(Commands) /\ Commands \subseteq Parties
         /\ Owed = OfAll(in) \o device \o InService(writer) \o sends \o posted
<1>1. /\ posted \in Seq(Commands) /\ sends \in Seq(Commands) /\ recvs \in Seq(Commands)
      /\ in \in Seq(Replies) /\ device \in Seq(Parties)
  BY DEF TypeOK, Replies
<1>2. InService(reader) \in Seq(Commands) /\ InService(writer) \in Seq(Commands)
  BY InServiceFacts DEF TypeOK
<1>3. OfAll(in) \in Seq(Parties)
  BY <1>1, OfAllFacts
<1>4. Asked \in Seq(Commands)
  BY <1>1, <1>2 DEF Asked
<1> QED
  BY <1>1, <1>2, <1>3, <1>4 DEF Parties, Owed, OfAll

LEMMA PartyFacts ==
  ASSUME TypeOK
  PROVE  /\ posted \in Seq(Parties) /\ sends \in Seq(Parties) /\ recvs \in Seq(Parties)
         /\ InService(reader) \in Seq(Parties) /\ InService(writer) \in Seq(Parties)
         /\ OfAll(in) \in Seq(Parties) /\ device \in Seq(Parties)
         /\ Asked \in Seq(Parties)
  BY TypeFacts

(* What is owed: the replies being read, and what is behind them.          *)
Behind == device \o InService(writer) \o sends \o posted
OwedAfter(q) == q \o device \o InService(writer) \o sends \o posted

LEMMA BehindFacts ==
  ASSUME TypeOK, NEW q \in Seq(Parties)
  PROVE  Behind \in Seq(Parties) /\ OwedAfter(q) = q \o Behind
<1> DEFINE w == InService(writer)
           bc == device \o w
           bcd == bc \o sends
<1>1. /\ device \in Seq(Parties) /\ w \in Seq(Parties) /\ sends \in Seq(Parties)
      /\ posted \in Seq(Parties)
  BY PartyFacts
<1> HIDE DEF w
<1>2. bc \in Seq(Parties) /\ q \o device \o w = q \o bc
  BY <1>1
<1> HIDE DEF bc
<1>3. bcd \in Seq(Parties) /\ q \o bc \o sends = q \o bcd
  <2>1. bcd \in Seq(Parties)
    BY <1>1, <1>2
  <2>2. q \o bc \o sends = q \o bcd
    BY SMTT(60), <1>1, <1>2, Joined
  <2> QED BY <2>1, <2>2
<1> HIDE DEF bcd
<1>4. bcd \o posted \in Seq(Parties) /\ q \o bcd \o posted = q \o (bcd \o posted)
  <2>1. bcd \o posted \in Seq(Parties)
    BY <1>1, <1>3
  <2>2. q \o bcd \o posted = q \o (bcd \o posted)
    BY SMTT(60), <1>1, <1>3, Joined
  <2> QED BY <2>1, <2>2
<1> QED
  BY <1>2, <1>3, <1>4 DEF bc, bcd, Behind, OwedAfter, w

LEMMA OwedFacts ==
  ASSUME TypeOK
  PROVE  OfAll(in) \in Seq(Parties) /\ Owed = OfAll(in) \o Behind
<1>1. OfAll(in) \in Seq(Parties) /\ Owed = OwedAfter(OfAll(in))
  BY PartyFacts, TypeFacts DEF OwedAfter
<1> QED
  BY <1>1, BehindFacts

(* What concerns the callers alone leaves the link as it is.               *)
LEMMA CallersStep ==
  ASSUME IInv, TypeOK', UNCHANGED <<link, ending, broken, queues, target>>
  PROVE  IInv'
<1>1. UNCHANGED <<Asked, Owed>>
  BY DEF Asked, Owed, queues, target, InService
<1> QED
  BY <1>1 DEF IInv, AskedOnce, RepliesInStep, Settled, TransfersInStep, queues, target, NoTask

LEMMA LeaveStep ==
  ASSUME IInv, NEW c \in Callers, Return(c) \/ GiveUp(c)
  PROVE  IInv'
<1>1. UNCHANGED <<link, ending, broken, queues, target>> /\ Leave(c)
  BY DEF Return, GiveUp, queues, target
<1>2. TypeOK'
  BY <1>1 DEF IInv, TypeOK, Leave, queues, target
<1> QED
  BY <1>1, <1>2, CallersStep

LEMMA BurstsFacts ==
  ASSUME NEW free \in SUBSET Commands, NEW s \in Bursts(free)
  PROVE  s \in Seq(Commands) /\ IsInjective(s) /\ \A i \in DOMAIN s : s[i] \in free
<1>1. PICK n \in 1..MaxBursts : s \in [1..n -> free] /\ IsInjective(s)
  BY DEF Bursts
<1> QED
  BY <1>1, BurstsAssumption

(* A command is in use while its receive is.                               *)
LEMMA AskedInUse ==
  ASSUME TypeOK
  PROVE  \A i \in DOMAIN Asked : Asked[i] \in InUse
<1> DEFINE all == posted \o sends \o recvs \o device
           part == Len(posted) + Len(sends)
<1>1. /\ posted \in Seq(Parties) /\ sends \in Seq(Parties) /\ recvs \in Seq(Parties)
      /\ device \in Seq(Parties)
  BY TypeFacts
<1>2. /\ DOMAIN all = 1..(part + Len(recvs) + Len(device))
      /\ DOMAIN posted = 1..Len(posted) /\ DOMAIN recvs = 1..Len(recvs)
      /\ \A i \in DOMAIN posted : all[i] = posted[i]
      /\ \A i \in DOMAIN recvs : all[part + i] = recvs[i]
  BY <1>1
<1>3. /\ \A i \in DOMAIN posted : posted[i] \in ToSet(all)
      /\ \A i \in DOMAIN recvs : recvs[i] \in ToSet(all)
  <2> HIDE DEF all
  <2>1. \A i \in DOMAIN all : all[i] \in ToSet(all)
    BY DEF ToSet
  <2> QED
    BY SMTT(30), <1>1, <1>2, <2>1
<1>4. ToSet(all) \subseteq InUse /\ reader.cmd \in InUse
  <2>1. ASSUME NEW x \in ToSet(all) PROVE x \in InUse
    BY <2>1 DEF InUse
  <2>2. reader.cmd \in InUse
    BY DEF InUse
  <2> QED
    BY <2>1, <2>2
<1>5. CASE reader.cmd = Nobody
  <2>1. Asked = recvs \o posted
    BY <1>1, <1>5 DEF Asked, InService
  <2>2. \A i \in DOMAIN (recvs \o posted) :
          \/ i \in DOMAIN recvs /\ (recvs \o posted)[i] = recvs[i]
          \/ i - Len(recvs) \in DOMAIN posted /\ (recvs \o posted)[i] = posted[i - Len(recvs)]
    BY <1>1
  <2> QED
    BY <2>1, <2>2, <1>3, <1>4
<1>6. CASE reader.cmd # Nobody
  <2> DEFINE r == reader.cmd
             a == <<r>> \o recvs \o posted
  <2>1. Asked = a /\ r \in Parties
    BY <1>6 DEF Asked, InService, TypeOK, Tasks
  <2>2. \A i \in DOMAIN a :
          \/ a[i] = r
          \/ i - 1 \in DOMAIN recvs /\ a[i] = recvs[i - 1]
          \/ i - 1 - Len(recvs) \in DOMAIN posted /\ a[i] = posted[i - 1 - Len(recvs)]
    BY <1>1, <2>1
  <2> QED
    BY <2>1, <2>2, <1>3, <1>4
<1> QED
  BY <1>5, <1>6

(* A call asks for commands that are nowhere in the link.                  *)
LEMMA CallStep ==
  ASSUME IInv, NEW c \in Callers, Call(c)
  PROVE  IInv'
<1>1. PICK cmds \in Bursts(Commands \ InUse) :
        /\ posted' = posted \o cmds
        /\ call' = [call EXCEPT ![c] = cmds]
        /\ answer' = [d \in Commands |-> IF d \in ToSet(cmds) THEN Waiting ELSE answer[d]]
  BY DEF Call
<1>2. cmds \in Seq(Commands) /\ IsInjective(cmds) /\ \A i \in DOMAIN cmds : cmds[i] \notin InUse
  BY BurstsFacts
<1>3. UNCHANGED <<link, broken, ending, sends, recvs, writer, reader, target>>
      /\ (link = "open" \/ ~Quiet)
  BY DEF Call, target
<1>4. Asked \in Seq(Commands) /\ Asked' = Asked \o cmds
  <2>1. Asked' = InService(reader) \o recvs \o (posted \o cmds)
    BY <1>1, <1>3 DEF Asked, InService
  <2>2. /\ InService(reader) \in Seq(Commands) /\ recvs \in Seq(Commands)
        /\ posted \in Seq(Commands)
    BY TypeFacts DEF IInv
  <2> DEFINE before == InService(reader) \o recvs
  <2>3. before \in Seq(Commands) /\ Asked = before \o posted
    BY <2>2 DEF Asked
  <2>4. Asked' = before \o (posted \o cmds)
    BY <2>1
  <2> HIDE DEF before
  <2>5. before \o posted \in Seq(Commands)
    BY <2>2, <2>3
  <2>6. (before \o posted) \o cmds = before \o (posted \o cmds)
    BY <1>2, <2>2, <2>3
  <2> QED
    BY <2>3, <2>4, <2>5, <2>6
<1>5. Owed' = Owed \o cmds
  <2>1. cmds \in Seq(Parties) /\ posted \in Seq(Parties) /\ sends \in Seq(Parties)
        /\ InService(writer) \in Seq(Parties) /\ device \in Seq(Parties)
        /\ OfAll(in) \in Seq(Parties)
    BY <1>2, TypeFacts DEF IInv
  <2>2. Owed' = OfAll(in) \o device \o InService(writer) \o sends \o (posted \o cmds)
    BY <1>1, <1>3 DEF Owed, OfAll, target, InService
  <2> DEFINE before == OfAll(in) \o device \o InService(writer) \o sends
  <2>3. before \in Seq(Parties) /\ Owed = before \o posted
    BY SMTT(60), <2>1, TypeFacts DEF IInv
  <2> HIDE DEF before
  <2>4. Owed' = before \o (posted \o cmds)
    BY <2>2 DEF before
  <2> QED
    <3>1. (before \o posted) \o cmds = before \o (posted \o cmds)
      BY SMTT(60), <2>1, <2>3, Joined
    <3> QED
      BY <2>3, <2>4, <3>1
<1>6. TypeOK'
  <2>1. posted' \in Seq(Commands) /\ call' \in [Callers -> Seq(Commands)]
    BY <1>1, <1>2 DEF IInv, TypeOK
  <2>2. answer' \in [Commands -> {Waiting, Failed, Dropped} \union Seq(Pieces)]
    BY <1>1 DEF IInv, TypeOK
  <2> QED
    BY <2>1, <2>2, <1>3 DEF IInv, TypeOK, target
<1>7. AskedOnce'
  <2>1. \A i \in DOMAIN Asked, j \in DOMAIN cmds : Asked[i] # cmds[j]
    BY <1>2, AskedInUse DEF IInv
  <2> QED
    BY <1>2, <1>4, <2>1, JoinInjective DEF IInv, AskedOnce
<1>8. RepliesInStep' /\ Settled' /\ (link' = "open" /\ ~broken' => TransfersInStep')
  BY <1>3, <1>4, <1>5 DEF IInv, RepliesInStep, Settled, TransfersInStep, target
<1> QED
  BY <1>6, <1>7, <1>8 DEF IInv

LEMMA AskedWithoutReader ==
  ASSUME IInv
  PROVE  /\ recvs \o posted \in Seq(Commands) /\ IsInjective(recvs \o posted)
         /\ reader.cmd = Nobody => Asked = recvs \o posted
         /\ reader.cmd # Nobody => Asked = <<reader.cmd>> \o (recvs \o posted)
<1>1. recvs \in Seq(Commands) /\ posted \in Seq(Commands) /\ reader \in Tasks(Pieces)
  BY DEF IInv, TypeOK
<1>2. recvs \o posted \in Seq(Commands) /\ IsInjective(Asked)
  BY <1>1 DEF IInv, AskedOnce
<1>3. CASE reader.cmd = Nobody
  <2>1. Asked = recvs \o posted
    BY <1>1, <1>3 DEF Asked, InService
  <2> QED
    BY <1>2, <1>3, <2>1
<1>4. CASE reader.cmd # Nobody
  <2> DEFINE r == <<reader.cmd>>
             e == <<>>
  <2>1. r \in Seq(Commands) /\ e \in Seq(Commands) /\ InService(reader) = r
    BY <1>1, <1>4, InServiceFacts
  <2>2. Asked = r \o recvs \o posted /\ r \o recvs \o posted = r \o (recvs \o posted)
    BY <1>1, <2>1, Joined DEF Asked
  <2>3. e \o r \o (recvs \o posted) = Asked /\ e \o (recvs \o posted) = recvs \o posted
    BY <1>1, <2>1, <2>2
  <2> HIDE DEF e, r
  <2>4. IsInjective(e \o (recvs \o posted))
    <3>1. IsInjective(e \o r \o (recvs \o posted))
      BY <1>2, <2>3, Zenon
    <3> QED
      BY <1>2, <2>1, <3>1, DropMiddle
  <2> QED
    BY <1>2, <1>4, <2>2, <2>3, <2>4 DEF r
<1> QED
  BY <1>3, <1>4

(* Taking from the queue of receives answers what was in service, if       *)
(* anything was.                                                           *)
LEMMA ReaderTakesFacts ==
  ASSUME IInv, ReaderTakes, posted' = posted
  PROVE  /\ reader' \in Tasks(Pieces) /\ reader'.made = <<>> /\ recvs' \in Seq(Commands)
         /\ AskedOnce' /\ Asked' \in Seq(Commands)
         /\ reader.cmd = Nobody => Asked' = Asked
         /\ reader.cmd # Nobody => Asked = <<reader.cmd>> \o Asked'
<1>1. recvs \in Seq(Commands) /\ posted \in Seq(Commands) /\ reader \in Tasks(Pieces)
  BY DEF IInv, TypeOK
<1>2. /\ reader' \in Tasks(Pieces) /\ reader'.made = <<>> /\ recvs' \in Seq(Commands)
      /\ InService(reader') \o recvs' = recvs
  BY <1>1, TakesFacts DEF ReaderTakes
<1>3. Asked' = recvs \o posted /\ Asked' \in Seq(Commands)
  <2>1. InService(reader)' = InService(reader')
    BY DEF InService
  <2>2. Asked' = InService(reader') \o recvs' \o posted
    BY <2>1 DEF Asked
  <2> QED
    BY <1>1, <1>2, <2>2
<1> QED
  BY <1>2, <1>3, AskedWithoutReader DEF AskedOnce

LEMMA WriterTakesFacts ==
  ASSUME IInv, WriterTakes
  PROVE  /\ writer' \in Tasks(Commands) /\ writer'.made = <<>> /\ sends' \in Seq(Commands)
         /\ InService(writer') \o sends' = sends
<1>1. sends \in Seq(Commands)
  BY DEF IInv, TypeOK
<1> QED
  BY <1>1, TakesFacts DEF WriterTakes

LEMMA ReaderBeginsStep ==
  ASSUME IInv, ReaderBegins
  PROVE  IInv'
<1>1. /\ ReaderTakes /\ reader.cmd = Nobody /\ reader.alive
      /\ UNCHANGED <<link, posted, sends, writer, ending, target, call, answer, broken>>
  BY DEF ReaderBegins, target
<1>2. /\ reader' \in Tasks(Pieces) /\ reader'.made = <<>> /\ recvs' \in Seq(Commands)
      /\ AskedOnce' /\ Asked' = Asked
  BY <1>1, ReaderTakesFacts
<1>3. TypeOK'
  BY <1>1, <1>2 DEF IInv, TypeOK, target
<1>4. Owed' = Owed
  BY <1>1 DEF Owed, InService, target
<1>5. Settled'
  BY <1>1 DEF IInv, Settled, NoTask
<1>6. ASSUME link' = "open", ~broken' PROVE TransfersInStep'
  BY <1>1, <1>2, <1>6 DEF IInv, TransfersInStep, target
<1> QED
  BY <1>1, <1>2, <1>3, <1>4, <1>5, <1>6 DEF IInv, RepliesInStep

LEMMA WriterBeginsStep ==
  ASSUME IInv, WriterBegins
  PROVE  IInv'
<1>1. /\ WriterTakes /\ writer.cmd = Nobody /\ writer.alive
      /\ UNCHANGED <<link, posted, recvs, reader, ending, target, call, answer, broken>>
  BY DEF WriterBegins, target
<1>2. /\ writer' \in Tasks(Commands) /\ writer'.made = <<>> /\ sends' \in Seq(Commands)
      /\ InService(writer') \o sends' = sends
  BY <1>1, WriterTakesFacts
<1>3. TypeOK'
  BY <1>1, <1>2 DEF IInv, TypeOK, target
<1>4. Asked' = Asked
  BY <1>1 DEF Asked, InService
<1>5. Owed' = Owed
  <2>1. InService(writer) = <<>> /\ InService(writer)' = InService(writer')
    BY <1>1 DEF InService
  <2> DEFINE a == OfAll(in) \o device
  <2>2. a \in Seq(Parties) /\ posted \in Seq(Parties) /\ sends \in Seq(Parties)
    BY TypeFacts DEF IInv
  <2>3. InService(writer') \in Seq(Parties) /\ sends' \in Seq(Parties)
    BY <1>2, InServiceFacts DEF Parties
  <2>4. Owed = a \o <<>> \o sends \o posted
    BY <2>1, TypeFacts DEF IInv
  <2>5. Owed' = a \o InService(writer') \o sends' \o posted
    BY <1>1, <2>1 DEF Owed, OfAll, target
  <2> HIDE DEF a
  <2>6. a \o InService(writer') \o sends' = a \o (InService(writer') \o sends')
    BY SMTT(30), <2>2, <2>3, Joined
  <2> QED
    BY <1>2, <2>2, <2>4, <2>5, <2>6
<1>6. Settled'
  BY <1>1 DEF IInv, Settled, NoTask
<1>7. ASSUME link' = "open", ~broken' PROVE TransfersInStep'
  <2>1. gathering' = {}
    BY <1>1, <1>7 DEF IInv, TransfersInStep, target
  <2>2. writer'.cmd # Nobody => OutTransfers[writer'.cmd] \in Nat \ {0} /\ Len(writer'.made) = 0
    BY <1>2, TransfersAssumption DEF Tasks, Parties
  <2> QED
    BY <1>1, <1>2, <1>7, <2>1, <2>2 DEF IInv, TransfersInStep, target
<1> QED
  BY <1>1, <1>3, <1>4, <1>5, <1>6, <1>7 DEF IInv, RepliesInStep, AskedOnce

LEMMA OutFailsStep ==
  ASSUME IInv, OutFails
  PROVE  IInv'
<1>1. /\ WriterTakes /\ writer.cmd # Nobody /\ broken' = TRUE
      /\ UNCHANGED <<link, posted, recvs, reader, ending, target, call, answer>>
  BY DEF OutFails, target
<1>2. writer' \in Tasks(Commands) /\ sends' \in Seq(Commands)
  BY <1>1, WriterTakesFacts
<1>3. TypeOK'
  BY <1>1, <1>2 DEF IInv, TypeOK, target
<1>4. Asked' = Asked
  BY <1>1 DEF Asked, InService
<1>5. Settled'
  BY <1>1 DEF IInv, Settled, NoTask
<1> QED
  BY <1>1, <1>3, <1>4, <1>5 DEF IInv, RepliesInStep, AskedOnce

LEMMA ResolveFacts ==
  ASSUME TypeOK, NEW c \in Commands, NEW r \in {Failed} \union Seq(Pieces), Resolve(c, r)
  PROVE  /\ answer' \in [Commands -> {Waiting, Failed, Dropped} \union Seq(Pieces)]
         /\ \A d \in Commands : answer'[d] \in {answer[d]} \union IF d = c THEN {r} ELSE {}
  BY DEF TypeOK, Resolve

LEMMA InFailsStep ==
  ASSUME IInv, InFails
  PROVE  IInv'
<1>1. /\ ReaderTakes /\ reader.cmd # Nobody /\ broken' = TRUE /\ Resolve(reader.cmd, Failed)
      /\ UNCHANGED <<link, posted, sends, writer, ending, target, call>>
  BY DEF InFails, target
<1>2. reader' \in Tasks(Pieces) /\ recvs' \in Seq(Commands) /\ AskedOnce'
  BY <1>1, ReaderTakesFacts
<1>3. answer' \in [Commands -> {Waiting, Failed, Dropped} \union Seq(Pieces)]
  <2>1. reader.cmd \in Commands
    BY <1>1 DEF IInv, TypeOK, Tasks, Parties
  <2> QED
    BY <1>1, <2>1, ResolveFacts DEF IInv
<1>4. TypeOK'
  BY <1>1, <1>2, <1>3 DEF IInv, TypeOK, target
<1>5. Settled'
  BY <1>1 DEF IInv, Settled, NoTask
<1> QED
  BY <1>1, <1>2, <1>4, <1>5 DEF IInv, RepliesInStep

LEMMA DeliverFacts ==
  ASSUME TypeOK, NEW t, t.cmd \in Commands, Deliver(t)
  PROVE  gathering' \subseteq Commands /\ device' \in Seq(Parties)
<1>1. (IF gathering \union {t.cmd} = {t.cmd} THEN t.cmd ELSE Nobody) \in Parties
  BY DEF Parties
<1>2. gathering \subseteq Commands /\ device \in Seq(Parties)
  BY DEF TypeOK
<1> QED
  BY <1>1, <1>2 DEF Deliver

(* A frame that is delivered to its end goes from the writer to the        *)
(* device.                                                                 *)
LEMMA OutTransferStep ==
  ASSUME IInv, OutTransfer
  PROVE  IInv'
<1> DEFINE w == writer.cmd
<1>1. /\ link # "closed" /\ w # Nobody /\ Deliver(writer)
      /\ IF LastOut(writer) THEN WriterTakes
         ELSE writer' = [writer EXCEPT !.made = Append(@, w)] /\ UNCHANGED sends
      /\ UNCHANGED <<link, posted, recvs, reader, ending, in, call, answer, broken>>
  BY DEF OutTransfer
<1>2. w \in Commands /\ writer \in Tasks(Commands)
  BY <1>1 DEF IInv, TypeOK, Tasks, Parties
<1>3. gathering' \subseteq Commands /\ device' \in Seq(Parties)
  BY <1>1, <1>2, DeliverFacts DEF IInv
<1>4. LastOut(writer) => /\ writer' \in Tasks(Commands) /\ writer'.made = <<>>
                         /\ sends' \in Seq(Commands) /\ InService(writer') \o sends' = sends
  BY <1>1, WriterTakesFacts
<1>5. ~LastOut(writer) => /\ writer' \in Tasks(Commands) /\ writer'.cmd = w /\ sends' = sends
                          /\ writer'.made = Append(writer.made, w)
  BY <1>1, <1>2 DEF Tasks
<1>6. TypeOK'
  <2>1. sends \in Seq(Commands)
    BY DEF IInv, TypeOK
  <2> QED
    BY <1>1, <1>3, <1>4, <1>5, <2>1 DEF IInv, TypeOK
<1>7. Asked' = Asked
  BY <1>1 DEF Asked, InService
<1>8. Settled'
  BY <1>1 DEF IInv, Settled, NoTask
<1>9. ASSUME link' = "open", ~broken' PROVE TransfersInStep' /\ Owed' = Owed
  <2>1. TransfersInStep
    BY <1>1, <1>9 DEF IInv
  <2>2. gathering \union {w} = {w}
    BY <2>1 DEF TransfersInStep
  <2>3. Len(writer.made) < OutTransfers[w] /\ OutTransfers[w] \in Nat \ {0}
        /\ writer.made \in Seq(Commands)
    BY <1>1, <1>2, <2>1, TransfersAssumption DEF TransfersInStep, Tasks
  <2>4. CASE LastOut(writer)
    <3>1. gathering' = {} /\ device' = Append(device, w)
      BY <1>1, <2>2, <2>4 DEF Deliver
    <3>2. TransfersInStep'
      <4>1. writer'.cmd # Nobody => OutTransfers[writer'.cmd] \in Nat \ {0} /\ Len(writer'.made) = 0
        BY <1>4, <2>4, TransfersAssumption DEF Tasks, Parties
      <4> QED
        BY <1>1, <1>4, <2>1, <2>4, <3>1, <4>1 DEF TransfersInStep
    <3>3. Owed' = Owed
      <4> DEFINE a == OfAll(in)
                 s == InService(writer')
      <4>1. /\ a \in Seq(Parties) /\ device \in Seq(Parties) /\ <<w>> \in Seq(Parties)
            /\ sends \in Seq(Parties) /\ posted \in Seq(Parties)
            /\ s \in Seq(Parties) /\ sends' \in Seq(Parties)
        BY <1>2, <1>4, <2>4, TypeFacts, InServiceFacts DEF IInv, Parties
      <4>2. InService(writer) = <<w>> /\ InService(writer)' = s
        BY <1>1 DEF InService
      <4>3. Owed = a \o device \o <<w>> \o sends \o posted
        BY <4>2, TypeFacts DEF IInv
      <4>4. Owed' = a \o (device \o <<w>>) \o s \o sends' \o posted
        <5>1. device' = device \o <<w>>
          BY <1>2, <3>1, <4>1, AppendIsConcat DEF Parties
        <5>2. a' = a
          BY <1>1 DEF OfAll
        <5>3. Owed' = a' \o device' \o InService(writer)' \o sends' \o posted'
          BY DEF Owed, OfAll
        <5> QED
          BY <1>1, <4>2, <5>1, <5>2, <5>3
      <4> DEFINE x == a \o device \o <<w>>
      <4> HIDE DEF a, s
      <4>5. a \o (device \o <<w>>) = x /\ x \in Seq(Parties)
        BY <4>1, Joined
      <4>6. Owed = x \o sends \o posted /\ Owed' = x \o s \o sends' \o posted
        BY <4>3, <4>4, <4>5
      <4> HIDE DEF x
      <4>7. x \o s \o sends' = x \o (s \o sends')
        <5>1. x \in Seq(Parties) /\ s \in Seq(Parties) /\ sends' \in Seq(Parties)
          BY <4>1, <4>5
        <5> QED
          BY <5>1, Joined
      <4>8. s \o sends' = sends
        BY <1>4, <2>4 DEF s
      <4> QED
        BY <4>6, <4>7, <4>8
    <3> QED
      BY <3>2, <3>3
  <2>5. CASE ~LastOut(writer)
    <3>1. gathering' = {w} /\ device' = device
      BY <1>1, <2>2, <2>5 DEF Deliver
    <3>2. Len(writer'.made) < OutTransfers[w] /\ writer'.made # <<>>
      BY <1>5, <2>3, <2>5 DEF LastOut
    <3>3. TransfersInStep'
      BY <1>1, <1>5, <2>1, <2>5, <3>1, <3>2 DEF TransfersInStep
    <3>4. Owed' = Owed
      BY <1>1, <1>5, <2>5, <3>1 DEF Owed, InService
    <3> QED
      BY <3>3, <3>4
  <2> QED
    BY <2>4, <2>5
<1> QED
  BY <1>1, <1>6, <1>7, <1>8, <1>9 DEF IInv, RepliesInStep, AskedOnce

(* Reading a transfer takes it from the oldest reply.                      *)
LEMMA ReadFacts ==
  ASSUME TypeOK, in # <<>>
  PROVE  /\ in[1] \in Replies /\ in[1].left <= Transfers(in[1].of) /\ Piece \in Pieces
         /\ Piece = [of |-> in[1].of, last |-> in[1].left = 1]
         /\ Read \in Seq(Replies) /\ \A i \in DOMAIN Read : Read[i].left <= Transfers(Read[i].of)
         /\ Piece.last => Read = Tail(in) /\ OfAll(in) = <<in[1].of>> \o OfAll(Read)
         /\ ~Piece.last => /\ Read = [in EXCEPT ![1].left = @ - 1] /\ OfAll(Read) = OfAll(in)
                           /\ Read # <<>> /\ Read[1].of = in[1].of
                           /\ Read[1].left = in[1].left - 1
<1> DEFINE r == in[1]
<1>1. /\ in \in Seq(Replies) /\ DOMAIN in = 1..Len(in) /\ Len(in) \in Nat \ {0}
      /\ \A i \in DOMAIN in : in[i] \in Replies /\ in[i].left <= Transfers(in[i].of)
  <2>1. in \in Seq(Replies)
    BY TypeFacts
  <2>2. \A i \in DOMAIN in : in[i].left <= Transfers(in[i].of)
    BY DEF TypeOK
  <2> QED
    BY <2>1, <2>2
<1>2. r \in Replies /\ r = Head(in) /\ r.left \in Nat \ {0} /\ r.of \in Parties
      /\ r.left <= Transfers(r.of)
  BY <1>1 DEF Replies
<1>3. Piece = [of |-> r.of, last |-> r.left = 1] /\ Piece \in Pieces
  BY <1>2 DEF Piece, Pieces
<1>4. CASE Piece.last
  <2>1. Read = Tail(in) /\ Tail(in) \in Seq(Replies)
    BY <1>1, <1>4 DEF Read
  <2>2. \A i \in DOMAIN Tail(in) : i + 1 \in DOMAIN in /\ Tail(in)[i] = in[i + 1]
    BY <1>1
  <2> QED
    BY <1>1, <1>2, <1>3, <1>4, <2>1, <2>2, OfAllFacts
<1>5. CASE ~Piece.last
  <2> DEFINE n == r.left - 1
             t == [in EXCEPT ![1].left = @ - 1]
  <2>1. n \in Nat \ {0}
    <3>1. r.left # 1
      BY <1>3, <1>5
    <3> QED
      BY <1>2, <3>1
  <2>2. Read = t /\ t = [in EXCEPT ![1].left = n] /\ t = [in EXCEPT ![1] = [r EXCEPT !.left = n]]
    BY <1>1, <1>5 DEF Read
  <2>3. [r EXCEPT !.left = n] \in Replies /\ [r EXCEPT !.left = n].of = r.of
        /\ [r EXCEPT !.left = n].left = n
    BY <1>2, <2>1 DEF Replies
  <2>4. t \in Seq(Replies) /\ DOMAIN t = DOMAIN in /\ t # <<>> /\ t[1] = [r EXCEPT !.left = n]
        /\ \A i \in DOMAIN in : i # 1 => t[i] = in[i]
    <3>1. DOMAIN t = DOMAIN in /\ \A i \in DOMAIN in : t[i] \in Replies
      BY <1>1, <2>2, <2>3
    <3>2. Len(t) = Len(in) /\ t \in Seq(Replies)
      BY <1>1, <2>2, <2>3
    <3> QED
      BY <1>1, <2>2, <3>1, <3>2
  <2>5. OfAll(t) = OfAll(in)
    BY <1>1, <2>1, <2>2, OfAllFacts
  <2>6. \A i \in DOMAIN t : t[i].left <= Transfers(t[i].of)
    <3>1. Transfers(r.of) \in Nat
      BY <1>2, TransfersFacts
    <3> QED
      BY <1>1, <1>2, <2>1, <2>3, <2>4, <3>1
  <2> QED
    BY <1>2, <1>3, <1>5, <2>2, <2>3, <2>4, <2>5, <2>6
<1> QED
  BY <1>4, <1>5

LEMMA ReplyFacts ==
  ASSUME NEW c \in Parties
  PROVE  /\ Reply(c) \in Seq(Pieces) /\ Len(Reply(c)) = Transfers(c)
         /\ SubSeq(Reply(c), 1, 0) = <<>>
         /\ SubSeq(Reply(c), 1, Transfers(c)) = Reply(c)
         /\ \A n \in 0..Transfers(c)-1 :
              Append(SubSeq(Reply(c), 1, n), [of |-> c, last |-> n + 1 = Transfers(c)])
                = SubSeq(Reply(c), 1, n + 1)
<1> DEFINE k == Transfers(c)
           R == Reply(c)
<1>1. k \in Nat \ {0}
  BY TransfersFacts
<1>2. R = [i \in 1..k |-> [of |-> c, last |-> i = k]]
  BY DEF Reply
<1> HIDE DEF k
<1>3. \A i \in 1..k : [of |-> c, last |-> i = k] \in Pieces
  BY DEF Pieces
<1>4. R \in [1..k -> Pieces]
  BY <1>2, <1>3
<1>5. R \in Seq(Pieces) /\ Len(R) = k /\ \A i \in 1..k : R[i] = [of |-> c, last |-> i = k]
  BY <1>1, <1>2, <1>4
<1> HIDE DEF R
<1>6. SubSeq(R, 1, 0) = <<>> /\ SubSeq(R, 1, k) = R
  BY <1>1, <1>5
<1>7. ASSUME NEW n \in 0..k-1
      PROVE  Append(SubSeq(R, 1, n), [of |-> c, last |-> n + 1 = k]) = SubSeq(R, 1, n + 1)
  <2>1. R[n + 1] = [of |-> c, last |-> n + 1 = k]
    BY <1>1, <1>5
  <2>2. Append(SubSeq(R, 1, n), R[n + 1]) = SubSeq(R, 1, n + 1)
    BY <1>1, <1>5
  <2> QED
    BY <2>1, <2>2
<1> QED
  BY <1>5, <1>6, <1>7 DEF k, R

(* While no transfer has failed, the reply being read is of the command    *)
(* whose receive is in service.                                            *)
LEMMA ReadIsMine ==
  ASSUME IInv, link = "open", ~broken, reader.cmd # Nobody, in # <<>>
  PROVE  /\ in[1].of = reader.cmd
         /\ Append(reader.made, Piece)
              = SubSeq(Reply(reader.cmd), 1, Transfers(reader.cmd) - in[1].left + 1)
         /\ Piece.last => Append(reader.made, Piece) = Reply(reader.cmd)
<1> DEFINE c == reader.cmd
<1>1. TransfersInStep /\ Asked = Owed /\ TypeOK
  BY DEF IInv, RepliesInStep
<1>2. in[1].of = c
  <2>1. /\ c \in Commands /\ recvs \in Seq(Parties) /\ posted \in Seq(Parties)
        /\ InService(reader) = <<c>> /\ c \in Parties
    BY <1>1, InServiceFacts DEF TypeOK, Parties, Tasks
  <2>2. Asked = <<c>> \o recvs \o posted
    BY <2>1 DEF Asked
  <2>3. Asked[1] = c
    BY <2>1, <2>2
  <2> DEFINE d == in[1].of
             q == OfAll(Read)
  <2>4. Read \in Seq(Replies) /\ q \in Seq(Parties) /\ d \in Parties /\ Behind \in Seq(Parties)
    <3>1. in[1] \in Replies /\ Read \in Seq(Replies)
      BY <1>1, ReadFacts
    <3>2. \A r \in Replies : r.of \in Parties
      BY DEF Replies
    <3> QED
      BY <1>1, <3>1, <3>2, BehindFacts, OfAllFacts
  <2>5. Owed = OfAll(in) \o Behind
    BY <1>1, OwedFacts
  <2>6. CASE Piece.last
    <3>1. OfAll(in) = <<d>> \o q
      BY <1>1, <2>6, ReadFacts
    <3> HIDE DEF q, d
    <3>2. (<<d>> \o q \o Behind)[1] = d
      BY <2>4
    <3> QED
      BY <1>1, <2>3, <2>5, <3>1, <3>2 DEF d
  <2>7. CASE ~Piece.last
    <3>1. Read # <<>> /\ q = OfAll(in) /\ Read[1].of = d
      BY <1>1, <2>7, ReadFacts
    <3>2. Len(q) > 0 /\ q[1] = d
      BY <2>4, <3>1, OfAllFacts DEF OfAll
    <3> HIDE DEF q, d
    <3>3. (q \o Behind)[1] = d
      BY <2>4, <3>2
    <3> QED
      BY <1>1, <2>3, <2>5, <3>1, <3>3 DEF d
  <2> QED
    BY <2>6, <2>7
<1>3. Piece = [of |-> c, last |-> in[1].left = 1] /\ in[1].left <= Transfers(c)
      /\ in[1].left \in Nat \ {0} /\ c \in Parties
  BY <1>1, <1>2, ReadFacts DEF Replies
<1> DEFINE k == Transfers(c)
           n == k - in[1].left
<1>4. k \in Nat \ {0} /\ n \in 0..k-1 /\ ((in[1].left = 1) <=> (n + 1 = k))
  BY <1>3, TransfersFacts
<1>5. reader.made = SubSeq(Reply(c), 1, n)
  BY <1>1, <1>2 DEF TransfersInStep
<1>6. Piece = [of |-> c, last |-> n + 1 = k]
  BY <1>3, <1>4
<1>7. Append(reader.made, Piece) = SubSeq(Reply(c), 1, n + 1)
  <2> HIDE DEF k, n, c
  <2>1. \A m \in 0..k-1 :
          Append(SubSeq(Reply(c), 1, m), [of |-> c, last |-> m + 1 = k]) = SubSeq(Reply(c), 1, m + 1)
    BY <1>3, ReplyFacts DEF k
  <2> QED
    BY <1>4, <1>5, <1>6, <2>1
<1>8. ASSUME Piece.last PROVE Append(reader.made, Piece) = Reply(c)
  <2>1. n + 1 = k
    BY <1>6, <1>8
  <2> QED
    BY <1>3, <1>7, <2>1, ReplyFacts
<1> QED
  BY <1>2, <1>7, <1>8

LEMMA InTransferStep ==
  ASSUME IInv, InTransfer
  PROVE  IInv'
<1> DEFINE c == reader.cmd
           frame == Append(reader.made, Piece)
<1>1. /\ link # "closed" /\ c # Nobody /\ in # <<>> /\ in' = Read
      /\ Piece.last => Resolve(c, frame) /\ ReaderTakes
      /\ ~Piece.last => reader' = [reader EXCEPT !.made = frame] /\ UNCHANGED <<recvs, answer>>
      /\ UNCHANGED <<link, posted, sends, writer, ending, gathering, device, call, broken>>
  BY DEF InTransfer
<1>2. TypeOK /\ c \in Commands /\ reader \in Tasks(Pieces)
  BY <1>1 DEF IInv, TypeOK, Tasks, Parties
<1>3. Piece \in Pieces /\ frame \in Seq(Pieces)
  BY <1>1, <1>2, ReadFacts DEF Tasks
<1>4. Piece.last => /\ reader' \in Tasks(Pieces) /\ reader'.made = <<>>
                    /\ recvs' \in Seq(Commands) /\ AskedOnce' /\ Asked' \in Seq(Commands)
                    /\ Asked = <<c>> \o Asked'
  BY <1>1, ReaderTakesFacts
<1>5. ~Piece.last => reader' \in Tasks(Pieces) /\ reader'.made = frame /\ reader'.cmd = c
  BY <1>1, <1>2, <1>3 DEF Tasks
<1>6. ~Piece.last => Asked' = Asked
  BY <1>1, <1>5 DEF Asked, InService
<1>7. TypeOK'
  <2>1. answer' \in [Commands -> {Waiting, Failed, Dropped} \union Seq(Pieces)]
    <3>1. CASE Piece.last
      BY <1>1, <1>2, <1>3, <3>1, ResolveFacts
    <3>2. CASE ~Piece.last
      BY <1>1, <1>2, <3>2 DEF TypeOK
    <3> QED
      BY <3>1, <3>2
  <2>2. in' \in Seq([of : Parties, left : Nat \ {0}])
        /\ \A i \in DOMAIN in' : in'[i].left <= Transfers(in'[i].of)
    BY <1>1, <1>2, ReadFacts DEF Replies
  <2>3. reader' \in Tasks(Pieces) /\ recvs' \in Seq(Commands)
    BY <1>1, <1>2, <1>4, <1>5 DEF TypeOK
  <2> QED
    BY <1>1, <1>2, <2>1, <2>2, <2>3 DEF TypeOK
<1>8. AskedOnce'
  BY <1>4, <1>6 DEF IInv, AskedOnce
<1>9. Settled'
  BY <1>1 DEF IInv, Settled, NoTask
<1>10. ASSUME link' = "open", ~broken' PROVE TransfersInStep' /\ Asked' = Owed'
  <2>1. TransfersInStep /\ Asked = Owed
    BY <1>1, <1>10 DEF IInv, RepliesInStep
  <2>2. /\ in[1].of = c /\ frame = SubSeq(Reply(c), 1, Transfers(c) - in[1].left + 1)
    BY <1>1, <1>10, ReadIsMine
  <2>3. OfAll(Read) \in Seq(Parties) /\ Behind \in Seq(Parties)
    <3>1. Read \in Seq(Replies)
      BY <1>1, <1>2, ReadFacts
    <3> QED
      BY <1>2, <3>1, BehindFacts, OfAllFacts
  <2>4. Owed = OfAll(in) \o Behind
    BY <1>2, OwedFacts
  <2>5. Owed' = OfAll(Read) \o Behind
    <3>1. Owed' = OwedAfter(OfAll(Read))
      BY <1>1 DEF Owed, OwedAfter, OfAll, InService
    <3> QED
      BY <1>2, <2>3, <3>1, BehindFacts
  <2>6. CASE Piece.last
    <3>1. Read = Tail(in) /\ OfAll(in) = <<c>> \o OfAll(Read)
      BY <1>1, <1>2, <2>2, <2>6, ReadFacts
    <3>2. Asked' = Owed'
      <4>1. /\ Asked' \in Seq(Parties) /\ OfAll(Read) \o Behind \in Seq(Parties) /\ c \in Parties
            /\ <<c>> \o OfAll(Read) \o Behind = <<c>> \o (OfAll(Read) \o Behind)
        BY <1>2, <1>4, <2>3, <2>6 DEF Parties
      <4>2. <<c>> \o Asked' = <<c>> \o (OfAll(Read) \o Behind)
        BY <1>4, <2>1, <2>4, <2>6, <3>1, <4>1
      <4> QED
        BY <2>5, <4>1, <4>2, SameTail
    <3>3. \A i \in DOMAIN in' : in'[i].left = Transfers(in'[i].of)
      <4>1. \A i \in DOMAIN Tail(in) : /\ i + 1 \in DOMAIN in /\ i + 1 # 1
                                       /\ Tail(in)[i] = in[i + 1]
        BY <1>1, <1>2, TypeFacts
      <4> QED
        BY <1>1, <2>1, <3>1, <4>1 DEF TransfersInStep
    <3>4. reader'.made = IF in' = <<>> THEN <<>>
                         ELSE SubSeq(Reply(in'[1].of), 1, Transfers(in'[1].of) - in'[1].left)
      <4>1. CASE in' = <<>>
        BY <1>4, <2>6, <4>1
      <4>2. CASE in' # <<>>
        <5>1. 1 \in DOMAIN in' /\ in'[1].of \in Parties
          <6>1. in' \in Seq(Replies) /\ \A r \in Replies : r.of \in Parties
            BY <1>1, <1>2, ReadFacts DEF Replies
          <6> QED
            BY <4>2, <6>1
        <5>2. Transfers(in'[1].of) - in'[1].left = 0
          BY <3>3, <5>1, TransfersFacts
        <5> QED
          BY <1>4, <2>6, <4>2, <5>1, <5>2, ReplyFacts
      <4> QED
        BY <4>1, <4>2
    <3> QED
      BY <1>1, <1>4, <2>1, <2>6, <3>2, <3>3, <3>4 DEF TransfersInStep
  <2>7. CASE ~Piece.last
    <3>1. /\ Read = [in EXCEPT ![1].left = @ - 1] /\ OfAll(Read) = OfAll(in) /\ Read # <<>>
          /\ Read[1].of = c /\ Read[1].left = in[1].left - 1
      BY <1>1, <1>2, <2>2, <2>7, ReadFacts
    <3>2. Asked' = Owed'
      BY <1>6, <2>1, <2>4, <2>5, <2>7, <3>1
    <3>3. \A i \in DOMAIN in' : i # 1 => in'[i].left = Transfers(in'[i].of)
      <4>1. DOMAIN in' = DOMAIN in /\ \A i \in DOMAIN in : i # 1 => in'[i] = in[i]
        BY <1>1, <1>2, <3>1, TypeFacts
      <4> QED
        BY <2>1, <4>1 DEF TransfersInStep
    <3>4. Transfers(c) - in'[1].left = Transfers(c) - in[1].left + 1
      <4>1. in[1].left \in Nat /\ Transfers(c) \in Nat
        BY <1>1, <1>2, ReadFacts, TransfersFacts DEF Replies, Parties
      <4> QED
        BY <1>1, <3>1, <4>1
    <3>5. reader'.made = SubSeq(Reply(in'[1].of), 1, Transfers(in'[1].of) - in'[1].left)
      BY <1>1, <1>5, <2>2, <2>7, <3>1, <3>4
    <3> QED
      BY <1>1, <1>5, <2>1, <2>7, <3>1, <3>2, <3>3, <3>5 DEF TransfersInStep
  <2> QED
    BY <2>6, <2>7
<1> QED
  BY <1>7, <1>8, <1>9, <1>10 DEF IInv, RepliesInStep

(* The device's answer takes the place of the frame it answers.            *)
LEMMA DeviceAnswersStep ==
  ASSUME IInv, DeviceAnswers
  PROVE  IInv'
<1> DEFINE h == Head(device)
           r == [of |-> h, left |-> Transfers(h)]
<1>1. /\ device # <<>> /\ device' = Tail(device) /\ in' = Append(in, r)
      /\ UNCHANGED <<link, ending, broken, queues, gathering, call, answer>>
  BY DEF DeviceAnswers, queues
<1>2. /\ device \in Seq(Parties) /\ h \in Parties /\ Tail(device) \in Seq(Parties)
      /\ device = <<h>> \o Tail(device)
  BY <1>1 DEF IInv, TypeOK
<1>3. r \in Replies /\ in \in Seq(Replies) /\ in' \in Seq(Replies) /\ r.left = Transfers(r.of)
  <2>1. r \in Replies
    BY <1>2, TransfersFacts DEF Replies
  <2> QED
    BY <1>1, <2>1, TypeFacts DEF IInv
<1> HIDE DEF h
<1>4. /\ DOMAIN in' = 1..(Len(in) + 1) /\ Len(in) \in Nat
      /\ \A i \in DOMAIN in' : in'[i] = IF i <= Len(in) THEN in[i] ELSE r
  BY <1>1, <1>3
<1>5. TypeOK'
  <2>1. \A i \in DOMAIN in' : in'[i].left <= Transfers(in'[i].of)
    <3>1. \A i \in DOMAIN in : in[i].left <= Transfers(in[i].of)
      BY DEF IInv, TypeOK
    <3>2. Transfers(h) \in Nat
      BY <1>2, TransfersFacts
    <3> QED
      BY <1>3, <1>4, <3>1, <3>2
  <2> QED
    BY <1>1, <1>2, <1>3, <2>1 DEF IInv, TypeOK, Replies, queues
<1>6. Asked' = Asked
  BY <1>1 DEF Asked, InService, queues
<1>7. Settled'
  BY <1>1 DEF IInv, Settled, NoTask, queues
<1>8. Owed' = Owed
  <2> DEFINE a == OfAll(in)
             w == InService(writer)
  <2>1. a \in Seq(Parties) /\ OfAll(Append(in, r)) = Append(a, h)
    BY <1>3, OfAllFacts
  <2>2. Owed = a \o device \o w \o sends \o posted
    BY TypeFacts DEF IInv
  <2>3. Owed' = Append(a, h) \o Tail(device) \o w \o sends \o posted
    <3>1. Owed' = OfAll(in') \o device' \o InService(writer)' \o sends' \o posted'
      BY DEF Owed, OfAll
    <3>2. InService(writer)' = w
      BY <1>1 DEF InService, queues
    <3> QED
      BY <1>1, <2>1, <3>1, <3>2 DEF queues
  <2> HIDE DEF a, w
  <2>4. Append(a, h) \o Tail(device) = a \o device
    <3>1. Append(a, h) \o Tail(device) = a \o (<<h>> \o Tail(device))
      BY <1>2, <2>1
    <3> QED
      BY <1>2, <3>1
  <2> QED
    BY <2>2, <2>3, <2>4
<1>9. ASSUME link' = "open", ~broken' PROVE TransfersInStep'
  <2>1. TransfersInStep
    BY <1>1, <1>9 DEF IInv
  <2>2. \A i \in DOMAIN in' : i # 1 => in'[i].left = Transfers(in'[i].of)
    BY <1>3, <1>4, <2>1 DEF TransfersInStep
  <2>3. reader.made = SubSeq(Reply(in'[1].of), 1, Transfers(in'[1].of) - in'[1].left)
    <3>1. CASE in = <<>>
      <4>1. in'[1] = r /\ reader.made = <<>>
        BY <1>4, <2>1, <3>1 DEF TransfersInStep
      <4>2. Transfers(h) - Transfers(h) = 0
        BY <1>2, TransfersFacts
      <4> QED
        BY <1>2, <4>1, <4>2, ReplyFacts
    <3>2. CASE in # <<>>
      <4>1. in'[1] = in[1]
        BY <1>3, <1>4, <3>2
      <4> QED
        BY <2>1, <3>2, <4>1 DEF TransfersInStep
    <3> QED
      BY <3>1, <3>2
  <2>4. UNCHANGED <<reader, writer, gathering>> /\ in' # <<>>
    BY <1>1, <1>3 DEF queues
  <2> QED
    BY <2>1, <2>2, <2>3, <2>4 DEF TransfersInStep
<1> QED
  BY <1>1, <1>5, <1>6, <1>7, <1>8, <1>9 DEF IInv, RepliesInStep, AskedOnce

LEMMA FlushStep ==
  ASSUME IInv, Flush
  PROVE  IInv'
<1>1. /\ posted # <<>> /\ posted' = <<>> /\ sends' = sends \o posted /\ recvs' = recvs \o posted
      /\ writer' = Started(writer, sends') /\ reader' = Started(reader, recvs')
      /\ UNCHANGED <<link, ending, target, call, answer, broken>>
  BY DEF Flush, target
<1>2. /\ posted \in Seq(Commands) /\ sends \in Seq(Commands) /\ recvs \in Seq(Commands)
      /\ sends' \in Seq(Commands) /\ recvs' \in Seq(Commands) /\ posted' \in Seq(Commands)
  BY <1>1, TypeFacts DEF IInv
<1>3. /\ writer' \in Tasks(Commands) /\ writer'.cmd = writer.cmd /\ writer'.made = writer.made
      /\ reader' \in Tasks(Pieces) /\ reader'.cmd = reader.cmd /\ reader'.made = reader.made
  <2>1. ASSUME NEW S, NEW t \in Tasks(S), NEW q
        PROVE  /\ Started(t, q) \in Tasks(S) /\ Started(t, q).cmd = t.cmd
               /\ Started(t, q).made = t.made
    BY DEF Started, Tasks
  <2> QED
    BY <1>1, <2>1 DEF IInv, TypeOK
<1>4. TypeOK'
  BY <1>1, <1>2, <1>3 DEF IInv, TypeOK, target
<1>5. InService(writer)' = InService(writer) /\ InService(reader)' = InService(reader)
  BY <1>3 DEF InService
<1>6. Asked' = Asked
  <2> DEFINE r == InService(reader)
  <2>1. Asked' = r \o (recvs \o posted) \o <<>> /\ Asked = r \o recvs \o posted
    BY <1>1, <1>5 DEF Asked
  <2>2. r \in Seq(Commands) /\ recvs \in Seq(Commands) /\ posted \in Seq(Commands)
    BY TypeFacts DEF IInv
  <2> HIDE DEF r
  <2>3. r \o (recvs \o posted) \o <<>> = r \o (recvs \o posted)
    BY <2>2
  <2>4. r \o (recvs \o posted) = r \o recvs \o posted
    BY <2>2
  <2> QED
    BY <2>1, <2>3, <2>4
<1>7. Owed' = Owed
  <2> DEFINE x == OfAll(in) \o device \o InService(writer)
  <2>1. x \in Seq(Parties) /\ sends \in Seq(Parties) /\ posted \in Seq(Parties)
    BY PartyFacts DEF IInv
  <2>2. Owed' = x \o (sends \o posted) \o <<>> /\ Owed = x \o sends \o posted
    BY <1>1, <1>5 DEF Owed, OfAll, target
  <2> HIDE DEF x
  <2>3. x \o (sends \o posted) \o <<>> = x \o (sends \o posted)
    BY <2>1
  <2>4. x \o (sends \o posted) = x \o sends \o posted
    BY <2>1
  <2> QED
    BY <2>2, <2>3, <2>4
<1>8. Settled'
  BY <1>1 DEF IInv, Settled
<1>9. ASSUME link' = "open", ~broken' PROVE TransfersInStep'
  BY <1>1, <1>3, <1>9 DEF IInv, TransfersInStep, target
<1> QED
  BY <1>1, <1>4, <1>6, <1>7, <1>8, <1>9 DEF IInv, RepliesInStep, AskedOnce

(* stop() leaves the queues to be failed, its transfers to end.            *)
LEMMA StopStep ==
  ASSUME IInv, Stop
  PROVE  IInv'
<1>1. /\ link' = "stopping" /\ (Quiet => posted = <<>>)
      /\ ending' = Cancelled("out", writer) \union Cancelled("in", reader)
      /\ writer' = NoTask /\ reader' = NoTask
      /\ UNCHANGED <<posted, sends, recvs, target, call, answer, broken>>
  BY DEF Stop, target
<1>2. \A t \in ending' : t.dir \in {"out", "in"} /\ t.cmd \in Commands
  BY <1>1 DEF IInv, TypeOK, Cancelled, Tasks, Parties
<1>3. \A S : NoTask \in Tasks(S)
  BY DEF NoTask, Tasks, Parties
<1>4. TypeOK'
  BY <1>1, <1>2, <1>3 DEF IInv, TypeOK, target
<1>5. AskedOnce'
  <2>1. Asked' = recvs \o posted
    BY <1>1, TypeFacts DEF IInv, Asked, InService, NoTask
  <2> QED
    BY <2>1, AskedWithoutReader DEF AskedOnce
<1>6. Settled'
  BY <1>1 DEF Settled, NoTask
<1> QED
  BY <1>1, <1>4, <1>5, <1>6 DEF IInv, RepliesInStep

LEMMA CancelledEndsStep ==
  ASSUME IInv, CancelledEnds
  PROVE  IInv'
<1>1. PICK t \in ending :
        /\ ending' = ending \ {t}
        /\ \/ t.dir = "out" /\ Deliver(t) /\ UNCHANGED <<in, answer>>
           \/ t.dir = "out" /\ UNCHANGED <<gathering, device, in, answer>>
           \/ /\ t.dir = "in" /\ Resolve(t.cmd, Failed)
              /\ in' \in {in, Read} /\ UNCHANGED <<gathering, device>>
        /\ UNCHANGED <<link, queues, call, broken>>
  BY DEF CancelledEnds, queues
<1>2. t.cmd \in Commands /\ link = "stopping" /\ TypeOK
  BY DEF IInv, TypeOK, Settled
<1>3. gathering' \subseteq Commands /\ device' \in Seq(Parties)
  BY <1>1, <1>2, DeliverFacts DEF TypeOK
<1>4. answer' \in [Commands -> {Waiting, Failed, Dropped} \union Seq(Pieces)]
  BY <1>1, <1>2, ResolveFacts DEF TypeOK
<1>5. in' \in Seq(Replies) /\ \A i \in DOMAIN in' : in'[i].left <= Transfers(in'[i].of)
  <2>1. CASE in' = in
    BY <1>2, <2>1, TypeFacts DEF TypeOK
  <2>2. CASE in' = Read /\ in = <<>>
    BY <1>2, <2>2, TypeFacts DEF Read
  <2>3. CASE in' = Read /\ in # <<>>
    BY <1>2, <2>3, ReadFacts
  <2> QED
    BY <1>1, <2>1, <2>2, <2>3
<1>6. TypeOK'
  BY <1>1, <1>2, <1>3, <1>4, <1>5 DEF TypeOK, Replies, queues
<1>7. Asked' = Asked
  BY <1>1 DEF Asked, InService, queues
<1>8. Settled'
  BY <1>1, <1>2 DEF IInv, Settled, NoTask, queues
<1> QED
  BY <1>1, <1>2, <1>6, <1>7, <1>8 DEF IInv, RepliesInStep, AskedOnce

LEMMA StoppedStep ==
  ASSUME IInv, Stopped
  PROVE  IInv'
<1>1. /\ link' = "closed" /\ ending = {} /\ sends' = <<>> /\ recvs' = <<>>
      /\ answer' = [d \in Commands |-> IF d \in ToSet(recvs) /\ answer[d] = Waiting
                                       THEN Failed ELSE answer[d]]
      /\ UNCHANGED <<posted, writer, reader, ending, target, call, broken>>
  BY DEF Stopped, target
<1>2. sends' \in Seq(Commands) /\ recvs' \in Seq(Commands)
  BY <1>1
<1>3. answer' \in [Commands -> {Waiting, Failed, Dropped} \union Seq(Pieces)]
  BY <1>1 DEF IInv, TypeOK
<1>4. TypeOK'
  BY <1>1, <1>2, <1>3 DEF IInv, TypeOK, target
<1>5. AskedOnce'
  <2> DEFINE r == InService(reader)
  <2>1. r \in Seq(Commands) /\ recvs \in Seq(Commands) /\ posted \in Seq(Commands)
    BY TypeFacts DEF IInv
  <2>2. Asked' = r \o <<>> \o posted /\ Asked = r \o recvs \o posted
    BY <1>1 DEF Asked, InService
  <2> HIDE DEF r
  <2>3. r \o <<>> \o posted = r \o posted
    BY <2>1
  <2>4. IsInjective(r \o posted)
    <3>1. IsInjective(r \o recvs \o posted)
      BY <2>2, Zenon DEF IInv, AskedOnce
    <3> QED
      BY <2>1, <3>1, DropMiddle
  <2> QED
    BY <2>2, <2>3, <2>4 DEF AskedOnce
<1>6. Settled'
  BY <1>1 DEF Settled
<1> QED
  BY <1>1, <1>4, <1>5, <1>6 DEF IInv, RepliesInStep

(* Of a host that died nothing is left; its device keeps what it has.      *)
LEMMA NothingAsked ==
  ASSUME posted = <<>>, recvs = <<>>, reader = NoTask
  PROVE  Asked = <<>> /\ AskedOnce
<1>1. Asked = <<>>
  BY DEF Asked, InService, NoTask
<1> QED
  BY <1>1 DEF AskedOnce, IsInjective

LEMMA DieStep ==
  ASSUME IInv, Die
  PROVE  IInv'
<1>1. /\ link' = "closed" /\ posted' = <<>> /\ sends' = <<>> /\ recvs' = <<>> /\ ending' = {}
      /\ writer' = NoTask /\ reader' = NoTask
      /\ call' = [c \in Callers |-> <<>>] /\ answer' = [d \in Commands |-> Dropped]
      /\ UNCHANGED <<target, broken>>
  BY DEF Die, target
<1>2. \A S : NoTask \in Tasks(S) /\ <<>> \in Seq(S)
  BY DEF NoTask, Tasks, Parties
<1>3. TypeOK'
  BY <1>1, <1>2 DEF IInv, TypeOK, target
<1>4. AskedOnce'
  <2>1. Asked' = <<>>
    BY <1>1 DEF Asked, InService, NoTask
  <2> QED
    BY <2>1 DEF AskedOnce, IsInjective
<1> QED
  BY <1>1, <1>3, <1>4 DEF IInv, RepliesInStep, Settled

(* A connection begins with nothing in flight, or knows that it does not.  *)
LEMMA OpenStep ==
  ASSUME IInv, Open
  PROVE  IInv'
<1>1. /\ link' = "open" /\ posted = <<>> /\ sends = <<>> /\ recvs = <<>>
      /\ writer = NoTask /\ reader = NoTask /\ in' = <<>>
      /\ broken' = (gathering # {} \/ device # <<>>)
      /\ UNCHANGED <<ending, queues, gathering, device, call, answer>> /\ link = "closed"
  BY DEF Open, Drained, queues
<1>2. TypeOK'
  BY <1>1 DEF IInv, TypeOK, queues
<1>3. AskedOnce' /\ Asked' = <<>>
  <2>1. Asked' = Asked
    BY <1>1 DEF Asked, InService, queues
  <2> QED
    BY <1>1, <2>1, NothingAsked DEF AskedOnce
<1>4. ASSUME ~broken' PROVE TransfersInStep' /\ Owed' = <<>>
  <2>1. gathering' = {} /\ device' = <<>>
    BY <1>1, <1>4
  <2>2. Owed' = <<>>
    <3>1. Owed' = OfAll(in') \o device' \o InService(writer)' \o sends' \o posted'
      BY DEF Owed, OfAll
    <3>2. OfAll(in') = <<>> /\ InService(writer)' = <<>>
      <4>1. in' \in Seq(Replies)
        BY <1>1
      <4> QED
        BY <1>1, <4>1, OfAllFacts DEF InService, NoTask, queues
    <3> QED
      BY <1>1, <2>1, <3>1, <3>2 DEF queues
  <2> QED
    BY <1>1, <2>1, <2>2 DEF TransfersInStep, NoTask, queues
<1>5. Settled'
  BY <1>1 DEF IInv, Settled
<1> QED
  BY <1>1, <1>2, <1>3, <1>4, <1>5 DEF IInv, RepliesInStep

LEMMA InitIInv == Init => IInv
<1> SUFFICES ASSUME Init PROVE IInv
  OBVIOUS
<1>1. \A S : NoTask \in Tasks(S) /\ <<>> \in Seq(S)
  BY DEF NoTask, Tasks, Parties
<1>2. TypeOK
  <2>1. /\ writer \in Tasks(Commands) /\ reader \in Tasks(Pieces)
        /\ {posted, sends, recvs} \subseteq Seq(Commands) /\ device \in Seq(Parties)
        /\ call \in [Callers -> Seq(Commands)]
    BY <1>1 DEF Init
  <2>2. in \in Seq([of : Parties, left : Nat \ {0}]) /\ DOMAIN in = {}
    BY <1>1 DEF Init
  <2> QED
    BY <2>1, <2>2 DEF Init, TypeOK
<1> QED
  BY <1>2, NothingAsked DEF Init, IInv, RepliesInStep, Settled

LEMMA NextIInv == IInv /\ [Next]_vars => IInv'
<1> SUFFICES ASSUME IInv, [Next]_vars PROVE IInv'
  OBVIOUS
<1>1. ASSUME NEW c \in Callers, Call(c) PROVE IInv'
  BY <1>1, CallStep
<1>2. ASSUME NEW c \in Callers, Return(c) \/ GiveUp(c) PROVE IInv'
  BY <1>2, LeaveStep
<1>3. CASE Flush
  BY <1>3, FlushStep
<1>4. CASE WriterBegins \/ ReaderBegins
  BY <1>4, WriterBeginsStep, ReaderBeginsStep
<1>5. CASE OutTransfer \/ OutFails
  BY <1>5, OutTransferStep, OutFailsStep
<1>6. CASE InTransfer \/ InFails
  BY <1>6, InTransferStep, InFailsStep
<1>7. CASE DeviceAnswers
  BY <1>7, DeviceAnswersStep
<1>8. CASE Stop \/ CancelledEnds \/ Stopped
  BY <1>8, StopStep, CancelledEndsStep, StoppedStep
<1>9. CASE Die \/ Open
  BY <1>9, DieStep, OpenStep
<1>10. CASE UNCHANGED vars
  <2>1. UNCHANGED <<link, ending, broken, queues, target>> /\ TypeOK'
    BY <1>10 DEF vars, queues, target, IInv, TypeOK
  <2> QED
    BY <2>1, CallersStep
<1> QED
  BY <1>1, <1>2, <1>3, <1>4, <1>5, <1>6, <1>7, <1>8, <1>9, <1>10 DEF Next

----------------------------------------------------------------------------
(* The channel under bridge.py, issue: whatever fails, stops or dies, the  *)
(* receives of a connection without failures are those of the replies on   *)
(* their way, in their order, and no command waits twice.                  *)
THEOREM LinkStaysInStep == Spec => []LinkInStep
<1>1. IInv => LinkInStep
  BY DEF LinkInStep, IInv
<1> QED
  BY <1>1, InitIInv, NextIInv, PTL DEF Spec

(* A command is answered with its own reply, with a failure or not at all, *)
(* however often the channel stops and is opened again, when it is asked   *)
(* nothing while it stops (usb.py, stop).                                  *)
THEOREM AnswersAreMine ==
  ASSUME Quiet
  PROVE  Spec => AnswerIsMine
<1>1. ASSUME IInv, [Next]_vars, ~broken, NEW d \in Commands
      PROVE  answer'[d] \in {answer[d], Waiting, Failed, Dropped, Reply(d)}
  <2>1. ASSUME NEW c \in Callers, Call(c) PROVE answer'[d] \in {answer[d], Waiting}
    BY <2>1 DEF Call
  <2>2. ASSUME NEW c \in Callers, Return(c) \/ GiveUp(c) PROVE answer'[d] \in {answer[d], Dropped}
    BY <2>2 DEF Return, GiveUp, Leave
  <2>3. CASE InTransfer
    <3> DEFINE c == reader.cmd
               frame == Append(reader.made, Piece)
    <3>1. link # "closed" /\ c # Nobody /\ in # <<>> /\ TypeOK
      BY <1>1, <2>3 DEF InTransfer, IInv
    <3>2. link = "open"
      BY <1>1, <3>1 DEF IInv, TypeOK, Settled, NoTask
    <3>3. Piece.last => frame = Reply(c)
      BY <1>1, <3>1, <3>2, ReadIsMine
    <3>4. CASE Piece.last
      BY <2>3, <3>1, <3>3, <3>4 DEF InTransfer, Resolve, TypeOK
    <3>5. CASE ~Piece.last
      BY <2>3, <3>5 DEF InTransfer
    <3> QED
      BY <3>4, <3>5
  <2>4. CASE InFails
    BY <1>1, <2>4 DEF InFails, Resolve, IInv, TypeOK
  <2>5. CASE CancelledEnds
    <3>1. \/ answer' = answer
          \/ \E t \in ending : Resolve(t.cmd, Failed)
      BY <2>5 DEF CancelledEnds
    <3> QED
      BY <1>1, <3>1 DEF Resolve, IInv, TypeOK
  <2>6. CASE Stopped
    BY <2>6 DEF Stopped
  <2>7. CASE Die
    BY <2>7 DEF Die
  <2>8. CASE \/ Flush \/ WriterBegins \/ ReaderBegins \/ OutTransfer \/ OutFails
             \/ DeviceAnswers \/ Stop \/ Open \/ UNCHANGED vars
    BY <2>8 DEF Flush, WriterBegins, ReaderBegins, OutTransfer, OutFails, DeviceAnswers, Stop,
                Open, vars
  <2> QED
    BY <1>1, <2>1, <2>2, <2>3, <2>4, <2>5, <2>6, <2>7, <2>8 DEF Next
<1>2. IInv /\ [Next]_vars =>
        [~broken => \A d \in Commands :
           answer'[d] \in {answer[d], Waiting, Failed, Dropped, Reply(d)}]_vars
  BY <1>1
<1> QED
  BY <1>2, InitIInv, NextIInv, PTL DEF Spec, AnswerIsMine
=============================================================================
