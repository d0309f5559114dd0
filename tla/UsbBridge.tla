----------------------------- MODULE UsbBridge -----------------------------
(***************************************************************************)
(* The host's side of a rack that is a USB device: the bridge turns a call *)
(* into command frames, one per burst, and expects one reply frame for     *)
(* each, in order (bridge.py); the datagram channel below it owns the two  *)
(* endpoints, with one task writing frames and another reading them        *)
(* (usb.py).  A frame is one or more transfers, the last of them short.    *)
(* The device, external, answers the frames it gets one by one.            *)
(***************************************************************************)
EXTENDS Integers, Sequences, SequencesExt

CONSTANTS
  Callers,        \* tasks that read and write registers
  Commands,       \* command frames; which one is free does not matter
  OutTransfers,   \* transfers a command frame takes, its short one included
  InTransfers,    \* transfers its reply takes
  MaxBursts,      \* bound: bursts of one call
  MaxHeld,        \* bound: frames and pieces of replies a device holds
  Quiet,          \* nothing is asked of a channel that is being stopped
  Nobody, Waiting, Failed, Dropped   \* no command; the states of an answer

ASSUME TransfersAssumption ==
  {OutTransfers, InTransfers} \subseteq [Commands -> Nat \ {0}]
ASSUME BurstsAssumption == MaxBursts \in Nat \ {0}
ASSUME HeldAssumption == MaxHeld \in Nat \ {0}
ASSUME QuietAssumption == Quiet \in BOOLEAN
ASSUME TokensAssumption == {Nobody, Waiting, Failed, Dropped} \intersect Commands = {}

VARIABLES
  link,      \* "closed", "open" or "stopping"
  posted,    \* commands the channel's batcher has not flushed yet
  sends, recvs,     \* the channel's two queues
  writer, reader,   \* its tasks: alive, the command served, transfers made
  ending,    \* transfers cancelled by stop() that have not ended
  gathering, \* device: commands with a piece in the frame not ended yet
  device,    \* device: frames received, not answered
  in,        \* device: replies not read to their end, with the transfers left
  call,      \* the commands each caller waits for
  answer,    \* what each command was answered with
  broken     \* history: a transfer of this connection failed, or the one
             \* before it left the device within a frame, or at work

vars == <<link, posted, sends, recvs, writer, reader, ending, gathering, device,
          in, call, answer, broken>>

(* A reply as the host reads it, transfer by transfer.  A frame of pieces  *)
(* of two commands is nobody's, and gets one transfer.                     *)
Transfers(c) == IF c = Nobody THEN 1 ELSE InTransfers[c]
Reply(c) == [i \in 1..Transfers(c) |-> [of |-> c, last |-> i = Transfers(c)]]

InUse ==
  ToSet(posted \o sends \o recvs \o device) \union (UNION {ToSet(call[c]) : c \in Callers})
  \union {writer.cmd, reader.cmd} \union {t.cmd : t \in ending} \union gathering
  \union {p.of : p \in ToSet(reader.made)} \union {r.of : r \in ToSet(in)}

Bursts(free) ==
  {s \in UNION {[1..n -> free] : n \in 1..MaxBursts} : IsInjective(s)}
----------------------------------------------------------------------------
(* The bridge: a call's bursts are issued together, each with its receive. *)

Call(c) ==
  /\ call[c] = <<>> /\ link \in {"open"} \union IF Quiet THEN {} ELSE {"stopping"}
  /\ \E cmds \in Bursts(Commands \ InUse) :
       /\ posted' = posted \o cmds
       /\ call' = [call EXCEPT ![c] = cmds]
       /\ answer' = [d \in Commands |-> IF d \in ToSet(cmds) THEN Waiting ELSE answer[d]]
  /\ UNCHANGED <<link, sends, recvs, writer, reader, ending, gathering, device,
                 in, broken>>

(* The caller has its result, or has given up waiting for it (health()):   *)
(* the frames stay on their way.                                           *)
Leave(c) ==
  /\ call' = [call EXCEPT ![c] = <<>>]
  /\ answer' = [d \in Commands |-> IF d \in ToSet(call[c]) THEN Dropped ELSE answer[d]]

Return(c) ==
  /\ call[c] # <<>> /\ \A d \in ToSet(call[c]) : answer[d] # Waiting
  /\ Leave(c)
  /\ UNCHANGED <<link, posted, sends, recvs, writer, reader, ending, gathering,
                 device, in, broken>>

GiveUp(c) ==
  /\ call[c] # <<>>
  /\ Leave(c)
  /\ UNCHANGED <<link, posted, sends, recvs, writer, reader, ending, gathering,
                 device, in, broken>>

Resolve(c, r) == answer' = [answer EXCEPT ![c] = IF @ = Waiting THEN r ELSE @]
----------------------------------------------------------------------------
(* The channel: flush_ops queues, the two loops serve the queues.          *)

NoTask == [alive |-> FALSE, cmd |-> Nobody, made |-> <<>>]
Started(task, queue) == [task EXCEPT !.alive = @ \/ queue # <<>>]
After(queue) ==
  IF queue = <<>> THEN NoTask
  ELSE [alive |-> TRUE, cmd |-> Head(queue), made |-> <<>>]
Rest(queue) == IF queue = <<>> THEN <<>> ELSE Tail(queue)

Flush ==
  /\ posted # <<>> /\ posted' = <<>>
  /\ sends' = sends \o posted /\ recvs' = recvs \o posted
  /\ writer' = Started(writer, sends') /\ reader' = Started(reader, recvs')
  /\ UNCHANGED <<link, ending, gathering, device, in, call, answer, broken>>

WriterTakes == writer' = After(sends) /\ sends' = Rest(sends)
ReaderTakesNewest ==   \* mutant: pop for popleft
  reader' = After(Reverse(recvs)) /\ recvs' = Reverse(Rest(Reverse(recvs)))
ReaderTakes == reader' = After(recvs) /\ recvs' = Rest(recvs)

WriterBegins ==
  /\ writer.alive /\ writer.cmd = Nobody
  /\ WriterTakes
  /\ UNCHANGED <<link, posted, recvs, reader, ending, gathering, device, in,
                 call, answer, broken>>

ReaderBegins ==
  /\ reader.alive /\ reader.cmd = Nobody
  /\ ReaderTakes
  /\ UNCHANGED <<link, posted, sends, writer, ending, gathering, device, in,
                 call, answer, broken>>

(* A piece of a command frame reaches the device; with the short one the   *)
(* device has a frame, one command's or a mixture.                         *)
LastOut(task) == Len(task.made) + 1 = OutTransfers[task.cmd]
Deliver(task) ==
  LET pieces == gathering \union {task.cmd}
  IN /\ Len(device \o in) < MaxHeld
     /\ IF LastOut(task)
        THEN /\ gathering' = {}
             /\ device' = Append(device, IF pieces = {task.cmd} THEN task.cmd ELSE Nobody)
        ELSE gathering' = pieces /\ UNCHANGED device

OutTransfer ==
  /\ link # "closed" /\ writer.cmd # Nobody
  /\ Deliver(writer)
  /\ IF LastOut(writer) THEN WriterTakes
     ELSE writer' = [writer EXCEPT !.made = Append(@, writer.cmd)] /\ UNCHANGED sends
  /\ UNCHANGED <<link, posted, recvs, reader, ending, in, call, answer, broken>>

(* It fails, or nobody takes it before its deadline.  The loop goes on.    *)
OutFails ==
  /\ writer.cmd # Nobody
  /\ WriterTakes
  /\ broken' = TRUE
  /\ UNCHANGED <<link, posted, recvs, reader, ending, gathering, device, in,
                 call, answer>>

(* A transfer of the oldest reply.                                         *)
Piece == [of |-> Head(in).of, last |-> Head(in).left = 1]
Read ==
  IF in = <<>> THEN <<>>
  ELSE IF Piece.last THEN Tail(in) ELSE [in EXCEPT ![1].left = @ - 1]

InTransfer ==
  /\ link # "closed" /\ reader.cmd # Nobody /\ in # <<>>
  /\ in' = Read
  /\ LET frame == Append(reader.made, Piece)
     IN IF Piece.last THEN Resolve(reader.cmd, frame) /\ ReaderTakes
        ELSE reader' = [reader EXCEPT !.made = frame] /\ UNCHANGED <<recvs, answer>>
  /\ UNCHANGED <<link, posted, sends, writer, ending, gathering, device, call, broken>>

InFailsSilently ==   \* mutant: the failure is not forwarded
  /\ reader.cmd # Nobody
  /\ ReaderTakes
  /\ broken' = TRUE
  /\ UNCHANGED <<link, posted, sends, writer, ending, gathering, device, in, call, answer>>

InFails ==
  /\ reader.cmd # Nobody
  /\ Resolve(reader.cmd, Failed)
  /\ ReaderTakes
  /\ broken' = TRUE
  /\ UNCHANGED <<link, posted, sends, writer, ending, gathering, device, in, call>>

DeviceAnswers ==
  /\ device # <<>> /\ device' = Tail(device)
  /\ in' = Append(in, [of |-> Head(device), left |-> Transfers(Head(device))])
  /\ UNCHANGED <<link, posted, sends, recvs, writer, reader, ending, gathering,
                 call, answer, broken>>
----------------------------------------------------------------------------
(* stop(): cancel the loops, wait for their transfers to end, fail what is *)
(* queued, close.  The event loop runs other tasks while it waits.         *)

Cancelled(dir, task) ==
  IF task.cmd = Nobody THEN {} ELSE {[dir |-> dir, cmd |-> task.cmd, made |-> task.made]}

Stop ==
  /\ link = "open" /\ link' = "stopping" /\ (Quiet => posted = <<>>)
  /\ ending' = Cancelled("out", writer) \union Cancelled("in", reader)
  /\ writer' = NoTask /\ reader' = NoTask
  /\ UNCHANGED <<posted, sends, recvs, gathering, device, in, call, answer, broken>>

(* A cancelled transfer may have been made all the same.                   *)
CancelledEnds ==
  \E t \in ending :
    /\ ending' = ending \ {t}
    /\ \/ t.dir = "out" /\ Deliver(t) /\ UNCHANGED <<in, answer>>
       \/ t.dir = "out" /\ UNCHANGED <<gathering, device, in, answer>>
       \/ /\ t.dir = "in" /\ Resolve(t.cmd, Failed)
          /\ in' \in {in, Read} /\ UNCHANGED <<gathering, device>>
    /\ UNCHANGED <<link, posted, sends, recvs, writer, reader, call, broken>>

Stopped ==
  /\ link = "stopping" /\ ending = {} /\ link' = "closed"
  /\ answer' = [d \in Commands |-> IF d \in ToSet(recvs) /\ answer[d] = Waiting
                                   THEN Failed ELSE answer[d]]
  /\ sends' = <<>> /\ recvs' = <<>>
  /\ UNCHANGED <<posted, writer, reader, ending, gathering, device, in, call, broken>>

(* The host dies.  The device keeps what it has.                           *)
Die ==
  /\ link # "closed" /\ link' = "closed"
  /\ posted' = <<>> /\ sends' = <<>> /\ recvs' = <<>> /\ ending' = {}
  /\ writer' = NoTask /\ reader' = NoTask
  /\ call' = [c \in Callers |-> <<>>] /\ answer' = [d \in Commands |-> Dropped]
  /\ UNCHANGED <<gathering, device, in, broken>>

(* A new channel over the device, drained of what it still holds: a reply  *)
(* is whole words and a status byte, an odd number of bytes, so none ends  *)
(* in the empty transfer that would end the drain.  Nothing of the channel *)
(* before is left: on a closed handle every transfer fails.                *)
DrainedOnce == Read   \* mutant: one transfer
Drained == <<>>

Open ==
  /\ link = "closed" /\ link' = "open"
  /\ posted = <<>> /\ sends = <<>> /\ recvs = <<>>
  /\ writer = NoTask /\ reader = NoTask
  /\ in' = Drained
  /\ broken' = (gathering # {} \/ device # <<>>)
  /\ UNCHANGED <<posted, sends, recvs, writer, reader, ending, gathering, device,
                 call, answer>>

Init ==
  /\ link = "closed"
  /\ posted = <<>> /\ sends = <<>> /\ recvs = <<>> /\ ending = {}
  /\ writer = NoTask /\ reader = NoTask
  /\ gathering = {} /\ device = <<>> /\ in = <<>>
  /\ call = [c \in Callers |-> <<>>] /\ answer = [d \in Commands |-> Dropped]
  /\ broken = FALSE

Next ==
  \/ \E c \in Callers : Call(c) \/ Return(c) \/ GiveUp(c)
  \/ Flush \/ WriterBegins \/ ReaderBegins
  \/ OutTransfer \/ OutFails \/ InTransfer \/ InFails \/ DeviceAnswers
  \/ Stop \/ CancelledEnds \/ Stopped \/ Die \/ Open

Spec == Init /\ [][Next]_vars

(* The event loop runs what is ready; a transfer ends by its deadline.     *)
FairSpec ==
  /\ Spec
  /\ WF_vars(Flush) /\ WF_vars(WriterBegins) /\ WF_vars(ReaderBegins)
  /\ WF_vars(OutTransfer \/ OutFails) /\ WF_vars(InTransfer \/ InFails)
  /\ WF_vars(CancelledEnds) /\ WF_vars(Stopped)
  /\ \A c \in Callers : WF_vars(Return(c))
----------------------------------------------------------------------------
(* Receives still to be served and replies still to be read are of the     *)
(* same commands in the same order.                                        *)
InService(task) == IF task.cmd = Nobody THEN <<>> ELSE <<task.cmd>>
Asked == InService(reader) \o recvs \o posted
Owed ==
  [i \in DOMAIN in |-> in[i].of] \o device \o InService(writer) \o sends \o posted

Parties == Commands \union {Nobody}
Pieces == [of : Parties, last : BOOLEAN]
Tasks(made) == [alive : BOOLEAN, cmd : Parties, made : Seq(made)]

TypeOK ==
  /\ link \in {"closed", "open", "stopping"} /\ broken \in BOOLEAN
  /\ {posted, sends, recvs} \subseteq Seq(Commands)
  /\ writer \in Tasks(Commands) /\ reader \in Tasks(Pieces)
  /\ \A t \in ending : t.dir \in {"out", "in"} /\ t.cmd \in Commands
  /\ gathering \subseteq Commands /\ device \in Seq(Parties)
  /\ in \in Seq([of : Parties, left : Nat \ {0}])
  /\ \A i \in DOMAIN in : in[i].left <= Transfers(in[i].of)
  /\ answer \in [Commands -> {Waiting, Failed, Dropped} \union Seq(Pieces)]
  /\ call \in [Callers -> Seq(Commands)]

(* Every reply goes to the command that asked for it (bridge.py, issue),   *)
(* across callers that give up, a connection stopped or lost and the next, *)
(* as long as no transfer of the connection has failed.                    *)
AnswerIsMine ==
  [][~broken => \A d \in Commands :
       answer'[d] \in {answer[d], Waiting, Failed, Dropped, Reply(d)}]_vars

(* The same whatever has failed, as the comment has it.                    *)
RepliesStayMatched ==
  [][\A d \in Commands :
       answer'[d] \in {answer[d], Waiting, Failed, Dropped, Reply(d)}]_vars

RepliesInStep == link = "open" /\ ~broken => Asked = Owed

(* A command waits once.                                                   *)
AskedOnce == IsInjective(Asked)

(* No call waits for ever, whatever the device and the link do.            *)
CallsEnd == \A c \in Callers : call[c] # <<>> ~> call[c] = <<>>

(* What the tasks have made of a transfer agrees with the device's side of *)
(* it; between connections the host keeps nothing.                         *)
TransfersInStep ==
  /\ gathering = IF writer.made = <<>> THEN {} ELSE {writer.cmd}
  /\ writer.cmd # Nobody => Len(writer.made) < OutTransfers[writer.cmd]
  /\ \A task \in {writer, reader} : task.cmd = Nobody => task.made = <<>>
  /\ \A i \in DOMAIN in : i # 1 => in[i].left = Transfers(in[i].of)
  /\ reader.made =
       IF in = <<>> THEN <<>>
       ELSE SubSeq(Reply(in[1].of), 1, Transfers(in[1].of) - in[1].left)

Settled ==
  /\ link # "stopping" => ending = {}
  /\ Quiet /\ link = "stopping" => posted = <<>> /\ writer = NoTask /\ reader = NoTask

IInv ==
  /\ TypeOK /\ AskedOnce /\ RepliesInStep /\ Settled
  /\ link = "open" /\ ~broken => TransfersInStep

(* The link: receives and replies in step.                                 *)
LinkInStep == RepliesInStep /\ IInv
============================================================================
