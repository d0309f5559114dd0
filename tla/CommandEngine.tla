---------------------------- MODULE CommandEngine ----------------------------
(***************************************************************************)
(* What a bus explorer promises a host that fires one command and polls,   *)
(* without registers, scanner, tag, timer or clock crossing: the accesses  *)
(* made for a command are those it asks for, in order and with no other in *)
(* between; the answer tells what became of them; and an answer stands     *)
(* until the next command.                                                 *)
(***************************************************************************)
EXTENDS Sequences

CONSTANTS Requests,        \* [op, address, wdata, wmask]
          Bits

VARIABLES
  busy,      \* a command is in progress
  request,   \* the last command
  accesses,  \* what the target did for it so far, while busy
  code,      \* its outcome, once not busy
  value      \* RDATA, once not busy

engineVars == <<busy, request, accesses, code, value>>

Words == SUBSET Bits
Masked(q, old) ==
  {i \in Bits : IF i \in q.wmask THEN i \in q.wdata ELSE i \in old}

NoWord == {Words}

Read(q, data, failed) ==
  [write |-> FALSE, address |-> q.address, data |-> data, failed |-> failed]
WriteOf(q, data, failed) ==
  [write |-> TRUE, address |-> q.address, data |-> data, failed |-> failed]

(* The accesses that may come next, given those made so far.               *)
NextAccesses(q, made) ==
  CASE q.op = "read" /\ made = <<>> ->
         {Read(q, d, f) : d \in Words, f \in BOOLEAN}
    [] q.op = "write" /\ made = <<>> ->
         {WriteOf(q, q.wdata, f) : f \in BOOLEAN}
    [] q.op = "masked" /\ made = <<>> ->
         {Read(q, d, f) : d \in Words, f \in BOOLEAN}
    [] q.op = "masked" /\ Len(made) = 1 /\ ~made[1].failed ->
         {WriteOf(q, Masked(q, made[1].data), f) : f \in BOOLEAN}
    [] OTHER -> {}

Failed(made) == made # <<>> /\ made[Len(made)].failed

Completed(q, made) ==
  Len(made) = (IF q.op = "masked" THEN 2 ELSE 1) /\ ~Failed(made)

(* The outcomes that may be reported.  A timeout says nothing: the answer  *)
(* may have been on its way.                                               *)
Outcomes(q, made) ==
  IF q.op = "reserved" THEN {"COMMAND"}
  ELSE {"TIMEOUT"} \union (IF Failed(made) THEN {"SLVERR"} ELSE {})
                   \union (IF Completed(q, made) THEN {"OK"} ELSE {})

Init ==
  /\ busy = FALSE /\ code = "OK" /\ accesses = <<>>
  /\ request \in Requests
  /\ value \in Words

Fire ==
  /\ ~busy
  /\ busy' = TRUE
  /\ request' \in Requests
  /\ accesses' = <<>>
  /\ code' = "OK" /\ value' = NoWord

Access ==
  /\ busy
  /\ \E made \in NextAccesses(request, accesses) : accesses' = Append(accesses, made)
  /\ UNCHANGED <<busy, request, code, value>>

Answer ==
  /\ busy
  /\ busy' = FALSE
  /\ code' \in Outcomes(request, accesses)
  /\ value' \in Words
  /\ code' = "OK" /\ request.op # "write" => value' = accesses[1].data
  /\ accesses' = <<>>
  /\ UNCHANGED request

Next == Fire \/ Access \/ Answer

Spec == Init /\ [][Next]_engineVars
==============================================================================
