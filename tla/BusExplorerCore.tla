--------------------------- MODULE BusExplorerCore ---------------------------
(***************************************************************************)
(* The target half of the bus explorer, bus_explorer/bus_explorer_core.vhd:*)
(* an APB master that executes one command at a time and has no timeout.   *)
(* One step of CoreStep is one clock of the target.                        *)
(***************************************************************************)
EXTENDS Integers

VARIABLE core    \* state, and from SETUP on the command and its answer

CoreReset == [state |-> "RESET"]
CoreIdle == [state |-> "IDLE"]

(* What the target does in an access phase: not ready yet, or an answer.   *)
NotReady == [ready |-> FALSE]
AnswerOf(error, value) == [ready |-> TRUE, error |-> error, value |-> value]

LeaveReset == core.state = "RESET" /\ core' = CoreIdle

Hold(offered) == core.state = "IDLE" /\ ~offered /\ UNCHANGED core

Accept(offered, command) ==
  /\ core.state = "IDLE" /\ offered
  /\ core' = [state |-> "SETUP", command |-> command, error |-> FALSE, rdata |-> {}]

Setup == core.state = "SETUP" /\ core' = [core EXCEPT !.state = "ACCESS"]

Stall(target) == core.state = "ACCESS" /\ ~target.ready /\ UNCHANGED core

Access(target) ==
  /\ core.state = "ACCESS" /\ target.ready
  /\ core' = [core EXCEPT !.state = "RESPOND", !.error = target.error,
                          !.rdata = IF core.command.write THEN @ ELSE target.value]

Respond(taken) ==
  /\ core.state = "RESPOND"
  /\ core' = IF taken THEN CoreIdle ELSE core

CoreStep(offered, command, taken, target) ==
  \/ LeaveReset
  \/ Hold(offered)
  \/ Accept(offered, command)
  \/ Setup
  \/ Stall(target)
  \/ Access(target)
  \/ Respond(taken)

(* response_o, while response_valid_o.                                     *)
Response ==
  [tag |-> core.command.tag, error |-> core.error, rdata |-> core.rdata]
==============================================================================
