----------------------------- MODULE BusExplorer -----------------------------
(***************************************************************************)
(* A bus explorer instance as the generator assembles it: shell and core,  *)
(* with a one-command clock crossing in each direction when the target has *)
(* a clock of its own (use.crossed), plain wires otherwise.  The host tasks of *)
(* the driver stage a command, fire it and poll; the host also programs    *)
(* the scanner.  The target answers an access when it likes, if at all.    *)
(***************************************************************************)
EXTENDS BusExplorerShell, BusExplorerCore

CONSTANTS
  Hosts,         \* tasks of the driver that use the engine
  ZeroAddress,   \* the address register out of reset
  Uses           \* the instances checked, and what is done with them:
                 \*   crossed      the target has its own clock
                 \*   timeout      clocks an access may take
                 \*   words        what the target may be read as
                 \*   requests     the commands fired, [op, address, wdata, wmask]
                 \*   scan_writes  register writes that program the scanner
                 \*   resets       domains reset by themselves: "host", "target"

ASSUME ZeroAddressAssumption == ZeroAddress \in TargetAddresses
ASSUME UsesAssumption ==
  \A u \in Uses :
    /\ u.crossed \in BOOLEAN /\ u.timeout \in Nat \ {0}
    /\ u.words \subseteq Words /\ u.resets \subseteq {"host", "target"}
    /\ u.requests \subseteq Requests /\ u.scan_writes \subseteq ScanWrites

VARIABLES
  use,       \* the instance, for ever
  command,   \* the crossing towards the core: Nothing or a command
  response,  \* the crossing back: Nothing or an answer
  pc, ask    \* per host task: where it is, and its command

(* History.  Accesses carry a number, so that an answer can be told from   *)
(* the answer of an access abandoned before; numbers are kept modulo 3.    *)
VARIABLES
  number,    \* of the access in progress, or of the next one
  fired,     \* the configuration when COMMAND was last written
  served,    \* the command in service: what had been fired when it was taken
  accesses,  \* what the target did for it, abandoned accesses left out
  sampled    \* per slot: the address its flags and value come from

crossing == <<command, response>>
hostVars == <<pc, ask>>
history == <<number, fired, served, accesses, sampled>>
explorerVars == <<use, shell, core, command, response, pc, ask, history>>
----------------------------------------------------------------------------
(* The streams, crossed or wired.                                          *)

CommandOffered ==
  [write |-> Command.write, tag |-> Command.tag, address |-> Command.address,
   wdata |-> Command.wdata, number |-> number]

CommandReady == IF use.crossed THEN command = Nothing ELSE core.state = "IDLE"
CoreOffers == core.state = "RESPOND"
AnswerOffered ==
  [tag |-> Response.tag, error |-> Response.error, rdata |-> Response.rdata,
   address |-> core.command.address, number |-> core.command.number]
Arriving ==
  IF use.crossed THEN response ELSE IF CoreOffers THEN AnswerOffered ELSE Nothing

Serving == shell.state # "IDLE" /\ ~shell.scan_op
Taking == shell.state = "IDLE" /\ shell.pending

(* What the host clock adds to the history.                                *)
TrackShell(w) ==
  /\ number' = IF shell.state = "WAIT" /\ shell'.state # "WAIT"
               THEN (number + 1) % 3 ELSE number
  /\ fired' = IF w.reg = "COMMAND"
              THEN [op |-> w.value, address |-> shell.address,
                    wdata |-> shell.wdata, wmask |-> shell.wmask]
              ELSE fired
  /\ served' = IF Taking THEN fired ELSE served
  /\ sampled' =
       IF ~shell.scan_op \/ shell.state = "IDLE" \/ shell'.state # "IDLE" \/ shell.scan_stale
       THEN sampled
       ELSE [sampled EXCEPT ![shell.scan_slot] =
               IF Answered(shell, Arriving) THEN Arriving.address
               ELSE shell.address_issue]

(* What the target does for the access in progress.                        *)
Performed ==
  IF core.state = "ACCESS" /\ core'.state = "RESPOND" /\ core.command.number = number
  THEN <<[write |-> core.command.write, address |-> core.command.address,
          data |-> IF core.command.write THEN core.command.wdata ELSE core'.rdata,
          failed |-> core'.error]>>
  ELSE <<>>
----------------------------------------------------------------------------
(* Clocks.  w is the register write of this host clock.                    *)

TargetAnswers ==
  {NotReady} \union {AnswerOf(e, v) : e \in BOOLEAN, v \in use.words}

ShellClock(w) ==
  /\ use.crossed
  /\ ShellStep(w, CommandReady, Arriving)
  /\ command' = IF shell.state = "ISSUE" /\ CommandReady THEN CommandOffered ELSE command
  /\ response' = Nothing
  /\ TrackShell(w)
  /\ accesses' = IF Serving THEN accesses ELSE <<>>
  /\ UNCHANGED core

CoreClock ==
  /\ use.crossed
  /\ \E target \in TargetAnswers :
       CoreStep(command # Nothing, command, response = Nothing, target)
  /\ command' = IF core.state = "IDLE" THEN Nothing ELSE command
  /\ response' = IF CoreOffers /\ response = Nothing THEN AnswerOffered ELSE response
  /\ accesses' = IF Serving THEN accesses \o Performed ELSE accesses
  /\ UNCHANGED <<shell, hostVars, number, fired, served, sampled>>

CommonClock(w) ==
  /\ ~use.crossed
  /\ ShellStep(w, CommandReady, Arriving)
  /\ \E target \in TargetAnswers :
       CoreStep(shell.state = "ISSUE", CommandOffered, TRUE, target)
  /\ TrackShell(w)
  /\ accesses' = IF Serving THEN accesses \o Performed ELSE <<>>
  /\ UNCHANGED crossing

Clock(w) == ShellClock(w) \/ CommonClock(w)
----------------------------------------------------------------------------
(* The host.  A command is fired and polled by BusExplorer.__transact.     *)

Run == Clock(NoWrite) /\ UNCHANGED hostVars

Stage(h) ==
  /\ pc[h] = "idle"
  /\ \E q \in use.requests :
       /\ Clock([reg |-> "CONFIG", value |-> q])
       /\ ask' = [ask EXCEPT ![h] = q]
  /\ pc' = [pc EXCEPT ![h] = "staged"]

FireCommand(h) ==
  /\ pc[h] = "staged"
  /\ Clock([reg |-> "COMMAND", value |-> ask[h].op])
  /\ pc' = [pc EXCEPT ![h] = "polling"]
  /\ UNCHANGED ask

Completion == shell.done /\ ~shell.busy

Poll(h) ==
  /\ pc[h] = "polling" /\ Completion
  /\ pc' = [pc EXCEPT ![h] = "idle"]
  /\ UNCHANGED <<shell, core, crossing, ask, history>>

Program == \E w \in use.scan_writes : Clock(w) /\ UNCHANGED hostVars

(* A reset of one domain.  The host's resets the shell and both crossings; *)
(* its tasks start over.                                                   *)
HostReset ==
  /\ "host" \in use.resets
  /\ shell' = ShellInit(ZeroAddress, use.timeout)
  /\ command' = Nothing /\ response' = Nothing
  /\ pc' = [h \in Hosts |-> "idle"]
  /\ number' = (number + 1) % 3
  /\ accesses' = <<>>
  /\ UNCHANGED <<core, ask, fired, served, sampled>>

TargetReset ==
  /\ "target" \in use.resets
  /\ core' = CoreReset
  /\ UNCHANGED <<shell, crossing, hostVars, history>>

(* The configuration region out of reset.                                  *)
Unstaged == [op |-> "read", address |-> ZeroAddress, wdata |-> {}, wmask |-> {}]

Init ==
  /\ use \in Uses
  /\ shell = ShellInit(ZeroAddress, use.timeout)
  /\ core = CoreReset
  /\ command = Nothing /\ response = Nothing
  /\ pc = [h \in Hosts |-> "idle"]
  /\ ask = [h \in Hosts |-> Unstaged] /\ fired = Unstaged /\ served = Unstaged
  /\ number = 0 /\ accesses = <<>>
  /\ sampled = [i \in Slots |-> ZeroAddress]

Next ==
  /\ \/ Run \/ CoreClock \/ Program
     \/ \E h \in Hosts : Stage(h) \/ FireCommand(h) \/ Poll(h)
     \/ HostReset \/ TargetReset
  /\ UNCHANGED use

Spec == Init /\ [][Next]_explorerVars

(* The host clock runs while someone waits for an answer, and a task that  *)
(* fired a command polls it.  The target's clock may stop for ever.        *)
FairSpec ==
  /\ Spec
  /\ WF_explorerVars(Run /\ UNCHANGED use)
  /\ \A h \in Hosts : WF_explorerVars(Poll(h) /\ UNCHANGED use)
----------------------------------------------------------------------------
TypeOK ==
  /\ shell.state \in {"IDLE", "DRAIN", "ISSUE", "WAIT"}
  /\ shell.timer \in 0..use.timeout /\ shell.tag \in {0, 1}
  /\ shell.error \in Codes /\ shell.rdata \in Words
  /\ shell.slot_ptr \in Slots /\ shell.scan_slot \in Slots
  /\ shell.scan_valid \subseteq Slots /\ shell.scan_error \subseteq Slots
  /\ core.state \in {"RESET", "IDLE", "SETUP", "ACCESS", "RESPOND"}
  /\ pc \in [Hosts -> {"idle", "staged", "polling"}]
  /\ number \in 0..2

(* Without resets, one tag bit tells the answer of the access in progress  *)
(* from that of an access abandoned before (header of                      *)
(* bus_explorer_shell.vhd).                                                *)
TagTellsAnswersApart ==
  use.resets = {} /\ shell.state = "WAIT" /\ Answered(shell, Arriving) =>
    Arriving.number = number

(* Without resets, what the shell drains is really on its way: an access   *)
(* was abandoned and its answer has not come back yet.                     *)
OrphanIsOutstanding ==
  use.resets = {} /\ shell.orphan =>
    \/ command # Nothing \/ response # Nothing
    \/ core.state \in {"SETUP", "ACCESS", "RESPOND"}

(* A host that fires and polls never takes the completion of a previous    *)
(* command for its own: whatever its poll sees completed is its command.   *)
CompletionIsMine ==
  \A h \in Hosts : pc[h] = "polling" /\ Completion => served = ask[h]

(* COMMAND consumes what the config region holds at the moment it is       *)
(* written (engine/__init__.py).                                           *)
StagedIsConsumed ==
  Serving => /\ shell.address_issue = served.address
             /\ shell.write_issue /\ served.op = "write"
                  => shell.wdata_issue = served.wdata

(* A slot's flags and value describe the address the slot holds now, and   *)
(* only an enabled slot has any: a read still in flight when the scan was  *)
(* reprogrammed leaves no trace.                                           *)
ScanIsCurrent ==
  \A i \in shell.scan_valid \union shell.scan_error :
    i \in shell.slot_enable /\ sampled[i] = shell.slot_addr[i]

(* Whatever the target does, a command that was fired is completed and its *)
(* completion is seen: a dead target costs timeouts and nothing else.      *)
CommandsEnd == \A h \in Hosts : pc[h] = "polling" ~> pc[h] = "idle"

----------------------------------------------------------------------------
(* The inductive invariant.                                                *)

Commands ==
  [write : BOOLEAN, tag : {0, 1}, address : TargetAddresses, wdata : Words, number : 0..2]
Answers ==
  [tag : {0, 1}, error : BOOLEAN, rdata : Words, address : TargetAddresses, number : 0..2]
Accesses ==
  [state : {"SETUP", "ACCESS", "RESPOND"}, command : Commands, error : BOOLEAN, rdata : Words]

Types ==
  /\ use \in Uses /\ shell \in Registers
  /\ shell.timeout = use.timeout /\ shell.timer <= use.timeout
  /\ core \in {CoreReset, CoreIdle} \union Accesses
  /\ command \in {Nothing} \union Commands /\ response \in {Nothing} \union Answers
  /\ ~use.crossed => command = Nothing /\ response = Nothing
  /\ pc \in [Hosts -> {"idle", "staged", "polling"}] /\ ask \in [Hosts -> Requests]
  /\ fired \in Requests /\ served \in Requests
  /\ number \in 0..2 /\ sampled \in [Slots -> TargetAddresses]

(* At most one access is between the shell and the target.  It is the one  *)
(* the shell waits for, or one it has disowned.                            *)
CoreBusy == core.state \in {"SETUP", "ACCESS", "RESPOND"}
Outstanding == command # Nothing \/ CoreBusy \/ response # Nothing

Current(x) ==
  x.tag = shell.tag /\ x.number = number /\ x.address = shell.address_issue

LinkInStep ==
  /\ command # Nothing => ~CoreBusy /\ response = Nothing
  /\ CoreBusy => response = Nothing
  /\ shell.state \in {"ISSUE", "WAIT"} => ~shell.orphan
  /\ shell.state # "WAIT" /\ Outstanding => shell.orphan
  /\ shell.state = "WAIT" => /\ (command # Nothing => Current(command))
                             /\ (CoreBusy => Current(core.command))
                             /\ (response # Nothing => Current(response))
  /\ use.resets = {} /\ (shell.orphan \/ shell.state = "WAIT") => Outstanding

(* A scan read that no write has made stale is of an enabled slot.         *)
ScanInStep ==
  /\ ScanIsCurrent
  /\ shell.scan_op /\ shell.state # "IDLE" /\ ~shell.scan_stale =>
       shell.scan_slot \in shell.slot_enable
       /\ shell.address_issue = shell.slot_addr[shell.scan_slot]
NeverScans ==
  /\ ~shell.scan_op /\ shell.slot_enable = {}
  /\ shell.scan_valid = {} /\ shell.scan_error = {}

(* One task fires commands: what it staged, what is pending and what is in *)
(* service are the same request.                                           *)
OneTask == \A g, h \in Hosts : g = h

TaskInStep ==
  /\ \A h \in Hosts :
       /\ pc[h] = "staged" =>
            [op |-> ask[h].op, address |-> shell.address,
             wdata |-> shell.wdata, wmask |-> shell.wmask] = ask[h]
       /\ pc[h] = "polling" => fired = ask[h] /\ (shell.pending \/ served = ask[h])
  /\ shell.busy => \E h \in Hosts : pc[h] = "polling"
  /\ shell.pending => /\ shell.busy /\ ~Serving /\ shell.pending_op = fired.op
                      /\ shell.address = fired.address
                      /\ shell.wdata = fired.wdata /\ shell.wmask = fired.wmask
  /\ Serving => /\ shell.busy /\ shell.address_issue = served.address
                /\ (shell.rmw => served.op = "masked")
                /\ (served.op = "write" => shell.wdata_issue = served.wdata)

(* Only the access in progress carries its number, and it is the one the   *)
(* shell issued.                                                           *)
IsIssued(c) == c.write = shell.write_issue /\ c.wdata = shell.wdata_issue

NumbersInStep ==
  /\ shell.state # "WAIT" => /\ (command # Nothing => command.number # number)
                             /\ (CoreBusy => core.command.number # number)
  /\ shell.state = "WAIT" => /\ (command # Nothing => IsIssued(command))
                             /\ (CoreBusy => IsIssued(core.command))

(* What was done for the command in service: the read of a masked write    *)
(* that is now writing, and the access in progress once it is performed.   *)
Answering == shell.state = "WAIT" /\ (response # Nothing \/ core.state = "RESPOND")
Made ==
  IF served.op = "masked" /\ ~shell.rmw
  THEN <<[write |-> FALSE, address |-> served.address, data |-> shell.rdata, failed |-> FALSE]>>
  ELSE <<>>
MadeNow(answer) ==
  [write |-> shell.write_issue, address |-> served.address,
   data |-> IF shell.write_issue THEN shell.wdata_issue ELSE answer.rdata,
   failed |-> answer.error]

AccessesInStep ==
  accesses = IF Answering
             THEN Append(Made, MadeNow(IF response # Nothing THEN response ELSE core))
             ELSE Made

OperationInStep ==
  /\ served.op # "reserved" /\ fired = served
  /\ shell.rmw <=> served.op = "masked" /\ ~shell.write_issue
  /\ served.op = "read" => ~shell.write_issue
  /\ served.op = "write" => shell.write_issue
  /\ shell.wdata = served.wdata /\ shell.wmask = served.wmask
  /\ served.op = "masked" /\ shell.write_issue =>
       shell.wdata_issue = Merge(shell.rdata, served.wdata, served.wmask)

ServiceInStep == NumbersInStep /\ (Serving => OperationInStep /\ AccessesInStep)

IInv ==
  /\ Types
  /\ "host" \notin use.resets => LinkInStep /\ ScanInStep
  /\ use.scan_writes = {} => NeverScans
  /\ OneTask => TaskInStep
  /\ OneTask /\ use.resets = {} => ServiceInStep
----------------------------------------------------------------------------
(* The engine and its crossings: what is in flight is accounted for.       *)
AnswersAreOwed == TypeOK /\ TagTellsAnswersApart /\ OrphanIsOutstanding /\ IInv

(* A host's command is served as it was fired, and completed to it alone.  *)
CommandIsMine == CompletionIsMine /\ StagedIsConsumed

(* A host reset leaves an access of the command it forgot in the core: the *)
(* refinement is of the uses without resets.                               *)
Undisturbed == use.resets = {}

Abstract == INSTANCE CommandEngine WITH
  busy <- Undisturbed /\ shell.busy,
  request <- IF Undisturbed THEN fired ELSE Unstaged,
  accesses <- IF Undisturbed /\ Serving /\ ~shell.pending THEN accesses ELSE <<>>,
  code <- IF Undisturbed THEN shell.error ELSE "OK",
  value <- IF ~Undisturbed THEN {} ELSE IF shell.busy THEN {Words} ELSE shell.rdata

(* A command is served by the accesses it asks for and no other, in order, *)
(* whatever the timeouts, abandoned accesses and scan reads around it.     *)
ImplementsCommandEngine == Abstract!Spec
==============================================================================
