# gatecap in TLA+

gatecap puts a *rack* of on-chip instruments in an FPGA: logic analyzers, bus
explorers, control-and-status panels, clock measurers. A generator prints the
VHDL from a description, an adapter (JTAG, SWD, SPI, serial, USB, a stream or an
APB port) gives a host access to the rack's registers, and Python drivers,
a console and a web page operate them. This directory models the parts where
several things happen at once - clocks, triggers, hosts, targets, pages - and the
wiring the generator makes of a description, checks them with TLC and proves some
of it with TLAPS.

Paths below are relative to the repository; `lib/` stands for
`gateware/lib/gatecap/` and `host/` for `host/acrobe_plugin/gatecap/`.

## 1. Inventory

| Component | State it keeps | Operations | What is hard |
|---|---|---|---|
| raw capture core, `lib/capture/capture_core.vhd`, with `lib/trace/trace_buffer.vhd` | state, latched configuration, offset in the slot, history count, samples left, head offset; the buffer | one clock: arm, abort, fill, accept a trigger, capture, complete a window | the tick of a sample arrives clocks after it; all addresses wrap twice; lengths at their limits |
| trigger blocks, `lib/control/trigger_control.vhd`, `trigger_control_edge.vhd` | pipeline, tick, hold-off | one clock: match, hold off | enable falls while a match is in the pipeline; release of the hold-off depends on every core's ready |
| capture control, `lib/control/capture_control.vhd` | configuration, pulses, heads of the completed windows | register writes, head store | written at any moment of a capture |
| run-length capture, `lib/capture/capture_core_rle.vhd`, `lib/control/capture_control_rle.vhd` | ring pointers, current run, count, cycles | one clock: sample in ring or post region | a run spills, evicts, freezes; counts at their maximum; what the pointers mean to the decoder |
| bus explorer, `lib/bus_explorer/bus_explorer_shell.vhd`, `bus_explorer_core.vhd` | staged and pending command, the access in service, tag, orphan, timer, scan slots; the core's access | register writes, engine clock, target clock, resets | an access is abandoned while its answer is on the way; two users of one engine (commands, scan); two clocks; two resets |
| control and status panel, `lib/control_status/control_status_shell.vhd`, `control_status_core.vhd` and the generated crossings | masks, strobes, bases, control words; sticky bits, counters; what is in the crossings | register writes, panel clock | strobes, masks and words cross by different means and at different speeds |
| clock measurer, `lib/clock_measurer/` | measured rates (in a library component) | read | coherence of the crossing |
| adapters, `lib/adapter_*` | framing state | bytes in, APB accesses out | mostly instances of library components |
| bridge, `host/bridge.py` | replies awaited | read and write split in bursts | replies are matched by order alone |
| transports, `host/usb.py`, `host/spi.py` | queues of sends and receives | loops, deadlines, drain, stop | a deadline races a late frame |
| session and web page, `host/session.py`, `host/gui/app.py` | node tree, transport, fingerprint, last configurations | connect, disconnect, configure, poll, rebuild, replay | in-flight calls when the tree is torn down; a board that is away, reset or reprogrammed |
| analyzer driver, `host/instrument/la/` | armed plan, fetch progress | arm, abort, poll, read, capture, of a control or of a group | members are reached one at a time; calls of several clients |
| explorer driver, `host/instrument/bus_explorer/` | slots remembered, map in use, journal, snapshots | access, field, sweep, slots, scan, snapshot, replay | what is remembered across an await; names; a journal of what other tasks do too |
| generator, `host/generator/`, `host/instrument/*/generator` | none | description to VHDL, manifest, Vivado package | which clock each net is on and how it crosses; constants that must agree with the wiring |
| descriptor and enumerator, `lib/descriptor/`, `host/enumerator.py` | none | publish, walk | the tree must reach the register files |
| frontends, names, build plugin | caches | display, lookup | sequential |

How they meet: a driver turns each call into register accesses; the bridge turns
those into frames; an adapter turns frames into APB accesses; each instrument's
shell or control block, in the host's clock domain, decodes them and drives its
core, which may be in another clock domain, through the crossings the generator
prints. Inside a logic analyzer the control pulses the core, the core's `ready`
enables the trigger, the trigger's tick comes back to the core, and the core's
heads go to the control.

What makes each correct: a *raw capture* reads back, window by window, as the
samples around a matching one; a *run-length capture* decodes to the samples it
was given; a *bus explorer* performs the command that was fired, once, and
reports its answer and nobody else's, and its journal and names tell what was done
to the target; a *panel* fires what was written, once, and loses no event; a *group*
reads back one event in every member; a *bridge* gives every command its own reply; a
*session* comes back with the configuration the board lost; a *generated rack* reads
every net on the clock it is driven on and publishes what it wired. The hazards of each, at their lines, and the
properties that cover them are in `PROJECT.json`.

## 2. Modules

| Module | Models | Notes |
|---|---|---|
| `CaptureCore` | the raw core and the buffer | one step per clock; every branch of `transition` is an action |
| `CaptureWindows` | the core alone, under arbitrary arm, abort, tick | the environment of the proofs |
| `CaptureWindowsProofs` | | theorems about `CaptureWindows` |
| `TriggerControl` | value and edge trigger blocks | pipeline, enable, hold-off |
| `CaptureControl` | control's register file and heads, and the host's checks | |
| `CaptureBlock` | composition of the four in one clock, with the host | |
| `CaptureBlockProofs` | | theorems about `CaptureBlock`, its refinement of `SegmentedCapture` |
| `SegmentedCapture` | abstract specification of a raw capture | no clock, no buffer |
| `RleCore`, `RleCapture` | the run-length core; its cluster with the host's decoder | |
| `RleCaptureProofs` | | theorems about `RleCapture` |
| `BusExplorerShell`, `BusExplorerCore` | the two sides of the explorer | shell and core are records, each step an operator |
| `BusExplorer` | both, the crossings, the host's tasks, resets | |
| `BusExplorerProofs` | | theorems about `BusExplorer`, its refinement of `CommandEngine` |
| `CommandEngine` | abstract specification of the explorer | commands and what they do to the target |
| `ControlStatus` | the panel: shell, crossings, core, driver and web panel | |
| `ControlStatusProofs` | | theorems about `ControlStatus` |
| `UsbBridge` | the bridge's calls over the USB channel: queues, loops, stop, drain | the device is external |
| `UsbBridgeProofs` | | theorems about `UsbBridge` |
| `RegisterMap` | SVD documents: numbers, fields, registers, derivation, arrays | operators only |
| `ExplorerCalls` | the explorer's driver, page messages, journal, maps and snapshots | extends `RegisterMap`; the gateware command by command, with the accesses it abandons |
| `GroupPlan` | windows, plans, buffer regions and bursts, composed traces | operators only |
| `GroupCapture` | the analyzer's driver over cores that share a trigger across clocks | extends `GroupPlan` |
| `GroupCaptureProofs` | | theorems about `GroupCapture` |
| `GuiSession` | the web page's API, the session, the board | one step per await |
| `GuiSessionProofs` | | theorems about `GuiSession` |
| `Crossings` | parts and nets, and the crossings between two clocks | operators only, like the next four |
| `AnalyzerNet` | the analyzer's parser, layout, clusters, triggers, envelope | |
| `SideInstruments` | panel, explorer and clock measurer generators | |
| `RackNet` | rack parser, transports, address map, enumeration | |
| `VivadoWrapper` | pins and interfaces of the packaged rack | |
| `GeneratedRack` | from a description to an enumerated rack | composes the five above |
| `MC*` | instances and configuration sets | |

### Correspondence with the code

*Capture.* A step is one rising edge of the capture clock; unprimed variables are
what the registers hold before it. `Step` is the disjunction of the branches of
the process `transition`; the registers have their VHDL names and wrap at their
widths (`Reg`, `Addr`). A sample is abstracted to its *age*, the number of samples
its window took after it: a window is in order exactly when its ages count
down. Memory never written in this acquisition is `Stale`. The compare of a
trigger block is abstracted to whether the sample matches (`Conditions`);
latency, enable and hold-off are kept. `Configure`, `HostArm` and `HostAbort` are
register writes that land on a clock; the host arms a control that reports idle
(`_wait_idle`, and the panel's arm button). `ReadWindow` is `Buffer.read_window`.

*Run-length capture.* A line of the buffer is a value or a count of repetitions
(the tag bit and the payload). `Decode`, `RingLines` and `PostLines` are
`RleControl._decode` and `_read_regions`; `Marker` is where the waveform puts the
trigger. The histories `before` and `after` are the samples the core was given.

*Bus explorer.* `shell` and `core` are records with the VHDL signals as fields.
The crossings are the one-entry handshakes of the generated clocking components
(external: modelled from their use), or absent when both sides share a clock
(`Crossed`). A target answers at any access clock, or never, with or without an
error. `Stage`, `FireCommand` and `Poll` are what `BusExplorer.__transact` does,
per task in `Hosts`; `Program` writes the scan's registers.
`number` is a history variable: it identifies an access beyond what the tag can.
What an explorer is and is used for - clocks, timeout, the tasks' requests, the
scan's programming, the resets - is a record `use`, chosen in `Init` among
`Uses`, so that one run covers several explorers.

*Panel.* `HostClock` and `CoreClock` are the edges of the two clocks,
`BothClocks` a coincident edge, `OneClock` a panel with the host's clock. A tick
crosses as a toggle through `TickLatency` stages, a word through registers that
resynchronise each bit: a bit that changes as it is sampled is read old or new
(`Torn`). `Spaced` says whether the host leaves a register alone until the
crossing of its last write is over - the condition `generator/cdc.py` puts on a static
word, "written far from any use"; nothing in the driver enforces it.
A call of the driver is a list of register writes (`todo`) that the following
host clocks perform. The kind of panel is a record `panel` chosen in `Init`
among `Panels`.

*Bridge and USB channel.* A call of the bridge is issued as one command frame
per burst (`Call`), batched (`posted`) until `flush_ops` puts them in the queues
of both loops (`Flush`). A frame is a sequence of transfers; the last one is
short and ends it, so a frame of a multiple of the packet size has one more.
`writer` and `reader` are the two tasks of `DatagramChannel` with the operation
each serves and the transfers it has made; `OutFails` and `InFails` are a
transfer that raises or that reaches its deadline: the future fails and the
loop goes on. `Stop`, `CancelledEnds` and `Stopped` are the awaits of `stop()` in
its order; `Die` is the end of the host's process; `Open` is the next channel,
with its drain. The device answers the frames it was sent, one by one. A
command is known by which one it is; a reply by the command it answers
(`Nobody` when the device got pieces of two). `broken` is history: a
transfer of this connection failed, or the connection before left the device
within a frame or at work, which the drain cannot see. `Quiet` says that nothing
is asked of a channel that is being stopped.

*Explorer's driver.* `Begin` is a message of the page (`BusExplorerGui.message`) or a call
of a script: it becomes a list of steps, each a request posted to the bridge;
`Serve` is the engine's register file, `Take` and `Scan` what its idle state begins,
`Perform` the target making an access, `Arrive` the shell keeping its answer. `Abandon` is a
deadline: of the access in progress, which the target may have made, may still be given or
may never have had, or of the wait for the one abandoned before (`ST_DRAIN`); `line` holds
what the target still owes, which `PerformLate` makes and whose answer `Drop` forgets. So a
write reported as timed out may land, or not, after the host was told, and the accesses
after it, to whatever address, may time out as well. An address in `use.late` is one whose
target can be that slow; the others answer within the deadline. Replies resume their task in order, and everything the driver
does until its next await (`Remembered`, `Observed`, `Advance`, `ShownBySlot`)
belongs to that step. A word is the set of its bits. A number of an SVD document is
its digits and suffix with what it means, so that `Integer` has something to get wrong.
`exported` is the recipe the page holds, from a file or from the journal as it was when
asked for. `base`, `serving`, `torn` and an entry's `by` are history: what the target may
have held when the journal was last empty (several contents, when a write that timed
out was cleared with it); the task whose command is in the engine and has not been told its
end; that a command was fired over such a one; who made a write. `OnTheWay` is what
was written and is not journalled yet: the ends in the replies, then the write in service.

*Group.* A core is what the raw and run-length models make of it seen from its
registers: armed, capturing, idle, with what each slot holds identified by the fire
of the trigger that filled it (a *shot*). `seen` is the ready line as the trigger's
domain has it, `ticks` the fires on their way; a member of the trigger's own
domain has neither. A call (`job`) is a list of accesses, computed by the driver's code
between awaits; `outcome` is the call the last step ended, with what was true of
it: `alone` (no other client's call beside it), `whole` (the plan it read was armed by
one call, to its end, and nobody touched the group since), `rest` (all idle).
An access takes longer than a crossing - a frame over any transport against two or
three clocks - so what the host writes has arrived by the time of its next access, but
two accesses' worth of crossings to *different* domains are not ordered.

*Session and page.* The hardware tree caches one transport; a transport carries the epoch
of the link it opened and the image it enumerated. `BeginPoll` to `Replayed` are the
stretches of `Api.poll` between awaits, `BeginConnect`/`Open`/`ReadFingerprint`,
`BeginDisconnect`/`Close`/`Forget` and `BeginConfigure`/`Configure` those of the user's
calls, `CancelPoll` a page that goes away. `resolve` (a whole summon) is one step.
`Lose`, `Reprogram` and `Return` are the board. Every dictionary of configurations
ever made is kept (`dicts`), since a replay in flight still holds the old one after a
disconnect made another.

*Generator.* A name is the sequence of its words. The text of an architecture is
abstracted to its parts - each with what it reads, on which clock, what it drives, and how
it carries it (`block`, `wire` or a kind of crossing) - its ports, constants,
manifest dependencies and envelope. `GeneratedRack` runs the generator as the command does:
parse (with every refusal), assemble, package for Vivado or not, elaborate with the
widths the streams turn out to have, and enumerate from the published descriptor.

## 3. Runs

Passing runs, and what they show:

| Run | Question |
|---|---|
| `core_windows` | the invariants of the proofs, and the inductive invariant itself, for the core alone under arbitrary arms, aborts and ticks |
| `block_capture` | a whole cluster with an edge trigger, whatever the samples and aborts: are its windows those of `SegmentedCapture` (refinement), is a head found under its window's number, is a tick ever wasted, does a capture whose condition keeps coming back end by itself |
| `rle_runs` | every split of the buffer: what ring and post region decode to, the cap on cycles, the marker, and that no capture gets stuck, even under a constant signal |
| `explorer_serving` | does the explorer implement `CommandEngine`, with and without a crossing, alone and against a scan; does the tag tell answers apart; do the scan's results belong to the addresses its slots hold. With resets of either domain, a stopped target clock: a task's completion and operands are its own, and every command ends |
| `panel_calls` | strobes fire as written, once, though the host's clock stops; stickies keep every event; rebases lose nothing in flight; in panels across a crossing (writes spaced) and in one clock (writes back to back) |
| `usb_calls` | two callers, failures, stops, deaths and reopenings: while no transfer has failed each command gets its own reply; every call ends |
| `explorer_calls` | every call of the driver, on addresses that answer in time, late, never, and that refuse, with other tasks writing, at the slots and at the status poll, under maps that are edited, unreadable or change in use: does the journal explain the target when writes time out and land, or are made while another task waits to journal its own; does a replay of two and three steps drive them in order, whoever writes in between; does a poll name what it shows, does a field write touch only its field |
| `group_reads` | groups of two or three members of each kind - crossed, packed, wide, run-length, without a clock - armed, polled, read, aborted and captured by two clients, with a link that fails: is what is read one event of the capture asked for, do the progress counters balance, is idle true, is a plan taken whole, does the composed trace keep its windows apart |
| `gui_polls` | a page that polls while its user connects, configures and disconnects and the board's link drops, resets, is back or reprogrammed: is other gateware always seen, does a rebuild restore the configuration and no other image's, is a transport always closed, is a page served again |
| `generated_rack` | 733 descriptions: is every net read on the clock it is driven on and through a crossing of its kind, do the latencies and enables agree with the wiring, is the manifest complete, does the host reach every register file and the right trigger, do the Vivado pins cover the ports |

Related facts are checked together, as one property whose conjuncts are named and
commented in the module:

| Property | Run | Its parts |
|---|---|---|
| `ClusterInStep` | `block_capture` | `HeadIndexIsWindow`, the inductive invariant `IInv` with `TypeOK`, `TickFindsContext` and the core's |
| `KeptIsRecent` | `rle_runs` | `RingIsRecent`, `CyclesCountSamples`, and what the inductive invariant `IInv` adds to them: `TypeOK`, `RingInStep`, `PostInStep`, `CountersInStep`, `MatchInStep` |
| `AnswersAreOwed` | `explorer_serving` | `TypeOK`, `TagTellsAnswersApart`, `OrphanIsOutstanding`, the inductive invariant `IInv` |
| `CommandIsMine` | `explorer_serving` | `CompletionIsMine`, `StagedIsConsumed` |
| `StrobesAsWritten` | `panel_calls` | `TypeOK`, `FiresAsWritten`, `WordsNeverTogether`, the inductive invariant `IInv` |
| `LinkInStep` | `usb_calls` | `RepliesInStep`, the inductive invariant `IInv` with `TypeOK` and `AskedOnce` |
| `SlotsAreKnown` | `explorer_calls` | `TypeOK`, `CacheMatches`, `OnlyItsSlot`, `PollNamesRightAddress` |
| `JournalExplains` | `explorer_calls` | `JournalIsHistory`, `ReplayRepeats` |
| `NamesMean` | `explorer_calls` | `FieldWrittenAlone`, `MapAddresses`, `DiffAccounts` |
| `ReadsAreAccounted` | `group_reads` | `AccountsOK`: `TypeOK`, `CallsInStep`, `FetchBalanced`, `PollStaysOffTheLink`, `LinesInStep`; `ReadsAreInStep`: `CompanyOK`, `PollsOK`, `ReadersOK`, and over `LinesHold` `OwnOK` and the `Session` |
| `PlansHold` | `group_reads` | `ArmIsWhole`, `QuietPlansAgree`, `FetchAccounts`, `ComposedInOrder` |
| `PollsTell` | `group_reads` | `IdleIsRest`, `DenominatorFixed` |
| `SessionLasts` | `gui_polls` | `ChangedIsSeen`, `ReconnectRestores`, the inductive invariant `IInv` with `TypeOK` |
| `RackIsWhole` | `generated_rack` | `TypeOK`, `DependenciesDeclared`, `PinsCoverThePorts` |
| `ClocksAreCrossed` | `generated_rack` | `ReadsInTheirDomain`, `CrossingsFit` |
| `TriggersAgree` | `generated_rack` | `LatencyIsPath`, `EnableGathersReadies` |
| `HostFindsBlocks` | `generated_rack` | `HostReachesBlock`, `PublishedIsWired` |

Violation runs state what a comment or a document says and what the code does
otherwise; each is a finding of `PROJECT.json` with the quotation:

| Run | What happens |
|---|---|
| `gui_away` | a rebuild that finds the board still away leaves the session without a node, and no later poll rebuilds it |
| `vivado_host_bus` | a bus without a clock of its own is associated with the first clock pin listed, which is another domain's when the rack rides an exported clock |

Other disagreements between what is said and what is done. A configuration beside
the list of runs, or one of a run with the property named, shows each of the first seven
(`tlc -config <cfg> <module>` ends with the property violated):

| Configuration | What happens |
|---|---|
| `CaptureBlock_late_pretrigger` with `MCCaptureBlock` | when `capture_len - pre_trigger_len` is within the latency the start of the window is overwritten before its tick arrives (`capture_core.vhd:185`), against "wrapping within the slot, to recover the window in time order" (`capture_core.vhd:22-24`); `validate_capture` accepts such windows |
| `CaptureBlock_no_pretrigger` | a window without history that is full when its tick arrives keeps ready high and the trigger holds off for ever (`capture_core.vhd:237`), against "drops on trigger-accept" (`capture_core.vhd:61-66`) and "the core fills and idles on its own" (`control/__init__.py:323`) |
| `ControlStatus_fast_strobes` with `MCControlStatus` | two strobes closer than the crossing: lost, doubled or mixed (`control_status_shell.vhd:224`), against "exactly one cycle" (`doc/instrument/control_status.rst:74-75`) |
| `UsbBridge_calls` with `MCUsbBridge`, `Spec` and the property `RepliesStayMatched` | one transfer fails and the connection goes on: every later reply answers the command before (`usb.py:98`), against "each is matched to the receive posted with it" (`bridge.py:70-72`) |
| `ExplorerCalls_overlap` with `MCExplorerCalls` | two tasks write at the same time: the second command replaces the first, and both are journalled (`driver.py:296`), against "every write the host made to the target" (`journal.py:1`) |
| `GroupCapture` with `MCGroupCapture`, `Uses <- Rearms` and the property `ArmStartsCapture` | an arm of a group that still runs is ignored by its cores and the earlier capture is returned for it (`driver.py:199`), against "Arm starts a capture" (`doc/host/gui.rst:97`) |
| `GroupCapture_windows` with `MCGroupCapture` | with two windows, the trigger fires again before a crossed member's ready has dropped (`topology.py:106`), against "Every participating domain must be armed before the trigger can fire" (`doc/instrument/logic_analyzer/index.rst:258`) |

and, seen while modelling, without a configuration of their own:

- a post region without a line, after a ring that ends inside a packed word, moves a word
  it did not announce (`control/__init__.py:428`), against "so a readback can declare the
  size of its transfer before the first word of it is on the wire"
  (`buffer/__init__.py:49-51`): `Overrun` in `GroupCapture`;
- a reset of the explorer's target domain with an abandoned access in flight leaves the
  shell waiting for its answer, and every later access times out until the host's domain
  is reset (`bus_explorer_core.vhd:99`), against "a dead target costs one timeout and nothing
  else" (`doc/instrument/bus_explorer.rst:47-48`);
- `register()` promises a bare name "when only one peripheral has it" (`svd.py:388`); the
  first one that has it is taken;
- a disconnect clears the fingerprint while a rebuild runs beside it: the poll
  then sees no change of gateware, replays the old configuration onto it and leaks the
  transport it opened (`app.py:139-144`, `session.py:115-118`);
- a poll of a session that was closed can outlive it: when it fails it rebuilds the
  session that is current by then, or opens a transport beside it (`app.py:201`). A later
  disconnect leaves that transport open, and a transport enumerated from other
  gateware can be taken over by a later rebuild, which then passes over the configuration of
  an instrument it does not know. Seen with four calls (`DisconnectCloses` without its
  condition on the connect) and with six calls and two reprogrammings
  (`ReconnectRestores` without `Untangled`);
- an arm written while a capture runs resets the heads and not the core
  (`capture_control.vhd:160`);
- two tasks that use one explorer take each other's completion
  (`bus_explorer_shell.vhd:402`) or change each other's operands (`bus_explorer_shell.vhd:282`);
- a host-domain reset restarts the tag, and the first access after it can take an
  old answer (`bus_explorer_shell.vhd:455`);
- the run-length marker points to a sample that did not match, when there is no ring to
  compensate the latency (`capture_core_rle.vhd:189`) or when counts took its
  room (`capture_core_rle.vhd:239`, edge trigger);
- a strobe can fire bits of two words (`control_status_core.vhd:106`), a control word
  can be read half old, half new (`generator/cdc.py:40`), both only when writes
  are closer than the crossing;
- an event between a poll and its acknowledgment (`control_status/driver.py:172`), or
  between the two halves of a reset (`control_status/driver.py:194`), is never seen by the host;
- a batch flushed while `stop()` waits starts a new reader, which can take the reply
  of a read that was cancelled (`usb.py:170`): seen with `Quiet` false;
- domains called `x` and `x_trigger` declare one signal twice, and an instrument called like a
  generated part overwrites its file (`rack.py:607`).

The properties of the passing runs have the preconditions these call for:
`ShortConfigs` keeps to windows that reach past the latency, `FillsUnlessHeldOff` leaves
out captures without history that are full when the tick arrives, `Spaced`
spaces the writes of a panel with a crossing, `TagTellsAnswersApart`, `OrphanIsOutstanding`
and the refinement of `CommandEngine` are asked without resets, `AnswerIsMine` of a
connection on which nothing has failed, `MarkerOnMatch` of a ring that decodes to as many
samples as the trigger is late, `CaptureIsOwn` of a group armed at rest and by
one client at a time, `FetchAccounts` of reads in which no region overruns,
`FireFindsAllArmed` of captures of one window when a member is crossed, `ReplayFits` of polls
that no disconnect overlaps, `DisconnectCloses` of sessions whose connect and disconnect overlap
no poll and whose rebuilds none cancelled, `ReconnectRestores` of sessions whose connect
overlaps none (`Untangled`), `Recovers` of rebuilds that found the board. The explorer's
calls overlap everywhere, but of a target two tasks use at once less is asked: `JournalIsHistory`
until a command is fired over one whose task was not told its end (`torn`; `ExplorerCalls_overlap`
is that case), `AnswersAreTarget`, `FieldWrittenAlone` and what a replay leaves in the target of a
call that was alone there; that a replay journals its steps in order is asked always. The descriptions of `generated_rack` have no names that collide.

The explorer's tag and its drain state are each sufficient alone when the
crossings hold one entry: removing either one from the model violates nothing
without resets. The mutants therefore break them together with what they protect.

### Bounds, and why they are enough

- *Core* (`core_windows`): 6 words, latency 2, every legal configuration. Two windows
  show every hand-over there is; slots of every length show every wrap. `CaptureWindowsProofs` removes these bounds for the core.
- *Cluster*: 8 words and the edge trigger's real latency of 2, with two windows of 4
  that fill the buffer, with history and without; the value trigger (latency 1),
  single windows and short ones are in `rle_runs`, in the two further configurations of
  the capture and in `core_windows`. Samples are ages, so their values need no bound; ages
  saturate at `Depth`, beyond which a sample cannot be in the buffer.
  `CaptureBlockProofs` removes these bounds, for both trigger blocks.
- *Run-length*: 4 lines, values {0, 1} (only equality with the previous sample
  matters), counts up to 3 so that runs reach the maximum and spill, cycles
  modulo 4, every split of the buffer in ring and post region, without a cap and
  with one of 2. `before` keeps as many samples as the ring could decode to. The value
  block; the same instance with `Edge = TRUE` (614144 states) passes too, in four minutes.
  `RleCaptureProofs` removes these bounds, for both trigger blocks and every safety property.
- *Explorer*: two addresses, words of one bit (a masked write has it kept and
  replaced in turn; the scanner and the resets need none), two slots, a timeout of 1 clock
  crossed and 3 same-clock (the shortest that lets an access succeed). A longer
  timer adds only clocks before an expiry that TLC can already put anywhere, as
  the target's clock and answer are arbitrary. `BusExplorerProofs` removes these bounds,
  for the safety properties and the refinement.
- *Panel*: two output words of two and one ticks, inputs in words of their own; the
  crossing's three clocks are the real latency; counters modulo 4; at most
  `MaxOwed` = 2 strobes owed at a time (history only). `ControlStatusProofs` removes
  these bounds, for the safety properties.
- *USB*: two commands, one whose frame takes two transfers and one whose reply does;
  calls of one or two bursts (`MaxBursts`); a device that holds up to four frames
  and replies (`MaxHeld`: unread replies would otherwise pile up with
  every connection that is lost; a full device accepts nothing, as the endpoint does).
  `UsbBridgeProofs` takes any number of callers, commands and transfers, and any `MaxHeld`.
- *Explorer's driver*: words of three bits (a field of two and a bit beside it), three
  addresses that answer, of which one may be late or never do it, one that refuses and one
  that does not fit; two slots, so that one is another's neighbour; calls without bound in
  number. The journal of the code has no limit; `use.entries` bounds it here by refusing to
  begin a call that would write past it: four entries where a recipe of three steps is
  replayed and another task writes before, between or after them, two where one task
  journals, exports, clears and replays (a clear makes room again). The page
  polls the slots, the scanner reads them, and one of them can be late, in uses of their own.
  Documents with chains of derivation, arrays of each kind of index and every refusal.
- *Group*: rates 1 to 3, buffers of 4 to 8 samples, one or two windows, two fires
  (`MaxFires`: the second is the one that could be taken for the first), 2 or 3 calls
  in all (`budget`: what one call leaves behind meets one or two others), one failure of
  the link, bursts of two words, two tries of the settling loop.
- *Page*: two images that share one instrument, two values of a setting, two faults (one
  during the recovery from another) and three calls of the user (connect, configure,
  disconnect, or a second connect). `GuiSessionProofs` removes these bounds, for the safety
  properties: the second of the conditions on `DisconnectCloses` was found by its proof,
  as no behaviour of three calls needs it.
- *Generator*: no operator depends on how many more instruments or domains there are:
  one to four instruments of each kind, one to three domains, each transport, each clock
  that may be ridden, raw and run-length, packed or not, edge or value, own or shared
  triggers, streams of 8 and 40 bits (a word or two).

### Fairness

- `CaptureBlock!FairSpec`: weak fairness of a capture clock's edge at which the
  condition is met, for a signal whose condition keeps coming back.
  `RleCapture!FairSpec`: of any edge of the clock. The host owes nothing.
- `BusExplorer!FairSpec`: the host's clock runs, a task polls the command it fired
  (`__transact` loops). None for the target or for the target's clock.
- `ControlStatus!FairSpec`: the panel's clock runs; the host's may stop.
- `UsbBridge!FairSpec`: the event loop runs what is ready, and a transfer is made
  or fails by its deadline (`usb.py` gives each one). None for the device.
- `GuiSession!FairSpec`: the page's pusher polls each panel for as long as it is there
  (strong fairness: it sleeps while another poll runs), and an access that was begun
  is answered or fails. None for the board.

## 4. Proofs

Each module of proofs has one inductive invariant, which TLC checks in the
runs of its component, a lemma per action that keeps it, and theorems that follow from it.

### The raw core: `CaptureWindowsProofs`

For every depth, every latency up to
it, every legal set of configurations and every sequence of arms, aborts and
ticks (assumptions `DepthAssumption`, `LatencyAssumption`, `ConfigsAssumption` of
`CaptureCore`): `TypeCorrect`, `SlotsStayInBuffer` and `CompletedWindowsInOrder`.
The last has a precondition, `PastLatency`: the samples after the trigger outnumber the
latency; `CaptureBlock_late_pretrigger.cfg` shows why.

None of these is inductive. "Completed windows are in order" says nothing of the window
being filled, from which the next completed one comes. `IInv` adds: the current
slot holds, at each offset, either stale memory or a sample of the age its offset
says, and certainly the latter for the newest `Kept` (`CurrentSlot`); the slots to
come are untouched (`FutureSlots`); the history count is bounded by what the
back-dating needs (`Filling`); once triggered, the samples left and the head
agree with the age of the matching sample (`Capturing`). The lemmas per action
(`ArmStep`, `FillStep`, `AcceptStep`, ...) rest on lemmas about modular addresses (`Written`,
`SlotOrder`, `SlotFits`) and completed windows (`NewWindowInOrder`, `OldWindowsKept`).

### The cluster around it: `CaptureBlockProofs`

For every depth, head array, set of configurations the host accepts and set of samples,
with the value or the edge block (`LatencyMatchesBlock`: the core is generated with
the latency of its block; `HeadsAssumption`: `validate_capture` arms no more windows than
the head array has entries, `control/__init__.py:254`):

- `ClusterStaysInStep`: while a capture runs a head is stored under the number of its
  window, and a tick never reaches a core that cannot use it.
- `ClusterIsSegmentedCapture`: the cluster implements `SegmentedCapture`. The clock after
  an arm pulse is its `Arm`, a clock that emits a head its `Complete`, an aborted clock its
  `Abort`; the others change nothing the host sees. Its hypothesis, that every
  configuration reaches past the latency, is what `CaptureBlock_late_pretrigger.cfg` shows to
  be needed.

The core's part is not proved again. `CaptureWindows` takes any arm, abort and tick, and is
*told* that a tick's sample is `Latency` clocks old; the cluster is one of its
environments (`Core`, an instance of `CaptureWindows` whose histories are read from the
head array), and `Recorded` shows that what it is told is true: `TickInStep` says that
a tick is held off, that its sample is as old as the block is slow, and that the edge block's
two remembered enables mean one and two clocks of history beyond
`pre_trigger_len`. So `Core!IInv`, and with it the order of every completed slot, carries
over by `CoreKept`. What remains is arithmetic: a head divided by the length of a slot is its
window (`Division`), and the window read round from it is the perfect one
(`WindowsPerfect`).

### The panel: `ControlStatusProofs`

For every set of panels (words, ticks, counter width, one clock or two) and every
latency of the crossing (`PanelsAssumption` and its like in `ControlStatus`):

- `RebaseLosesNothing`: a counter's visible value and its events in flight
  are the events since the rebase, modulo the counter. Nothing is assumed of the host's
  speed. The invariant behind it, `CountsSinceBase`, is about the core's counter, not the
  crossed one, and the theorem follows by arithmetic modulo the counter.
- `StrobesFireAsWritten` and `StickyStaysSet`, where `Spaced` holds: the host begins no
  write of a crossed panel while an earlier strobe is crossing. This is what
  `ControlStatus_fast_strobes.cfg` shows to be needed; a panel in one clock needs no spacing,
  as its crossings are wires (`WiredAtRest`).

What fires is decided clocks after the write, by a toggle, an edge detector, a delay
line and a mask that is read without a handshake; the properties say nothing of
those. `OutputsInStep` and `ClearsInStep` do: a crossing carries at most one strobe, in the
toggle or in one stage of the line; while it does, the mask it will be read with is the
mask written; the strobe owed is that one.

### The run-length cluster: `RleCaptureProofs`

For every depth, count width, set of values, cap and CYCLES width, and for the value and
the edge block (`RleDepthAssumption`, `CountMaxAssumption`, `CycleAssumption`,
`CapsAssumption`: sizes are at least one, a cap fits CYCLES):

- `KeptIsRecentHolds`: the ring decodes to the latest samples, in order and without a gap,
  and is never orphan counts only; CYCLES counts the samples and the cap bounds them.
- `PostIsCompleteHolds`: the post region decodes to the sample of every clock.
- `MarkerOnMatchHolds`: the host's marker is on a sample that met the condition.

The properties are about what a decoder makes of the lines, the core only moves pointers. What
joins them is `RingInStep`: there is a line `s` of the window that holds the current value, it is
where `run_sample` points, every line after it counts it, and the last one holds the register
`count`. So `s` is never the line that the next entry evicts - the core freezes instead
(`NoRoom`) - and the decoding of the rest does not depend on what is evicted: `DecodeTail` says
that dropping the first line of a sequence drops samples from the front of its decoding and
touches no other, as long as a sample line is left. Each action of the armed core is then a
step of the decoded ring by the sample of the clock (`ExtendOutcome`, `SpillOutcome`,
`DistinctOutcome`) or, frozen, no step at all (`FreezeOutcome`, where the ring is the run and
nothing else). `RingBound` limits what a ring can decode to, so that the history `before`, which
is cut to that length, still ends in it. `PostInStep` is the same for the linear region, which starts
with a sample line; `CountersInStep` relates both counters to the history. `MatchInStep`
says that the sample a trigger matched is as many samples from the end of the ring as the block is late:
the edge block fires one clock after the sample it matched was followed by another, and a frozen run,
to which nothing is added, consists of that value alone.

`Decode` is a recursive function, and what it computes is proved by induction over the
number of lines. The library's induction theorems take an operator as parameter, which the
provers cannot instantiate, so `Induction` states it of a set - a set of numbers that holds 0
and every successor holds all - and proves it by counting, with the pigeonhole principle
of the library's finite sets; `DecodingExists` and `DecodeIsDecoding` derive that the function defined
is one that satisfies its own recursion, and `SequenceInduction` is the same for sequences built by appending.

### The explorer: `BusExplorerProofs`

For every target, any number of slots and hosts, every timeout and use, crossed or in
one clock:

- `AnswersOwed`, of uses whose host domain is not reset: one tag bit is enough, an
  answer that is taken is that of the access in progress. The invariant (`LinkInStep`)
  says that there is at most one access between shell and target, whichever of the
  two crossings or the core holds it, and that it is the one waited for or one disowned.
- `ScanStaysCurrent`, where no use both programs the scan and resets the host's domain (a
  reset forgets the slots' enables while a read is in flight). `ScanInStep` adds to it the
  read that is still on its way.
- `CommandStaysMine`, for one task at a time (`OneTask`), across resets and timeouts; two
  tasks do take each other's completion (section 3). `TaskInStep`: what the task
  staged, what is pending and what is in service are one request.
- `ServesCommands`, for `OneTask`: the explorer implements `CommandEngine`. Every step of a
  use without resets is a step of it or a stutter (`TaskSteps`, `ServiceSteps` and their
  like): a task's
  write of COMMAND is `Fire`, the clock at which the target answers is `Access`, the one at
  which the shell takes the last answer, or gives up, is `Answer`; the scanner's accesses, abandoned
  answers and idle clocks change nothing it sees. `ServiceInStep` carries what the mapping
  needs: what was read so far for the command in service, and whose access is in progress.

### The bridge: `UsbBridgeProofs`

For any number of callers and commands, any number of transfers of each frame
and reply:

- `LinkStaysInStep`: while no transfer of a connection has failed, receives and
  replies are of the same commands in the same order, through the queue,
  the two loops, the device and its endpoint; no command waits twice.
- `AnswersAreMine`: each command is answered with its own reply, with a failure or not at
  all, across callers that give up, stops, deaths and reopenings. `Quiet` is
  assumed: nothing is flushed while `stop()` waits (section 3 says what happens otherwise).

`RepliesInStep`, that two sequences are equal, is not inductive: a transfer moves a part
of a reply, and a reply ends at its last transfer only if the parts read before it were
of the same reply. `TransfersInStep` says so, for the reader and for the writer; `Settled`
that nothing of one connection is left to the next, `AskedOnce` that an answer
cannot be another call's of the same command.

### The session: `GuiSessionProofs`

For any images, instruments (finitely many) and settings, any number of calls, faults
and transports:

- `Lasting`: a status that is not called changed was read from the gateware the
  session was opened on, and a poll that reconnected left every instrument as it was
  last told.
- `Closing`: a disconnect leaves the tree empty, whichever rebuild filled it.
- `Fitting`: what is replayed was told to the gateware it is replayed onto.

The properties speak of the moment a call ends; what makes them true is what the poll
and the user's call hold in their locals while the other one runs. `Calls`, `Polling` and
`Replaying` say for each await what is still true of what was read before it: the session a
connect opens is current until it ends and no poll of it runs yet; a poll that asks
again asks the node of the current session; a replay that met no fault and no call
goes through the dictionary in use to a node enumerated from the present gateware, and what
it has done is done. `TreeIsOwn` says that the tree holds what the current session resolved, or
a dead transport while it is rebuilt; `TreeIsOwned` that, whatever it holds, somebody is
about to close it: the session, a poll that is tearing down, or the user's call.
Both are of sessions that no earlier poll overlaps (`Untangled`).

### The group: `GroupCaptureProofs`

For any members, any finite number of clients and any calls of theirs, at the same time,
with failures anywhere (`GroupAssumption`):

- `ReadsAreAccountedHolds`: the progress counter of a member, and of the group, is open as
  many times as calls in flight are reading it, whichever way those end
  (`FetchBalanced`); a poll that begins while the group is read never reaches the link
  (`PollStaysOffTheLink`). And the invariants that the other theorems rest on, which
  compare a call at any of its steps with the members (`ReadsAreInStep`): what a poll has
  found idle still is, a readback has moved no word of a member it has yet to come to, and, if
  `use` is in `LinesHold`, all members of an orderly capture have the same fires.
- `FireFindsAllArmedHolds`: a fire finds every core ready, or just aborted, if `use` is in
  `LinesHold`.
- `PollsTellHolds`: a poll that says idle, with no other call since it began, is right about
  every member (`IdleIsRest`); the words a single reader announces stay as they are once it
  has moved one (`DenominatorFixed`).
- `CaptureIsOwnHolds`: a capture nobody else came between, of members armed at rest, shows for
  every member complete windows of the same fires, in order, if `use` is in `LinesHold`.

`GroupAssumption` asks of each use that it is a description the generator makes and calls the driver
takes (`UseOK`): members that are not empty, depths and windows of at least one, integer parameters,
and reads of windows the member has; and that `None` is no number. `LinesHold` is what the code
needs and does not check: a crossed member takes one window of a plan, and so does at least one
member on the trigger's clock, if there is any. `GroupCapture_windows` is a use outside, and
violates the property; all uses of `group_reads` are inside.

`FetchBalanced` counts what is open over all tasks, and a call that raises closes what its
`finally` clauses are about to close. So the invariant has to know, for every step of a call, which
counters it has open, and that they are those of the steps it has left: `CallsInStep` lists the
phases - arming, waiting, sizing, transferring, a member's own read - and the steps possible in each.
One lemma per step shows that the phase after it is again one of them, with the counters
moved by what was opened or closed (`Counted`); `TaskGoes` turns this into the sum over tasks
(`TaskCounts`, `BalancedNext`), which no other task's call has changed. What a call reads it was given by
a plan that was armed (`Remembered`) or that was asked for, so that its regions are ranges of the
buffer and its words are numbers (`PlannedWordsAreNat`, `PlannedBurstsAreNat`, by induction over the
regions).

`LinesInStep` is about the two ways a crossed member is known late: its ready line still says
ready after its core has taken a tick (`Stale`), or a tick is on its way. Both begin with a fire, and a fire
leaves the trigger either fired, which holds it off until its enable drops, or with a member
of one window that is not armed and keeps the enable low (`HoldsOff`). This member can be armed again
only by an access of the link, and by then every line has crossed (`Settled`).

`PollsTell` compares what a call has seen over many of its steps with what is true at its last.
`TellOK` says what is true in between. A call is `alone` until another one that is not a poll
begins, so beside it there are only polls, which change neither a core nor a counter (`CompanyOK`,
`OthersStay`). A poll has answered for exactly the members before those it has left, and
each that it found idle still is, because only an arm makes a member leave idle
(`PollsOK`, `GatewareTells`). A readback sizes all members before it reads the first: until
then no word has moved, and after that none of the members whose heads it has
yet to ask for, which are never the one it is reading (`ReadersOK`). `TellKept` goes through the
steps of a call, and `IdleIsSo` and `TotalsStay` derive the two action properties from it.

`CaptureIsOwn` compares what a read says of each member, slot by slot, with what the others
say, long after the fires. `CutsOK` adds to `TellOK` and `LinesInStep` the history that makes them
agree. While a capture is orderly - armed by one call, alone, on members at rest -
there is a sequence of fires that every core has its part of (`Session`): a core is armed or
capturing or at rest with all of it (`Cut`), or it is armed with its context in and the tick of the
only fire is on its way to it. Its windows hold those fires in slots one after the other. A
fire extends the sequence for all at once because it finds all armed (`FireCuts`), and a crossed
member at rest keeps a second one from coming (`FiresOnce`). The other half is the calls
(`OwnOK`): the one that arms has armed exactly the members before the one it is at
(`ArmedTo`), so that the session begins, empty, with its last step; the status loop knows
who is at rest (`Waited`); and a read has, of each member it is through with, the windows
its core holds (`Telling`, `Aligned`). `SlotFound` is the division by which a raw window is found in
the slot it was written to, and `ShownOnce` puts the halves together.

TLC checks these invariants in `group_reads`, as parts of `ReadsAreAccounted`. Only the
session is stated there without a quantifier over sequences: its fires are those that the first
member says it had (`FiresOf`), and the lemma `FiresAre` shows that any member would do.

### Only model-checked

- The calls of the explorer's driver; the generator; of the group, what its plans add up to
  (`PlansHold`).
- All liveness, which is out of the prover's reach, as is ENABLED.

## 5. Not modelled

- Data: which bits of a sample match, encodings of the descriptor and of frames, the text
  of generated VHDL, display.
- Reset of the panel's host side, which leaves the toggles of `interdomain_tick` in a
  state that only the library's source tells.
- The bridge's identify exchange and its access-port variant, which share the
  channel; the walk of the USB descriptors.
- The SPI transport and the adapter of the same name, the only adapter with a state
  machine in the repository (planned); the others are instances of library components.
- What a panel's control word is when the core reads it: its crossing is modelled and no
  property is asked of it.
- The clock measurer's counting, an external component; the packed buffer's memory.
- The page's resources, assets and configuration files; the waveform and console
  frontends; the commands of the command line; the build plugin.
- `poll()` of several pages at once: a page has one pusher and one user, whose calls come
  one after the other.

## 6. Plan

Done, in this order: `CaptureCore`, `CaptureBlock` with `SegmentedCapture`,
`CaptureWindowsProofs` and `CaptureBlockProofs`, the explorer with `CommandEngine`, the run-length
capture, the panel, the bridge over USB, the explorer's driver with its register
map, the group of captures with its plan, the session under the web page, the generator.

Next to model:

1. `SpiBridge`: the SPI adapter - prefetch, gathering of words, release of the select
   within a word - with the host's polling over it; what an abandoned transaction leaves behind.
2. The packed buffer as a refinement of the buffer; a session over the link that `UsbBridge` implements.

Proofs: that a journal explains the target for any number of slots; that the plans of a group
agree to half a sample (`PlansHold`).
