--------------------------- MODULE SideInstruments ---------------------------
(***************************************************************************)
(* The generators of the control/status panel, the bus explorer and the    *)
(* clock measurer: their ports, their two halves and the crossings between *)
(* them.                                                                   *)
(*                                                                         *)
(* A panel is [name, tag, clock, controls, statuses, tickOut, tickIn]:     *)
(* clock is <<>> when it runs on the rack's, the levels are sequences of   *)
(* names, the tick words sequences of sequences of names.  An explorer is  *)
(* [name, tag, clock].  A measurer is [name, tag, reference, hz, clocks,   *)
(* maxRateBits, updateHzL2].                                               *)
(***************************************************************************)
EXTENDS AnalyzerNet

-----------------------------------------------------------------------------
(* Both panel and explorer own a clock and a reset, or neither.             *)

OwnsClock(i) == i.clock # <<>>
OwnClockPort(i) == Port(i.name, i.clock)
OwnResetPort(i) == Port(i.name, <<"reset", "n">>)

\* The domain of the far half: the host's when it names no clock, its own
\* port's otherwise, and the entity's clock input when the rack rides it.
FarDomain(i, ridden) ==
  IF ~OwnsClock(i) THEN Host
  ELSE ClockDomain(IF i.clock # ridden THEN OwnClockPort(i) ELSE Host.clock,
                   OwnResetPort(i))

ClockPorts(i) ==
  IF OwnsClock(i) THEN <<OwnClockPort(i), OwnResetPort(i)>> ELSE <<>>

-----------------------------------------------------------------------------
(* The control/status panel.                                                *)

Ticks(words) == FlattenSeq(words)
PanelNames(p) == p.controls \o p.statuses \o Ticks(p.tickOut) \o Ticks(p.tickIn)

\* Each signal is named once, and the registers fit the regions of the map.
RegionWords == 64
PanelAccepted(p) ==
  /\ PanelNames(p) # <<>>
  /\ IsInjective(PanelNames(p))
  /\ \A w \in ToSet(p.tickOut) \union ToSet(p.tickIn) : Len(w) \in 1..32
  /\ Len(p.tickOut) + 2 * Len(p.tickIn) <= RegionWords
  /\ 2 + Len(p.tickIn) + Len(p.statuses) + Len(Ticks(p.tickIn)) <= RegionWords
  /\ Len(p.controls) <= RegionWords

OutPort(p, name) == p.name \o name \o <<"o">>

PanelPorts(p) ==
  ClockPorts(p)
  \o [k \in DOMAIN p.controls |-> OutPort(p, p.controls[k])]
  \o [k \in DOMAIN p.statuses |-> Port(p.name, p.statuses[k])]
  \o [k \in DOMAIN Ticks(p.tickOut) |-> OutPort(p, Ticks(p.tickOut)[k])]
  \o [k \in DOMAIN Ticks(p.tickIn) |-> Port(p.name, Ticks(p.tickIn)[k])]

Net(words) == words \o <<"s">>

PanelDown(p, ridden) == Cdc(Host, FarDomain(p, ridden))
PanelUp(p, ridden) == Cdc(FarDomain(p, ridden), Host)

\* The two strobes, the only events of the inner contract.
Strobe(p, ridden, name) ==
  Tick(PanelDown(p, ridden), Net(<<"core", name, "strobe">>),
       Net(<<"shell", name, "strobe">>))

\* The inner contract, crossed: levels and sticky bits as independent bits,
\* the masks as static words the strobes follow, the counters gray-coded.
PanelCrossings(p, ridden) ==
  LET down == PanelDown(p, ridden)
      up == PanelUp(p, ridden)
  IN  PanelWords(down, Net(<<"shell", "control">>), Net(<<"core", "control">>),
                 Len(p.controls), "reg")
      \union PanelWords(up, Net(<<"core", "status", "out">>),
                        Net(<<"shell", "status">>), Len(p.statuses), "reg")
      \union PanelWords(down, Net(<<"shell", "tick", "out", "mask">>),
                        Net(<<"core", "tick", "out", "mask">>), Len(p.tickOut), "static")
      \union PanelWords(down, Net(<<"shell", "sticky", "clear">>),
                        Net(<<"core", "sticky", "clear">>), Len(p.tickIn), "static")
      \union PanelWords(up, Net(<<"core", "sticky">>), Net(<<"shell", "sticky">>),
                        Len(p.tickIn), "reg")
      \union PanelCounters(up, Net(<<"core", "counter">>), Net(<<"shell", "counter">>),
                           Len(Ticks(p.tickIn)))

\* A word vector of no element reads and drives nothing.
Some(count, names) == IF count = 0 THEN {} ELSE names

PanelShell(p, ridden) ==
  Part(<<"shell">>, <<"gatecap.control_status", "control_status_shell">>, "block",
       {In(n, Host.clock) : n \in
          Some(Len(p.statuses), {Net(<<"shell", "status">>)})
          \union Some(Len(p.tickIn), {Net(<<"shell", "sticky">>), Net(<<"shell", "counter">>)})},
       {Out(Net(<<"shell", "control">>), Host.clock, "bits"),
        Out(Net(<<"shell", "tick", "out", "mask">>), Host.clock, "config"),
        Out(Net(<<"shell", "sticky", "clear">>), Host.clock, "config"),
        Out(Net(<<"shell", "tick_out", "strobe">>), Host.clock, "pulse"),
        Out(Net(<<"shell", "sticky_clear", "strobe">>), Host.clock, "pulse")})

PanelCore(p, ridden) ==
  LET clock == FarDomain(p, ridden).clock IN
  Part(<<"core">>, <<"gatecap.control_status", "control_status_core">>, "block",
       {In(n, clock) : n \in
          {Strobe(p, ridden, "tick_out").net, Strobe(p, ridden, "sticky_clear").net}
          \union Some(Len(p.statuses), {Net(<<"core", "status", "in">>)})
          \union Some(Len(p.tickOut), {Net(<<"core", "tick", "out", "mask">>)})
          \union Some(Len(p.tickIn), {Net(<<"core", "sticky", "clear">>),
                                      Net(<<"core", "tick", "in">>)})},
       {Out(Net(<<"core", "status", "out">>), clock, "bits"),
        Out(Net(<<"core", "tick", "out">>), clock, "pulse"),
        Out(Net(<<"core", "sticky">>), clock, "bits"),
        Out(Net(<<"core", "counter">>), clock, "counter")})

\* The user's side of the panel, sliced to the declared widths.
PanelBoundary(p, ridden) ==
  LET clock == FarDomain(p, ridden).clock IN
  {Wire(OutPort(p, n), {Net(<<"core", "control">>)}, OutPort(p, n), clock) :
     n \in ToSet(p.controls)}
  \union {Wire(OutPort(p, n), {Net(<<"core", "tick", "out">>)}, OutPort(p, n), clock) :
            n \in ToSet(Ticks(p.tickOut))}
  \union Some(Len(p.statuses),
              {Wire(<<"status">>, {Port(p.name, n) : n \in ToSet(p.statuses)},
                    Net(<<"core", "status", "in">>), clock)})
  \union Some(Len(p.tickIn),
              {Wire(<<"tick_in">>, {Port(p.name, n) : n \in ToSet(Ticks(p.tickIn))},
                    Net(<<"core", "tick", "in">>), clock)})

PanelParts(p, ridden) ==
  {PanelShell(p, ridden), PanelCore(p, ridden)}
  \union Strobe(p, ridden, "tick_out").parts \union Strobe(p, ridden, "sticky_clear").parts
  \union PanelCrossings(p, ridden) \union PanelBoundary(p, ridden)

PanelDeps(p, ridden) ==
  {"gatecap.control_status", "gatecap.descriptor"}
  \union PairDeps(PanelDown(p, ridden)) \union PairDeps(PanelUp(p, ridden))

PanelSizeL2 == 10

-----------------------------------------------------------------------------
(* The bus explorer.                                                        *)

ExplorerPorts(x) ==
  ClockPorts(x) \o <<x.name \o <<"target", "o">>, x.name \o <<"target", "i">> >>

\* One end of each stream.
Stream(side, what) ==
  [data |-> Net(<<side, what>>), ready |-> Net(<<side, what, "ready">>)]

ExplorerCrossings(x, ridden) ==
  StreamCdc(Cdc(Host, FarDomain(x, ridden)), <<"command">>,
            Stream("shell", "command"), Stream("core", "command"))
  \union StreamCdc(Cdc(FarDomain(x, ridden), Host), <<"response">>,
                   Stream("core", "response"), Stream("shell", "response"))

ExplorerShell(x, ridden) ==
  Part(<<"shell">>, <<"gatecap.bus_explorer", "bus_explorer_shell">>, "block",
       {In(Stream("shell", "command").ready, Host.clock),
        In(Stream("shell", "response").data, Host.clock)},
       {Out(Stream("shell", "command").data, Host.clock, "stream"),
        Out(Stream("shell", "response").ready, Host.clock, "handshake")})

ExplorerCore(x, ridden) ==
  LET clock == FarDomain(x, ridden).clock IN
  Part(<<"core">>, <<"gatecap.bus_explorer", "bus_explorer_core">>, "block",
       {In(Stream("core", "command").data, clock),
        In(Stream("core", "response").ready, clock),
        In(x.name \o <<"target", "i">>, clock)},
       {Out(Stream("core", "command").ready, clock, "handshake"),
        Out(Stream("core", "response").data, clock, "stream"),
        Out(x.name \o <<"target", "o">>, clock, "bus")})

ExplorerParts(x, ridden) ==
  {ExplorerShell(x, ridden), ExplorerCore(x, ridden)} \union ExplorerCrossings(x, ridden)

ExplorerDeps(x, ridden) ==
  {"gatecap.bus_explorer", "gatecap.descriptor"} \union PairDeps(Cdc(Host, FarDomain(x, ridden)))

\* What the register map spans on a four-byte bus.
ExplorerSizeL2 == 10

-----------------------------------------------------------------------------
(* The clock measurer.                                                      *)

MeasurerAccepted(m) ==
  /\ m.clocks # <<>>
  /\ IsInjective(m.clocks)
  /\ m.reference \notin ToSet(m.clocks)
  /\ m.maxRateBits \in 1..32
  /\ m.maxRateBits > m.updateHzL2
  /\ m.hz \div 2^m.updateHzL2 >= 2

MeasurerPorts(m) ==
  <<Port(m.name, m.reference)>>
  \o [k \in DOMAIN m.clocks |-> Port(m.name, m.clocks[k])]

\* The block counts its clocks itself: they are associated one by one.
MeasurerParts(m) ==
  {Part(m.name \o <<"measurer">>, <<"gatecap.clock_measurer", "clock_rate_block">>, "block",
        {In(port, port) : port \in ToSet(MeasurerPorts(m))}, {})}

MeasurerSizeL2 == 10

=============================================================================
