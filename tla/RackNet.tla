------------------------------- MODULE RackNet -------------------------------
(***************************************************************************)
(* A rack: what the parser refuses (generator/parser.py), where the host   *)
(* clock comes from (generator/communication.py), and the address map the  *)
(* backplane routes by and the descriptor publishes (generator/rack.py,    *)
(* descriptor.pkg.vhd), as the host walks it (enumerator.py).              *)
(*                                                                         *)
(* A rack is [package, entity, mode, export, instruments]; export is <<>>  *)
(* or <<instance, clock>>, and instruments a sequence.                     *)
(***************************************************************************)
EXTENDS SideInstruments

-----------------------------------------------------------------------------
(* What an instrument's plugin answers: instruments.py.                     *)

InstrumentAccepted(i) ==
  CASE i.tag = "la"       -> AnalyzerAccepted(i) /\ LayoutAccepted(i)
    [] i.tag = "panel"    -> PanelAccepted(i)
    [] i.tag = "explorer" -> TRUE
    [] i.tag = "measurer" -> MeasurerAccepted(i)

InstrumentPorts(i) ==
  CASE i.tag = "la"       -> AnalyzerPorts(i)
    [] i.tag = "panel"    -> PanelPorts(i)
    [] i.tag = "explorer" -> ExplorerPorts(i)
    [] i.tag = "measurer" -> MeasurerPorts(i)

Exports(i) ==
  CASE i.tag = "la"       -> AnalyzerClocks(i)
    [] i.tag = "measurer" -> {Export(i.reference, Port(i.name, i.reference), i.hz)}
    [] OTHER -> IF OwnsClock(i) THEN {Export(i.clock, OwnClockPort(i), 0)} ELSE {}

InstrumentParts(i, ridden) ==
  CASE i.tag = "la"       -> AnalyzerParts(i, ridden)
    [] i.tag = "panel"    -> PanelParts(i, ridden)
    [] i.tag = "explorer" -> ExplorerParts(i, ridden)
    [] i.tag = "measurer" -> MeasurerParts(i)

InstrumentDeps(i, ridden) ==
  CASE i.tag = "la"       -> AnalyzerDeps(i, ridden)
    [] i.tag = "panel"    -> PanelDeps(i, ridden)
    [] i.tag = "explorer" -> ExplorerDeps(i, ridden)
    [] i.tag = "measurer" -> {"gatecap.clock_measurer"}

\* Bytes of address space, log2, as the envelope publishes it.
SizeL2(i, streams) ==
  CASE i.tag = "la"       -> MapSizeL2(i, streams)
    [] i.tag = "panel"    -> PanelSizeL2
    [] i.tag = "explorer" -> ExplorerSizeL2
    [] i.tag = "measurer" -> MeasurerSizeL2

\* The register files inside it, or none but its own.
Children(i, streams) ==
  IF i.tag = "la" THEN AnalyzerChildren(i, streams)
  ELSE IF i.tag = "measurer" THEN {}
  ELSE {[name |-> IF i.tag = "panel" THEN <<"registers">> ELSE <<"engine">>,
         offset |-> 0, buffer |-> <<>>, trigger |-> <<>>]}

-----------------------------------------------------------------------------
(* The transport and the host clock: communication.py.                      *)

\* Ports of each mode; only the packaged IP cares about their types.
CommunicationPorts(mode) ==
  CASE mode = "axi4_stream" -> << <<"rx", "i">>, <<"rx", "o">>, <<"tx", "o">>, <<"tx", "i">> >>
    [] mode = "apb"         -> << <<"apb", "i">>, <<"apb", "o">> >>
    [] mode = "jtag"        -> << <<"chip", "tck", "i">>, <<"chip", "tms", "i">>,
                                  <<"chip", "tdi", "i">>, <<"chip", "tdo", "o">> >>
    [] mode = "serial_hdlc" -> << <<"uart", "rx", "i">>, <<"uart", "tx", "o">> >>
    [] mode = "usb"         -> << <<"usb", "o">>, <<"usb", "i">>, <<"online", "o">> >>
    [] mode \in {"spi", "swd"} -> << <<mode, "i">>, <<mode, "o">> >>

Rates == {48, 60}

Instruments(r) == ToSet(r.instruments)
Named(r, name) == CHOOSE i \in Instruments(r) : i.name = name

Exported(r, key) == {e \in Exports(Named(r, key[1])) : e.name = key[2]}

\* The rack's own ports, or the reset alone when it rides an exported clock.
HostClock(r) ==
  IF r.export = <<>>
  THEN [clock |-> <<"clock", "i">>, hz |-> 0,
        ports |-> << <<"clock", "i">>, <<"reset", "n", "i">> >>]
  ELSE LET e == CHOOSE x \in Exported(r, r.export) : TRUE
       IN  [clock |-> e.port, hz |-> e.hz, ports |-> << <<"reset", "n", "i">> >>]
HostReset == <<"reset", "n", "i">>

\* The exported clock of this instance the rack rides, which its entity then
\* reads back on its own clock input.
NoClock == <<"none">>
RiddenBy(r, i) ==
  IF r.export # <<>> /\ r.export[1] = i.name THEN r.export[2] ELSE NoClock

-----------------------------------------------------------------------------
(* What the parser refuses: parser.py.                                      *)

RackPorts(r) ==
  HostClock(r).ports \o CommunicationPorts(r.mode)
  \o FlattenSeq([k \in DOMAIN r.instruments |-> InstrumentPorts(r.instruments[k])])

ExportKnown(r) ==
  r.export # <<>> =>
    /\ \E i \in Instruments(r) : i.name = r.export[1]
    /\ Exported(r, r.export) # {}

PortsClaimedOnce(r) == IsInjective(RackPorts(r))

Accepted(r) ==
  /\ r.package # r.entity
  /\ r.instruments # <<>>
  /\ \A j, k \in DOMAIN r.instruments :
       r.instruments[j].name = r.instruments[k].name => j = k
  /\ \A i \in Instruments(r) : InstrumentAccepted(i)
  /\ ExportKnown(r)
  /\ PortsClaimedOnce(r)

-----------------------------------------------------------------------------
(* Assembly: rack.py.                                                       *)

MaxInstruments == 15

\* What only the assembled context tells: the router's size, and the rate
\* of the clock a usb device rides.
Assembles(r) ==
  /\ Len(r.instruments) <= MaxInstruments
  /\ (r.mode = "usb" /\ HostClock(r).hz # 0) => HostClock(r).hz \in Rates

\* The backplane binds the entity's clock input to the host clock, and every
\* other port to the rack's port of the same name.
Physical(r, clock) == IF clock = Host.clock THEN HostClock(r).clock ELSE clock

\* Libraries: the instruments' as the description tells them, without the
\* ridden clock.
ManifestDeps(r) == UNION {InstrumentDeps(i, NoClock) : i \in Instruments(r)}

RomSizeL2 == 12
MinAddressWidth == 24

\* Segments are placed above the ROM by ascending size, the first described of
\* equals first.
Placement(sizes) ==
  SetToSortSeq(DOMAIN sizes, LAMBDA a, b :
    sizes[a] < sizes[b] \/ (sizes[a] = sizes[b] /\ a < b))

\* Every one is aligned on its own size.
Aligned(top, sizeL2) == CeilDiv(top, 2^sizeL2) * 2^sizeL2

SegmentBases(sizes) ==
  FoldLeft(LAMBDA acc, k :
             LET at == Aligned(acc.top, sizes[k])
             IN  [base |-> [acc.base EXCEPT ![k] = at], top |-> at + 2^sizes[k]],
           [base |-> [k \in DOMAIN sizes |-> 0], top |-> 2^RomSizeL2],
           Placement(sizes)).base

Sizes(r, streams) ==
  [k \in DOMAIN r.instruments |-> SizeL2(r.instruments[k], streams)]

SegmentExtent(sizes, bases) ==
  Max({2^RomSizeL2} \union {bases[k] + 2^sizes[k] : k \in DOMAIN sizes})

\* The completer's address bits: the whole map, and never fewer than usual.
AddressWidth(extent) == Max({MinAddressWidth, RoundUpL2(extent)})

\* The bits above a segment's size are its base's own.
SegmentPrefix(width, base, sizeL2) ==
  Prefix(sizeL2, width, (base \div 2^sizeL2) % 2^(width - sizeL2))

\* The elaborated map: the ROM first, then the instruments.
Space(r, streams) ==
  LET sizes == Sizes(r, streams)
      bases == SegmentBases(sizes)
      width == AddressWidth(SegmentExtent(sizes, bases))
  IN  [streams |-> streams, bases |-> bases,
       table |-> <<SegmentPrefix(width, 0, RomSizeL2)>>
                 \o [k \in DOMAIN sizes |-> SegmentPrefix(width, bases[k], sizes[k])]]

Elaborates(r, streams) ==
  \A i \in Instruments(r) : i.tag = "la" => AnalyzerElaborates(i, streams)

\* Where an access goes: the segments answering to it and, in an analyzer,
\* the blocks.
Routed(space, address) == {k \in DOMAIN space.table : Matches(space.table[k], address)}
Dispatched(i, streams, address) ==
  {key \in ToSet(Blocks(i)) : Matches(BlockPrefix(i, key, streams), address)}

-----------------------------------------------------------------------------
(* The host's tree: enumerator.py.                                          *)

\* One node per instrument, one per child below it at the sum of the bases.
Nodes(r, space) ==
  UNION {LET i == r.instruments[k]
             at == space.bases[k]
         IN  {[instrument |-> k, block |-> <<>>, base |-> at]}
             \union {[instrument |-> k, block |-> c.name, base |-> at + c.offset] :
                       c \in Children(i, space.streams)} :
           k \in DOMAIN r.instruments}

=============================================================================
