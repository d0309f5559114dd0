---------------------------- MODULE GeneratedRack ----------------------------
(***************************************************************************)
(* From a description to a rack a host walks: `gatecap generate` parses,   *)
(* assembles and perhaps packages it (cli.py), a design elaborates it with *)
(* the streams it probes, and the host enumerates it.                      *)
(***************************************************************************)
EXTENDS VivadoWrapper

CONSTANTS Descriptions,  \* what a user may write
          StreamWidths   \* bits the packers answer for a probed stream

VARIABLES rack,     \* the description
          phase,    \* how far it went
          netlist,  \* the parts of each instrument, once assembled
          wrapper,  \* the IP's boundary, once packaged
          space,    \* the address map, once elaborated
          tree      \* the nodes the host enumerated

vars == <<rack, phase, netlist, wrapper, space, tree>>

None == [none |-> TRUE]

Init ==
  /\ rack \in Descriptions
  /\ phase = "written"
  /\ netlist = <<>> /\ wrapper = None /\ space = None
  /\ tree = {}

Parse ==
  /\ phase = "written"
  /\ phase' = IF Accepted(rack) THEN "parsed" ELSE "refused"
  /\ UNCHANGED <<rack, netlist, wrapper, space, tree>>

Assemble ==
  /\ phase = "parsed"
  /\ IF Assembles(rack)
     THEN /\ phase' = "assembled"
          /\ netlist' = [k \in DOMAIN rack.instruments |->
               InstrumentParts(rack.instruments[k], RiddenBy(rack, rack.instruments[k]))]
     ELSE phase' = "refused" /\ UNCHANGED netlist
  /\ UNCHANGED <<rack, wrapper, space, tree>>

\* The --vivado-ip option: the topcell besides the rack.
Wrap ==
  /\ phase = "assembled" /\ wrapper = None
  /\ IF Packages(rack)
     THEN wrapper' = Wrapper(rack) /\ UNCHANGED phase
     ELSE phase' = "refused" /\ UNCHANGED wrapper
  /\ UNCHANGED <<rack, netlist, space, tree>>

\* The design fixes what a generic dimensions.
Elaborate(streams) ==
  /\ phase = "assembled"
  /\ IF Elaborates(rack, streams)
     THEN phase' = "elaborated" /\ space' = Space(rack, streams)
     ELSE phase' = "refused" /\ UNCHANGED space
  /\ UNCHANGED <<rack, netlist, wrapper, tree>>

Enumerate ==
  /\ phase = "elaborated"
  /\ phase' = "enumerated"
  /\ tree' = Nodes(rack, space)
  /\ UNCHANGED <<rack, netlist, wrapper, space>>

Finished == phase \in {"refused", "enumerated"} /\ UNCHANGED vars

Next ==
  \/ Parse \/ Assemble \/ Wrap \/ Enumerate \/ Finished
  \/ \E streams \in StreamWidths : Elaborate(streams)

Spec == Init /\ [][Next]_vars

-----------------------------------------------------------------------------
(* The netlist of one instance, closed by the design around it.             *)

Made == phase = "assembled"

PartsIn(i) == netlist[CHOOSE k \in DOMAIN netlist : rack.instruments[k] = i]

\* The design drives what it lends on the clock it lends it with: a probe on
\* its domain's, a panel's or a bus's inputs on its own or on the host's.
OwnPhysical(i) == IF OwnsClock(i) THEN OwnClockPort(i) ELSE HostClock(rack).clock
Lent(i) ==
  CASE i.tag = "la" ->
         UNION {{Out(ProbePort(i, d, p), ClockPort(i, d), "lent") : p \in Probes(d)} :
                  d \in Domains(i)}
    [] i.tag = "measurer" -> {Out(p, p, "lent") : p \in ToSet(MeasurerPorts(i))}
    [] OTHER -> {Out(p, OwnPhysical(i), "lent") :
                   p \in {x \in ToSet(InstrumentPorts(i)) : Last(x) = "i"}}

Driven(i) == UNION {p.outs : p \in PartsIn(i)}
Drivers(i, net) == {o \in Driven(i) \union Lent(i) : o.net = net}
DrivingParts(i, net) == {p \in PartsIn(i) : \E o \in p.outs : o.net = net}
OneClock(a, b) == Physical(rack, a.clock) = Physical(rack, b.clock)

\* Backwards and forwards across whatever is no block.
RECURSIVE Sources(_, _)
Sources(i, net) ==
  UNION {IF p.how = "block" THEN {p} ELSE UNION {Sources(i, n.net) : n \in p.ins} :
           p \in DrivingParts(i, net)}

Analysers == Analyzers(rack)
CoreLabel(d) == Signal(d, <<"core">>)
TriggerLabel(h) == Signal(h, <<"trigger">>)
PartOf(i, label) == CHOOSE p \in PartsIn(i) : p.label = label /\ p.how = "block"

\* The trigger blocks whose tick reaches a domain's core, the cores whose
\* ready reaches a trigger block's enable.
Fires(la, d) == {h \in TriggerHosts(la) :
  \E n \in PartOf(la, CoreLabel(d)).ins :
    PartOf(la, TriggerLabel(h)) \in Sources(la, n.net)}
Gates(la, h) == {d \in Capturing(la) :
  \E n \in PartOf(la, TriggerLabel(h)).ins :
    PartOf(la, CoreLabel(d)) \in Sources(la, n.net)}

-----------------------------------------------------------------------------
(* Properties.                                                              *)

TypeOK ==
  /\ rack \in Descriptions
  /\ phase \in {"written", "parsed", "assembled", "elaborated", "enumerated", "refused"}
  /\ wrapper # None => phase \notin {"written", "parsed"}
  /\ netlist # <<>> => phase \notin {"written", "parsed"}
  /\ (space # None) = (phase \in {"elaborated", "enumerated"})
  /\ tree # {} <=> phase = "enumerated"

\* Whatever a part of an instrument samples has one driver, and that driver
\* runs on the very clock it is sampled with, whichever clock the rack rides:
\* nothing is read across two domains but through a crossing.
ReadsInTheirDomain ==
  Made => \A i \in Instruments(rack) : \A p \in PartsIn(i) : \A n \in p.ins :
    /\ Cardinality(Drivers(i, n.net)) = 1
    /\ \A o \in Drivers(i, n.net) : OneClock(o, n)

\* A crossing stands only between two clocks, and carries what its kind
\* carries; a word held for a tick to fetch goes to who is told by the tick. A
\* trigger block, itself on two clocks, is told to retime exactly when they
\* differ.
CrossingsFit ==
  Made =>
  /\ \A la \in Analysers : \A h \in TriggerHosts(la) :
       Async(la, h, RiddenBy(rack, la)) = (ClockPort(la, h) # HostClock(rack).clock)
  /\ \A i \in Instruments(rack) : \A p \in {x \in PartsIn(i) : Crossing(x)} :
    \A n \in p.ins : \A o \in Drivers(i, n.net) : \A out \in p.outs :
      /\ ~OneClock(n, out) \/ p.how = "fifo"
      /\ o.nature \in Carries(p.how)
      /\ o.nature = "held" =>
           \A reader \in {x \in PartsIn(i) : \E m \in x.ins : m.net = out.net} :
             \E m \in reader.ins : \E t \in DrivingParts(i, m.net) : t.how = "tick"

\* A core is fired by one trigger, and the latency it is told to compensate
\* is that of the path the tick takes: its block's kind, and a crossing when
\* the tick goes through one.
LatencyIsPath ==
  Made => \A la \in Analysers : \A d \in Capturing(la) :
    /\ Cardinality(Fires(la, d)) = 1
    /\ \A h \in Fires(la, d) :
         LET ticked == \E n \in PartOf(la, CoreLabel(d)).ins :
               \E p \in DrivingParts(la, n.net) :
                 p.how = "tick" /\ PartOf(la, TriggerLabel(h)) \in Sources(la, n.net)
         IN  /\ LatencyConstants(la, d) =
                  {IF PartOf(la, TriggerLabel(h)).unit[2] = "trigger_control_edge"
                   THEN "edge" ELSE "value"} \union (IF ticked THEN {"tick"} ELSE {})
             /\ ticked => TickConstantDeclared(la, RiddenBy(rack, la))

\* A trigger waits for the very cores it fires: one that fires a core it did
\* not wait for starts it before it holds its pre-trigger samples.
EnableGathersReadies ==
  Made => \A la \in Analysers : \A h \in TriggerHosts(la) :
    Gates(la, h) = {d \in Capturing(la) : h \in Fires(la, d)}

\* Every file names the libraries of the units it instantiates, and so does
\* the rack's manifest.
DependenciesDeclared ==
  Made => \A i \in Instruments(rack) : \A p \in {x \in PartsIn(i) : x.unit # Nothing} :
    p.unit[1] \in InstrumentDeps(i, RiddenBy(rack, i)) \intersect ManifestDeps(rack)

\* A word the host accesses through a node reaches the register file of that
\* very node, over the whole of its extent: two routing tables and the
\* published offsets agree.
Extent(i, block) ==
  IF i.tag # "la" THEN SizeL2(i, space.streams)
  ELSE IF block[2] = "buffer"
  THEN BufferSizeL2(CHOOSE d \in Domains(i) : d.name = block[1], space.streams)
  ELSE 12
HostReachesBlock ==
  \A node \in tree :
    LET i == rack.instruments[node.instrument] IN
    (node.block # <<>> \/ i.tag = "measurer") =>
      \A word \in {0, 2^Extent(i, node.block) - 4} :
        /\ Routed(space, node.base + word) = {node.instrument + 1}
        /\ i.tag = "la" => Dispatched(i, space.streams, node.base + word) = {node.block}

\* A control names the trace buffer its core writes and the trigger that
\* fires it: the host arms, reads back and configures by those names alone.
PublishedIsWired ==
  phase = "elaborated" => \A la \in Analysers :
    \A c \in {x \in Children(la, space.streams) : x.name[2] = "control"} :
      LET d == CHOOSE x \in Capturing(la) : x.name = c.name[1]
          named == {x.name : x \in Children(la, space.streams)}
      IN  /\ c.name \in ControlNames(la)
          /\ {c.buffer, c.trigger} \subseteq named
          /\ c.trigger \in {<<h.name, "trigger">> : h \in Fires(la, d)}
          /\ \A n \in PartOf(la, Signal(CHOOSE b \in Capturing(la) : b.name = c.buffer[1],
                                        <<"buffer">>)).ins :
               Sources(la, n.net) = {PartOf(la, CoreLabel(d))}

\* Every port of the rack is on the boundary once: a pin is shared by the
\* rack's reset and the ridden domain's alone; a clock pin names the very pin
\* that resets what it clocks, and the very buses declared on it.
ClockedHalves(i) ==
  IF i.tag = "la" THEN {<<ClockPort(i, d), ResetPort(i, d)>> : d \in Domains(i)}
  ELSE IF i.tag = "measurer" \/ ~OwnsClock(i) THEN {}
  ELSE {<<OwnClockPort(i), OwnResetPort(i)>>}
PinsCoverThePorts ==
  wrapper # None =>
    LET halves == {<<HostClock(rack).clock, HostReset>>}
                  \union UNION {ClockedHalves(i) : i \in Instruments(rack)}
        bound == wrapper.bindings
        plain == {p \in DOMAIN bound : p \notin Claimed(rack) \union Unbound(rack)}
    IN  /\ DOMAIN bound = ToSet(RackPorts(rack))
        /\ \A p, q \in plain : (p # q /\ bound[p] = bound[q]) =>
             \E h, k \in halves : h[1] = k[1] /\ {p, q} = {h[2], k[2]}
        /\ \A h \in halves : \E c \in wrapper.clocks :
             c.port = h[1] /\ c.pin = bound[h[1]] /\ c.reset = bound[h[2]]
        /\ \A b \in {x \in DeclaredBuses(rack) : x.clock # <<>>} :
             /\ {c.port : c \in {x \in wrapper.clocks : b.name \in x.buses}} = {b.clock}
             /\ \A p \in ToSet(b.ports) : bound[p] = b.name

\* "A bus an instrument rides the host clock with names no clock of its own;
\* the host's is the one it runs on" (vivado.py:680-681): such a bus is
\* associated with the pin of the clock the rack runs on.
HostBusesRideTheHostClock ==
  wrapper # None =>
    \A b \in {x \in DeclaredBuses(rack) : x.clock = <<>>} :
      {c.port : c \in {x \in wrapper.clocks : b.name \in x.buses}} = {HostClock(rack).clock}

\* What is made of a description is whole: no stage is skipped, no library is
\* missing, no port is without a pin.
RackIsWhole == TypeOK /\ DependenciesDeclared /\ PinsCoverThePorts

\* No net is read on a clock it is not driven on, but through a crossing that
\* carries what it is.
ClocksAreCrossed == ReadsInTheirDomain /\ CrossingsFit

\* A trigger's path, its latency and its enable are of the same cores.
TriggersAgree == LatencyIsPath /\ EnableGathersReadies

\* What is published is what was wired, where the host reaches it.
HostFindsBlocks == HostReachesBlock /\ PublishedIsWired
=============================================================================
