---------------------------- MODULE VivadoWrapper ----------------------------
(***************************************************************************)
(* The rack as a Vivado IP (generator/vivado.py): which pins its boundary  *)
(* carries, which clock and reset each is, and which buses a clock pin     *)
(* says it clocks.                                                         *)
(***************************************************************************)
EXTENDS RackNet

\* A boundary name: a clock's or reset's own, without its direction.
BoundaryName(port) == IF Last(port) \in {"i", "o"} THEN Front(port) ELSE port

ClockInterface(name, port, hz, reset) ==
  [name |-> name, port |-> port, hz |-> hz, reset |-> reset]
ResetInterface(name, ports) == [name |-> name, ports |-> ports]
\* clock is <<>> for the host's.
BusInterface(name, ports, clock) == [name |-> name, ports |-> ports, clock |-> clock]

ClockOf(port, hz, reset) == ClockInterface(BoundaryName(port), port, hz, reset)
ResetOf(port) == ResetInterface(BoundaryName(port), <<port>>)

-----------------------------------------------------------------------------
(* What the transport and the instruments declare.                          *)

InstrumentClocks(i) ==
  CASE i.tag = "la" ->
         [k \in DOMAIN i.domains |->
            LET d == i.domains[k] IN ClockOf(ClockPort(i, d), d.hz, ResetPort(i, d))]
    [] i.tag = "measurer" ->
         <<ClockOf(Port(i.name, i.reference), i.hz, <<>>)>>
         \o [k \in DOMAIN i.clocks |-> ClockOf(Port(i.name, i.clocks[k]), 0, <<>>)]
    [] OTHER -> IF OwnsClock(i) THEN <<ClockOf(OwnClockPort(i), 0, OwnResetPort(i))>>
                ELSE <<>>

InstrumentResets(i) ==
  CASE i.tag = "la"       -> [k \in DOMAIN i.domains |-> ResetOf(ResetPort(i, i.domains[k]))]
    [] i.tag = "measurer" -> <<>>
    [] OTHER -> IF OwnsClock(i) THEN <<ResetOf(OwnResetPort(i))>> ELSE <<>>

\* A probed stream runs on the clock it is sampled with; an explorer's target
\* bus on its own clock, when it has one.
InstrumentBuses(i) ==
  CASE i.tag = "la" ->
         UNION {{BusInterface(BoundaryName(ProbePort(i, d, p)), <<ProbePort(i, d, p)>>,
                              ClockPort(i, d)) :
                   p \in {x \in Probes(d) : x.tag = "stream"}} : d \in Domains(i)}
    [] i.tag = "explorer" ->
         LET target == i.name \o <<"target">>
         IN  {BusInterface(target, <<target \o <<"o">>, target \o <<"i">> >>,
                           IF OwnsClock(i) THEN OwnClockPort(i) ELSE <<>>)}
    [] OTHER -> {}

CommunicationBuses(r) ==
  LET host == HostClock(r).clock IN
  CASE r.mode = "axi4_stream" ->
         {BusInterface(<<"s", "axis">>, << <<"rx", "i">>, <<"rx", "o">> >>, host),
          BusInterface(<<"m", "axis">>, << <<"tx", "o">>, <<"tx", "i">> >>, host)}
    [] r.mode = "apb" ->
         {BusInterface(<<"s", "apb">>, << <<"apb", "i">>, <<"apb", "o">> >>, host)}
    [] OTHER -> {}

\* The TAP reaches its primitive inside the fabric.
Unbound(r) == IF r.mode = "jtag" THEN ToSet(CommunicationPorts("jtag")) ELSE {}

DeclaredClocks(r) ==
  FlattenSeq([k \in DOMAIN r.instruments |-> InstrumentClocks(r.instruments[k])])
DeclaredResets(r) ==
  FlattenSeq([k \in DOMAIN r.instruments |-> InstrumentResets(r.instruments[k])])
DeclaredBuses(r) ==
  CommunicationBuses(r) \union UNION {InstrumentBuses(i) : i \in Instruments(r)}

-----------------------------------------------------------------------------
(* The host clock folded into the domain it rides.                          *)

Aclk == <<"aclk">>
Aresetn == <<"aresetn">>

RiddenClock(r) == CHOOSE c \in ToSet(DeclaredClocks(r)) : c.port = HostClock(r).clock

\* A pin of its own in front when the rack has its own clock; the ridden
\* clock's pin, renamed where it stands, when it rides one.
Clocks(r) ==
  IF r.export = <<>>
  THEN <<ClockInterface(Aclk, HostClock(r).clock, HostClock(r).hz, HostReset)>>
       \o DeclaredClocks(r)
  ELSE [k \in DOMAIN DeclaredClocks(r) |->
          LET c == DeclaredClocks(r)[k]
          IN  IF c.port = HostClock(r).clock
              THEN ClockInterface(Aclk, c.port, c.hz, HostReset) ELSE c]

\* The ridden domain's reset left a pin of its own.
MergesResetNever(r, reset) == FALSE

\* The rack's reset and the ridden domain's are one pin, when it has one.
MergesReset(r, reset) == RiddenClock(r).reset \in ToSet(reset.ports)
Resets(r) ==
  LET declared == DeclaredResets(r)
      own == <<ResetInterface(Aresetn, <<HostReset>>)>>
  IN  IF r.export = <<>> \/ ~\E x \in ToSet(declared) : MergesReset(r, x)
      THEN own \o declared
      ELSE [k \in DOMAIN declared |->
              IF MergesReset(r, declared[k])
              THEN ResetInterface(Aresetn, <<HostReset>> \o declared[k].ports)
              ELSE declared[k]]

\* A bus that names no clock runs on the first one listed.
Buses(r) ==
  LET host == Head(Clocks(r)).port
  IN  {IF b.clock = <<>> THEN [b EXCEPT !.clock = host] ELSE b : b \in DeclaredBuses(r)}

-----------------------------------------------------------------------------
(* Pins.                                                                    *)

Analyzers(r) == {i \in Instruments(r) : i.tag = "la"}
ProbePorts(r, tag) ==
  UNION {UNION {{ProbePort(i, d, p) : p \in {x \in Probes(d) : x.tag = tag}} :
                  d \in Domains(i)} : i \in Analyzers(r)}

\* Ports carrying a record, which only a bus takes to the boundary.
RecordPorts(r) ==
  ProbePorts(r, "stream") \union ProbePorts(r, "bnoc")
  \union UNION {ToSet(b.ports) : b \in DeclaredBuses(r)}
  \union (IF r.mode \in {"usb", "spi", "swd"} THEN {<<r.mode, "o">>, <<r.mode, "i">>} ELSE {})

Claimed(r) == UNION {ToSet(b.ports) : b \in Buses(r)}

\* The pin of a port nothing claims: its clock's or its reset's, or its own.
PinOf(r, port) ==
  IF \E c \in ToSet(Clocks(r)) : c.port = port
  THEN (CHOOSE c \in ToSet(Clocks(r)) : c.port = port).name
  ELSE IF \E x \in ToSet(Resets(r)) : port \in ToSet(x.ports)
  THEN (CHOOSE x \in ToSet(Resets(r)) : port \in ToSet(x.ports)).name
  ELSE port

\* A reset some port already declared the pin of.
Secondary(r, port) == \E x \in ToSet(Resets(r)) : port \in ToSet(Tail(x.ports))

\* Every port of the rack as the instance binds it: left open, behind the
\* packer of a bus, or on a pin.
Bindings(r) ==
  [port \in ToSet(RackPorts(r)) |->
     IF port \in Unbound(r) THEN <<"open">>
     ELSE IF port \in Claimed(r)
     THEN (CHOOSE b \in Buses(r) : port \in ToSet(b.ports)).name
     ELSE PinOf(r, port)]

\* The plain pins declared, one per port but the secondary resets.
DeclaringPorts(r) ==
  {port \in ToSet(RackPorts(r)) :
     port \notin Unbound(r) \union Claimed(r) /\ ~Secondary(r, port)}

\* What a clock pin says: the buses on it, the reset of its domain, its rate.
AssociatedBuses(r, c) == {b.name : b \in {x \in Buses(r) : x.clock = c.port}}
AssociatedReset(r, c) == IF c.reset = <<>> THEN <<>> ELSE PinOf(r, c.reset)

-----------------------------------------------------------------------------
(* Generics, and what the wrapper refuses.                                  *)

\* A record generic crosses as a constant; a scalar one needs a value.
Generic(name, scalar, default) == [name |-> name, scalar |-> scalar, default |-> default]

\* The transports that hand the core a byte stream, with a burst length.
Bridged == {"axi4_stream", "jtag", "serial_hdlc", "usb"}

Generics(r) ==
  {Generic(port \o <<"config">>, FALSE, FALSE) : port \in ProbePorts(r, "stream")}
  \union (IF r.mode = "apb" THEN {Generic(<<"apb", "config">>, FALSE, TRUE)} ELSE {})
  \union (IF r.mode \in Bridged THEN {Generic(<<"burst", "length">>, TRUE, FALSE)} ELSE {})
  \union (IF r.mode = "axi4_stream" THEN {Generic(<<"stream", "config">>, FALSE, FALSE)} ELSE {})
  \union (IF r.mode = "serial_hdlc" THEN {Generic(<<"baud", "rate">>, TRUE, FALSE)} ELSE {})
  \union (IF r.mode \in {"serial_hdlc", "spi"} /\ HostClock(r).hz = 0
          THEN {Generic(<<"clock", "frequency">>, TRUE, FALSE)} ELSE {})

\* What a plugin puts in a generic's place: a constant, or one with a default.
Replaced(r, g) ==
  \/ g.name \in {<<"burst", "length">>, <<"baud", "rate">>, <<"stream", "config">>}
  \/ Last(g.name) = "config" /\ ~g.default

Packages(r) ==
  /\ r.export # <<>> =>
       Cardinality({k \in DOMAIN DeclaredClocks(r) :
                      DeclaredClocks(r)[k].port = HostClock(r).clock}) = 1
  /\ \A a, b \in Buses(r) : a # b => ToSet(a.ports) \intersect ToSet(b.ports) = {}
  /\ DeclaringPorts(r) \intersect RecordPorts(r) = {}
  /\ \A a, b \in DeclaringPorts(r) : PinOf(r, a) = PinOf(r, b) => a = b
  /\ \A c \in ToSet(Clocks(r)) :
       c.reset # <<>> => \E x \in ToSet(Resets(r)) : c.reset \in ToSet(x.ports)
  /\ \A g \in Generics(r) : g.default \/ Replaced(r, g)

Wrapper(r) ==
  [clocks |-> {[pin |-> c.name, port |-> c.port, buses |-> AssociatedBuses(r, c),
                reset |-> AssociatedReset(r, c)] : c \in ToSet(Clocks(r))},
   bindings |-> Bindings(r)]

=============================================================================
