----------------------------- MODULE AnalyzerNet -----------------------------
(***************************************************************************)
(* The logic analyzer's generator (instrument/la/generator): the entity of *)
(* one instance, as parts and nets, and what its descriptor envelope       *)
(* publishes.                                                              *)
(*                                                                         *)
(* An instance is [name, tag, domains], a sequence of capture domains      *)
(*   [name, clock, hz, depth, rle, packed, windows, edge, from, probes];   *)
(* from is <<>> when the domain hosts its own trigger.  A probe is [name,  *)
(* tag, width, traced, trigger]; a "stream" probe's width is known only    *)
(* when the rack elaborates.                                               *)
(***************************************************************************)
EXTENDS Crossings, FiniteSets, FiniteSetsExt, SequencesExt, Functions

-----------------------------------------------------------------------------
(* The described domains: schema.py.                                        *)

Port(scope, suffix) == scope \o suffix \o <<"i">>
Scope(la, d) == la.name \o d.name
ClockPort(la, d) == Port(Scope(la, d), d.clock)
ResetPort(la, d) == Port(Scope(la, d), <<"reset", "n">>)
ProbePort(la, d, p) == Port(Scope(la, d), p.name)

Probes(d) == ToSet(d.probes)
TracedProbes(d) == {p \in Probes(d) : p.traced}
TriggerProbes(d) == {p \in Probes(d) : p.trigger}
Captures(d) == TracedProbes(d) # {}
HostsTrigger(d) == TriggerProbes(d) # {}
Subscribes(d) == d.from # <<>>

Domains(la) == ToSet(la.domains)
Capturing(la) == {d \in Domains(la) : Captures(d)}

\* The domain whose trigger a capturing domain waits on.
HostName(d) == IF Subscribes(d) THEN d.from ELSE d.name
HostOf(la, d) == CHOOSE h \in Domains(la) : h.name = HostName(d)

-----------------------------------------------------------------------------
(* What the parser refuses: parser.py.                                      *)

StaticTriggerWidth(d) ==
  LET known == {p \in TriggerProbes(d) : p.tag # "stream"}
  IN  MapThenSumSet(LAMBDA p : p.width, known)

DomainAccepted(la, d) ==
  /\ ~(d.rle /\ d.packed)
  /\ d.rle => d.windows = 1
  /\ Probes(d) # {} /\ \A p \in Probes(d) : p.traced \/ p.trigger
  /\ IF Subscribes(d)
     THEN /\ ~HostsTrigger(d)
          /\ d.from # d.name
          /\ \E h \in Domains(la) : h.name = d.from /\ HostsTrigger(h)
     ELSE Captures(d) => HostsTrigger(d)
  /\ StaticTriggerWidth(d) <= 32

AnalyzerAccepted(la) == la.domains # <<>> /\ \A d \in Domains(la) : DomainAccepted(la, d)

-----------------------------------------------------------------------------
(* The block map: layout.py.                                                *)

\* One block per role a domain has, in description order; its place in the
\* sequence, from zero, is the region it takes.
Blocks(la) ==
  FlattenSeq([i \in DOMAIN la.domains |->
    LET d == la.domains[i]
    IN  (IF Captures(d) THEN << <<d.name, "control">>, <<d.name, "buffer">> >>
         ELSE <<>>)
        \o (IF HostsTrigger(d) THEN << <<d.name, "trigger">> >> ELSE <<>>)])

MaxBlocks == 16
LayoutAccepted(la) == Len(Blocks(la)) <= MaxBlocks

Index(la, key) == (CHOOSE i \in DOMAIN Blocks(la) : Blocks(la)[i] = key) - 1

\* log2 of the smallest power of two that is at least a value.
RoundUpL2(value) == CHOOSE n \in 0..31 : 2^n >= value /\ (n > 0 => 2^(n - 1) < value)

IndexBits(la) == RoundUpL2(Len(Blocks(la)))

DataBusL2 == 2
WordBits == 8 * 2^DataBusL2

\* The width a vector elaborates to: streams is what the streams' packers
\* answer, which only the instantiating design knows.
ProbeWidth(p, streams) == IF p.tag = "stream" THEN streams ELSE p.width
VectorWidth(probes, streams) ==
  MapThenSumSet(LAMBDA p : ProbeWidth(p, streams), probes)
SignalCount(d, streams) == VectorWidth(TracedProbes(d), streams)

\* Line width of the storage: a run-length tag rides beside the sample.
TagBits(d) == IF d.rle THEN 1 ELSE 0
LineWidth(d, streams) == SignalCount(d, streams) + TagBits(d)

CeilDiv(a, b) == (a + b - 1) \div b
PackedLaneL2(width) ==
  RoundUpL2(2^DataBusL2 \div 2^RoundUpL2(CeilDiv(width, 8)))
LineWordL2(width) == RoundUpL2(CeilDiv(width, WordBits))

\* Bytes of address space of a trace buffer, log2: packed samples share a
\* word, a wide one takes a run of words.
BufferSizeL2(d, streams) ==
  (d.depth - (IF d.packed THEN PackedLaneL2(SignalCount(d, streams)) ELSE 0))
  + LineWordL2(LineWidth(d, streams)) + DataBusL2

\* Regions the size of a register file, whatever the buffers need.
RegionL2OfRegisters(la, streams) == 12

\* Every region is as large as the largest buffer, and never smaller than
\* what a register file decodes.
RegionL2(la, streams) ==
  Max({12} \union {BufferSizeL2(d, streams) : d \in Capturing(la)})
MapSizeL2(la, streams) == RegionL2(la, streams) + IndexBits(la)

Offset(la, key, streams) == Index(la, key) * 2^RegionL2(la, streams)

\* What a routing prefix compares: the address bits from lo up to hi.
Prefix(lo, hi, value) == [lo |-> lo, hi |-> hi, value |-> value]
Matches(prefix, address) ==
  (address \div 2^prefix.lo) % 2^(prefix.hi - prefix.lo) = prefix.value

BlockPrefix(la, key, streams) ==
  Prefix(MapSizeL2(la, streams) - IndexBits(la), MapSizeL2(la, streams),
         Index(la, key))

\* The checks the entity asserts on what only elaboration tells.
AnalyzerElaborates(la, streams) ==
  /\ \A d \in Capturing(la) : d.packed => LineWidth(d, streams) <= WordBits
  /\ \A d \in Domains(la) : VectorWidth(TriggerProbes(d), streams) <= 32

-----------------------------------------------------------------------------
(* Clocks and crossings of a domain: __init__.py and clusters.py.           *)

\* The register side of every entity, on the clock the rack hands it.
Host == ClockDomain(<<"clock", "i">>, <<"reset", "n", "i">>)

\* A domain runs on its own clock, or on the entity's when the rack rides
\* that very domain's; its reset is its own either way.
Clock(la, d, ridden) ==
  ClockDomain(IF d.name # ridden THEN ClockPort(la, d) ELSE Host.clock,
              ResetPort(la, d))

Down(la, d, ridden) == Cdc(Host, Clock(la, d, ridden))
Up(la, d, ridden) == Cdc(Clock(la, d, ridden), Host)

Signal(d, suffix) == d.name \o suffix \o <<"s">>
S(d, suffix) == Signal(d, <<suffix>>)

Nets(crossings) == {c.net : c \in crossings}
PartsOf(crossings) == UNION {c.parts : c \in crossings}

\* What the control block reads back of the core.
Status(la, d, ridden) ==
  LET up == Up(la, d, ridden) IN
  {Level(up, Signal(d, <<"state", "host">>), S(d, "state"), TRUE),
   Flag(up, Signal(d, <<"triggered", "host">>), S(d, "triggered")),
   Flag(up, Signal(d, <<"ready", "host">>), S(d, "ready"))}

\* Arm and abort, as the core takes them.
Commands(la, d, ridden) ==
  LET down == Down(la, d, ridden) IN
  {Tick(down, Signal(d, <<"arm", "cap">>), S(d, "arm")),
   Tick(down, Signal(d, <<"abort", "cap">>), S(d, "abort"))}

\* The write side of the buffer is the core's; its registers are the host's.
Buffer(la, d, ridden) ==
  Part(Signal(d, <<"buffer">>),
       <<"gatecap.trace", IF d.packed THEN "trace_buffer_packed" ELSE "trace_buffer">>, "block",
       {In(S(d, w), Clock(la, d, ridden).clock) :
          w \in {"write_en", "write_addr", "write_data"}}, {})

\* The head of a window lasts one cycle in the core's domain: crossed, it is
\* held there, and a tick tells the host side when to take it.
HeadReadback(la, d, ridden) ==
  LET up == Up(la, d, ridden)
      clock == Clock(la, d, ridden).clock
  IN  IF Direct(up)
      THEN [nets |-> {S(d, "head"), S(d, "head_we")}, parts |-> {}]
      ELSE LET crossed ==
                 {Level(up, Signal(d, <<"head", "host">>), S(d, "head_hold"), FALSE),
                  Tick(up, Signal(d, <<"head_we", "host">>), S(d, "head_we"))}
           IN  [nets |-> Nets(crossed),
                parts |-> PartsOf(crossed) \union
                  {Part(S(d, "head_hold"), Nothing, "block",
                        {In(S(d, "head"), clock), In(S(d, "head_we"), clock)},
                        {Out(S(d, "head_hold"), clock, "held")})}]

\* The ring pointers of a run-length core, settled once the run is over.
Pointers(la, d, ridden) ==
  LET up == Up(la, d, ridden) IN
  {Level(up, Signal(d, <<p, "host">>), S(d, p), FALSE) :
     p \in {"end_ptr", "pre_head", "pre_n"}}

\* The settings each storage takes from its control block.
Settings(d) == IF d.rle THEN {"pre_lines", "max_cycles"}
               ELSE {"capture_len", "pre_trigger_len", "window_count"}

Configured(la, d, ridden) ==
  {Static(Down(la, d, ridden), Signal(d, <<s, "cap">>), S(d, s)) :
     s \in Settings(d)}

Control(d, reads) ==
  Part(Signal(d, <<"control">>),
       <<"gatecap.control", IF d.rle THEN "capture_control_rle" ELSE "capture_control">>, "block",
       {In(n, Host.clock) : n \in reads},
       {Out(S(d, c), Host.clock, "pulse") : c \in {"arm", "abort"}}
       \union {Out(S(d, s), Host.clock, "config") : s \in Settings(d)})

\* The core's outputs, by the nature capture_core*.vhd gives them.
CoreOuts(d, clock) ==
  {Out(S(d, "state"), clock, "word"), Out(S(d, "triggered"), clock, "flag"),
   Out(S(d, "ready"), clock, "flag")}
  \union {Out(S(d, w), clock, "beat") : w \in {"write_en", "write_addr", "write_data"}}
  \union (IF d.rle
          THEN {Out(S(d, p), clock, "settled") : p \in {"end_ptr", "pre_head", "pre_n"}}
          ELSE {Out(S(d, "head"), clock, "beat"), Out(S(d, "head_we"), clock, "pulse")})

Core(la, d, ridden, tick) ==
  LET clock == Clock(la, d, ridden).clock IN
  Part(Signal(d, <<"core">>),
       <<"gatecap.capture", IF d.rle THEN "capture_core_rle" ELSE "capture_core">>, "block",
       {In(n, clock) : n \in
          {S(d, "signals"), tick}
          \union Nets(Commands(la, d, ridden))
          \union Nets(Configured(la, d, ridden))},
       CoreOuts(d, clock))

\* A probe vector packs its probes' ports on the clock of their domain.
Vector(la, d, ridden, suffix, probes) ==
  Wire(Signal(d, suffix), {ProbePort(la, d, p) : p \in probes},
       Signal(d, suffix), Clock(la, d, ridden).clock)

\* The blocks storing one domain, and every crossing between them.
Cluster(la, d, ridden, tick) ==
  LET head == IF d.rle THEN [nets |-> Nets(Pointers(la, d, ridden)),
                             parts |-> PartsOf(Pointers(la, d, ridden))]
              ELSE HeadReadback(la, d, ridden)
  IN  {Vector(la, d, ridden, <<"signals">>, TracedProbes(d)),
       Control(d, Nets(Status(la, d, ridden)) \union head.nets),
       Core(la, d, ridden, tick), Buffer(la, d, ridden)}
      \union PartsOf(Status(la, d, ridden)) \union PartsOf(Commands(la, d, ridden))
      \union PartsOf(Configured(la, d, ridden)) \union head.parts

-----------------------------------------------------------------------------
(* Triggers and who waits on them: topology.py.                             *)

Own(d, h) == d.name = h.name

\* The tick bound to every subscriber as it leaves the block.
TriggerTickUncrossed(la, h, d, ridden) == [net |-> S(h, "trigger"), parts |-> {}]

\* The tick of trigger h as domain d's core sees it.
TriggerTick(la, h, d, ridden) ==
  LET crossing == Cdc(Clock(la, h, ridden), Clock(la, d, ridden))
  IN  IF Own(d, h) THEN [net |-> S(h, "trigger"), parts |-> {}]
      ELSE Tick(crossing, S(d, "trigger"), S(h, "trigger"))

\* The ready of domain d as the trigger of h sees it.
ReadyOf(la, h, d, ridden) ==
  LET crossing == Cdc(Clock(la, d, ridden), Clock(la, h, ridden))
  IN  IF Own(d, h) THEN [net |-> S(d, "ready"), parts |-> {}]
      ELSE Flag(crossing, d.name \o <<"ready", "in">> \o h.name \o <<"s">>,
                S(d, "ready"))

Subscribers(la, h) == {d \in Capturing(la) : HostName(d) = h.name}

Enables(la, h, ridden) == {ReadyOf(la, h, d, ridden).net : d \in Subscribers(la, h)}

\* The enable: the one ready, the conjunction of several, or '1' when nobody
\* waits.
Enable(la, h, ridden) ==
  LET readys == Enables(la, h, ridden)
      joined == Signal(h, <<"trigger", "enable">>)
  IN  IF Cardinality(readys) <= 1 THEN [nets |-> readys, parts |-> {}]
      ELSE [nets |-> {joined},
            parts |-> {Wire(joined, readys, joined, Clock(la, h, ridden).clock)}]

\* The match block, told at elaboration whether its registers' clock and the
\* capture clock differ.
TriggerBlock(la, h, ridden) ==
  LET clock == Clock(la, h, ridden).clock IN
  Part(Signal(h, <<"trigger">>),
       <<"gatecap.control", IF h.edge THEN "trigger_control_edge" ELSE "trigger_control">>, "block",
       {In(n, clock) : n \in {Signal(h, <<"trigger", "signals">>)}
                             \union Enable(la, h, ridden).nets},
       {Out(S(h, "trigger"), clock, "pulse")})

Async(la, h, ridden) == Clock(la, h, ridden).clock # Host.clock

Fanout(la, h, ridden) ==
  UNION {TriggerTick(la, h, d, ridden).parts \union ReadyOf(la, h, d, ridden).parts :
           d \in Subscribers(la, h)}

TriggerParts(la, h, ridden) ==
  {Vector(la, h, ridden, <<"trigger", "signals">>, TriggerProbes(h)),
   TriggerBlock(la, h, ridden)}
  \union Enable(la, h, ridden).parts \union Fanout(la, h, ridden)

TriggerHosts(la) == {d \in Domains(la) : HostsTrigger(d)}

\* The latency of a block in the domain's own kind.
LatencyConstantsOwn(la, d) ==
  {IF d.edge THEN "edge" ELSE "value"}
  \union (IF Own(d, HostOf(la, d)) THEN {} ELSE {"tick"})

\* The latency constants a domain's core and descriptor are given: the
\* block's own, by its kind, and the wiring's.
LatencyConstants(la, d) ==
  LET h == HostOf(la, d)
  IN  {IF h.edge THEN "edge" ELSE "value"}
      \union (IF Own(d, h) THEN {} ELSE {"tick"})

\* The wiring's constant is declared only when some trigger crosses.
TickConstantDeclared(la, ridden) ==
  \E h \in TriggerHosts(la) : Fanout(la, h, ridden) # {}

-----------------------------------------------------------------------------
(* The instance: __init__.py.                                               *)

AnalyzerParts(la, ridden) ==
  UNION {Cluster(la, d, ridden, TriggerTick(la, HostOf(la, d), d, ridden).net) :
           d \in Capturing(la)}
  \union UNION {TriggerParts(la, h, ridden) : h \in TriggerHosts(la)}

AnalyzerPorts(la) ==
  FlattenSeq([i \in DOMAIN la.domains |->
    LET d == la.domains[i]
    IN  <<ClockPort(la, d), ResetPort(la, d)>>
        \o [j \in DOMAIN d.probes |-> ProbePort(la, d, d.probes[j])]])

\* A clock the rack may run on: under the domain's name, with the rate stated.
Export(name, port, hz) == [name |-> name, port |-> port, hz |-> hz]
AnalyzerClocks(la) == {Export(d.name, ClockPort(la, d), d.hz) : d \in Domains(la)}

\* The libraries the instance's file names.
AnalyzerDeps(la, ridden) ==
  {"gatecap.descriptor", "nsl_amba.apb_routing"}
  \union (IF Capturing(la) # {}
          THEN {"gatecap.capture", "gatecap.control", "gatecap.trace"} ELSE {})
  \union UNION {CdcDeps(Cluster(la, d, ridden, <<>>)) : d \in Capturing(la)}
  \union UNION {{"gatecap.control"} \union CdcDeps(Fanout(la, h, ridden)) :
                  h \in TriggerHosts(la)}

TriggerKey(la, name) ==
  <<HostName(CHOOSE d \in Capturing(la) : d.name = name), "trigger">>

\* What the envelope publishes: every block at its offset, a control with the
\* names of its buffer and of its trigger.
AnalyzerChildren(la, streams) ==
  {[name |-> key, offset |-> Offset(la, key, streams),
    buffer |-> IF key[2] = "control" THEN <<key[1], "buffer">> ELSE <<>>,
    trigger |-> IF key[2] = "control" THEN TriggerKey(la, key[1]) ELSE <<>>] :
     key \in ToSet(Blocks(la))}

\* The controls one arm covers.
ControlNames(la) == {<<d.name, "control">> : d \in Capturing(la)}

=============================================================================
