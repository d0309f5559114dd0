----------------------------- MODULE Crossings -----------------------------
(***************************************************************************)
(* What the generators assemble: parts joined by nets, and the crossings   *)
(* between two clock domains (generator/cdc.py and its two extensions for  *)
(* panels and bus explorers).                                              *)
(*                                                                         *)
(* A name is the sequence of its words: "la_fast_s" is                     *)
(* <<"la", "fast", "s">>.  A part reads and drives nets, each on a clock,  *)
(* and says how it carries one: "block" for a library entity or a process, *)
(* "wire" for an assignment, or the kind of crossing.                      *)
(***************************************************************************)
EXTENDS Naturals, Sequences

\* A net as its driver gives it: on a clock, and of a nature.
Out(net, clock, nature) == [net |-> net, clock |-> clock, nature |-> nature]

\* A net as a port samples it.
In(net, clock) == [net |-> net, clock |-> clock]

\* A part of an architecture: its label, its unit as the gbs partition and the
\* entity in it, what it reads, what it drives.
Part(label, unit, how, ins, outs) ==
  [label |-> label, unit |-> unit, how |-> how, ins |-> ins, outs |-> outs]

\* A clock and its reset, named by the ports that carry them.
ClockDomain(clock, resetN) == [clock |-> clock, resetN |-> resetN]

\* The crossings from one domain to another.
Cdc(source, target) == [source |-> source, target |-> target]

\* One clock on both sides: every crossing is the net itself.
Direct(cdc) == cdc.source.clock = cdc.target.clock

InterdomainDep == "nsl_clocking.interdomain"

\* The unit of an assignment or of a process.
Nothing == <<"", "">>

\* Whatever a crossing feeds is named after the net it drives.
CdcLabel(name) == <<"cdc">> \o name

\* What a crossing leaves behind: the net its reader binds, and its parts.
Crossed(cdc, name, source, how) ==
  IF Direct(cdc) THEN [net |-> source, parts |-> {}]
  ELSE [net |-> name,
        parts |-> {Part(CdcLabel(name), <<InterdomainDep, how>>, how,
                        {In(source, cdc.source.clock)},
                        {Out(name, cdc.target.clock, how)})}]

\* A one-cycle event, retimed into the destination domain.
Tick(cdc, name, source) == Crossed(cdc, name, source, "tick")

\* A one-bit level, resynchronised.
Flag(cdc, name, source) == Crossed(cdc, name, source, "reg")

\* A multi-bit word, resynchronised bit by bit, or through a filter that
\* waits for identical samples.
Level(cdc, name, source, stable) ==
  Crossed(cdc, name, source, IF stable THEN "filtered" ELSE "reg")

\* Set-and-hold configuration, sampled without a handshake.
Static(cdc, name, source) == Crossed(cdc, name, source, "static")

\* The partitions a crossing's file must name: none when nothing crossed.
CdcDeps(parts) ==
  IF \E p \in parts : p.unit[1] = InterdomainDep THEN {InterdomainDep} ELSE {}

\* An assignment between nets of one domain.
Wire(label, sources, net, clock) ==
  Part(label, Nothing, "wire", {In(s, clock) : s \in sources},
       {Out(net, clock, "wire")})

\* The words of one kind of panel signal, one crossing for each; a panel in
\* one domain assigns them instead.
PanelWords(cdc, origin, destination, count, how) ==
  IF Direct(cdc)
  THEN {Wire(destination, {origin}, destination, cdc.target.clock)}
  ELSE IF count = 0 THEN {}
  ELSE {Part(CdcLabel(destination), <<InterdomainDep, how>>, how,
             {In(origin, cdc.source.clock)},
             {Out(destination, cdc.target.clock, how)})}

\* The counters of a panel, each gray-coded over its own width.
PanelCounters(cdc, origin, destination, count) ==
  PanelWords(cdc, origin, destination, count, "gray")

\* A valid/ready stream: data and valid one way, ready the other, through one
\* slice, or three assignments when the domains are one.
StreamCdc(cdc, label, from, to) ==
  IF Direct(cdc)
  THEN {Wire(to.data, {from.data}, to.data, cdc.target.clock),
        Wire(from.ready, {to.ready}, from.ready, cdc.source.clock)}
  ELSE {Part(CdcLabel(label), <<InterdomainDep, "fifo">>, "fifo",
             {In(from.data, cdc.source.clock), In(to.ready, cdc.target.clock)},
             {Out(to.data, cdc.target.clock, "fifo"),
              Out(from.ready, cdc.source.clock, "fifo")})}

\* The partitions of a panel's or an explorer's crossing: one crossed
\* domain pair names the library whatever it carries.
PairDeps(cdc) == IF Direct(cdc) THEN {} ELSE {InterdomainDep}

\* The natures each way of crossing carries soundly: an event needs a tick,
\* a word whose bits must agree needs the filter, and so on.
Carries(how) ==
  CASE how = "tick"     -> {"pulse"}
    [] how = "reg"      -> {"flag", "bits", "settled", "held"}
    [] how = "filtered" -> {"flag", "bits", "word"}
    [] how = "static"   -> {"config"}
    [] how = "gray"     -> {"counter"}
    [] how = "fifo"     -> {"stream", "handshake"}

Crossing(part) == part.how \notin {"block", "wire"}

=============================================================================
