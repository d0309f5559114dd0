--------------------------- MODULE MCGeneratedRack ---------------------------
(***************************************************************************)
(* The descriptions checked: every storage, trigger and subscription of a  *)
(* two- or three-domain analyzer under each clock the rack may ride, then  *)
(* racks of several instruments in every transport, then what is refused.  *)
(***************************************************************************)
EXTENDS GeneratedRack

Probe(name, tag, width, traced, trigger) ==
  [name |-> <<name>>, tag |-> tag, width |-> width, traced |-> traced, trigger |-> trigger]

Line == Probe("line", "bus", 12, TRUE, TRUE)
Lines == Probe("lines", "bus", 12, TRUE, FALSE)
Axis == Probe("axis", "stream", 0, TRUE, TRUE)
Flag1 == Probe("flag", "scalar", 1, FALSE, TRUE)

Domain(name, storage, depth, edge, from, probes) ==
  [name |-> <<name>>, clock |-> <<"clk">>, hz |-> IF name = "fast" THEN 60 ELSE 0,
   depth |-> depth, rle |-> storage = "rle", packed |-> storage = "packed",
   windows |-> IF storage = "rle" THEN 1 ELSE 2, edge |-> edge, from |-> from,
   probes |-> probes]

Analyzer(domains) == [name |-> <<"la">>, tag |-> "la", domains |-> domains]
Explorer(clock) == [name |-> <<"x">>, tag |-> "explorer", clock |-> clock]
Panel(clock, controls, tickIn) ==
  [name |-> <<"p">>, tag |-> "panel", clock |-> clock, controls |-> controls,
   statuses |-> << <<"st">> >>, tickOut |-> << << <<"go">> >> >>, tickIn |-> tickIn]
Measurer == [name |-> <<"m">>, tag |-> "measurer", reference |-> <<"ref">>, hz |-> 48,
             clocks |-> << <<"a">>, <<"b">> >>, maxRateBits |-> 16, updateHzL2 |-> 1]

Storages == {"plain", "rle", "packed"}

\* The third domain only watches for a trigger, its own or its subscribers'.
Fast(storage, edge, probe) == Domain("fast", storage, 4, edge, <<>>, <<probe>>)
Slow(storage, from) ==
  IF from = <<>> THEN Domain("slow", storage, 11, FALSE, <<>>, <<Line>>)
  ELSE Domain("slow", storage, 11, FALSE, from, <<Lines>>)
Watch == Domain("watch", "plain", 4, TRUE, <<>>, <<Flag1>>)

AllAnalyzers ==
  {Analyzer(<<Fast(s, e, p), Slow(t, f)>>) :
     s \in Storages, t \in Storages, e \in BOOLEAN, p \in {Line, Axis},
     f \in {<<>>, <<"fast">>}}
  \union {Analyzer(<<Fast(s, e, Line), Watch, Slow(t, <<"watch">>)>>) :
            s \in Storages, t \in Storages, e \in BOOLEAN}
  \union {Analyzer(<<Slow(s, <<"watch">>), Watch,
                     [Fast(t, FALSE, Lines) EXCEPT !.from = <<"watch">>]>>) :
            s \in Storages, t \in Storages}
  \union {Analyzer(<<Watch>>)}

Rack(mode, export, instruments) ==
  [package |-> <<"pkg">>, entity |-> <<"top">>, mode |-> mode, export |-> export,
   instruments |-> instruments]

La(clock) == << <<"la">>, <<clock>> >>

Alone == {Rack("axi4_stream", e, <<la>>) :
            la \in AllAnalyzers, e \in {<<>>, La("fast"), La("slow")}}

Some2 == {Analyzer(<<Fast("plain", TRUE, Axis), Slow("rle", <<"fast">>)>>),
          Analyzer(<<Fast("packed", FALSE, Line), Slow("plain", <<>>)>>)}
Modes == {"axi4_stream", "apb", "jtag", "serial_hdlc", "usb", "spi", "swd"}
Ui == <<"ui">>
Companions ==
  UNION {{<<la, Explorer(<<>>)>>, <<Explorer(<<"bus">>), la>>, <<Explorer(<<"bus">>), Measurer, la>>,
          <<Panel(Ui, << <<"led">> >>, << << <<"hit">> >> >>), la>>,
          <<la, Panel(<<>>, <<>>, <<>>), Explorer(<<"bus">>), Measurer>>} : la \in Some2}
Beside ==
  {Rack(m, e, c) : m \in Modes, c \in Companions,
     e \in {<<>>, La("fast"), La("slow"), << <<"x">>, <<"bus">> >>,
            << <<"p">>, Ui>>, << <<"m">>, <<"ref">> >>}}

\* One reason each for the parser, the router or the packager to refuse.
Plain == Analyzer(<<Fast("plain", FALSE, Line)>>)
Refused ==
  {Rack("apb", <<>>, is) : is \in
     {<<>>, <<Plain, Plain>>, <<Analyzer(<<>>)>>,
      <<Analyzer(<<[Fast("rle", FALSE, Line) EXCEPT !.windows = 2]>>)>>,
      <<Analyzer(<<[Fast("rle", FALSE, Line) EXCEPT !.packed = TRUE]>>)>>,
      <<Analyzer(<<Slow("plain", <<"slow">>)>>)>>,
      <<Analyzer(<<Fast("plain", FALSE, Probe("clk", "scalar", 1, TRUE, TRUE))>>)>>,
      <<Analyzer(<<Fast("plain", FALSE, Probe("wide", "bus", 33, TRUE, TRUE))>>)>>,
      <<Analyzer(<<Fast("plain", FALSE, Probe("pipe", "bnoc", 9, TRUE, TRUE))>>)>>,
      [k \in 1..16 |-> [Measurer EXCEPT !.name = <<"m", k>>]],
      <<Analyzer([k \in 1..6 |-> [Fast("plain", FALSE, Line) EXCEPT !.name = <<"d", k>>]])>>,
      <<Panel(<<>>, << <<"st">> >>, <<>>)>>,
      <<[Measurer EXCEPT !.clocks = << <<"ref">> >>]>>}}

MCDescriptions == Alone \union Beside \union Refused
MCStreamWidths == {8, 40}

=============================================================================
