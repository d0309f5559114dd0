----------------------------- MODULE RegisterMap -----------------------------
(***************************************************************************)
(* The register names of an explored bus: what bus_explorer/svd.py makes   *)
(* of an SVD document.  An element is a record that has a field for each   *)
(* child or attribute the document gives; a name is a sequence of pieces;  *)
(* a number is as it is spelled.  A word of the bus is the set of its bits *)
(* that are 1.                                                             *)
(***************************************************************************)
EXTENDS Integers, Sequences, SequencesExt, TLC

CONSTANT None

(* Element.text: what a child says, or None.                               *)
Text(e, tag) == IF tag \in DOMAIN e THEN e[tag] ELSE None
Elements(e, tag) == IF tag \in DOMAIN e THEN e[tag] ELSE <<>>

DontCare == -1      \* an x of a binary literal

(* Scalar.integer.                                                         *)
Radix(n) ==
  CASE n.prefix \in {"#", "0b"} -> 2 [] n.prefix = "0x" -> 16 [] n.prefix = "" -> 10
IsNumber(n) ==
  /\ n.digits # <<>>
  /\ \A d \in ToSet(n.digits) :
       d \in 0..Radix(n)-1 \/ (d = DontCare /\ n.prefix = "#")
Integer(n) ==
  IF n = None THEN None
  ELSE (IF n.negative THEN -1 ELSE 1)
       * (CASE n.suffix = "" -> 1 [] n.suffix = "k" -> 1024 [] n.suffix = "m" -> 1048576)
       * FoldLeft(LAMBDA v, d : v * Radix(n) + IF d = DontCare THEN 0 ELSE d, 0, n.digits)
Numbers(e, tags) == \A t \in tags : Text(e, t) # None => IsNumber(e[t])
Num(e, tag) == Integer(Text(e, tag))
OrElse(v, default) == IF v = None THEN default ELSE v
----------------------------------------------------------------------------
(* Fields.  encode and label go between a name and the value it stands     *)
(* for; place and extract between a value and the bits of the register.    *)

FieldReadable(f) ==
  /\ {"name"} \subseteq DOMAIN f /\ Text(f, "derivedFrom") = None
  /\ Numbers(f, {"bitOffset", "bitWidth", "lsb", "msb"})
  /\ {"bitOffset", "bitRange"} \intersect DOMAIN f # {} \/ {"lsb", "msb"} \subseteq DOMAIN f
  /\ \A g \in ToSet(Elements(f, "enumeratedValues")) :
       /\ Text(g, "derivedFrom") = None
       /\ \A v \in ToSet(g.values) :
            "name" \in DOMAIN v /\ (Text(v, "value") # None \/ v.isDefault)

(* The three spellings of a bit range, in the order SVD lists them.        *)
BitRange(f) ==
  IF "bitOffset" \in DOMAIN f
  THEN <<Num(f, "bitOffset"), Num(f, "bitOffset") + OrElse(Num(f, "bitWidth"), 1) - 1>>
  ELSE IF "bitRange" \in DOMAIN f THEN <<f.bitRange.lsb, f.bitRange.msb>>
  ELSE <<Num(f, "lsb"), Num(f, "msb")>>

Field(f) ==
  [name |-> f.name, lsb |-> BitRange(f)[1], msb |-> BitRange(f)[2],
   access |-> Text(f, "access"),
   enums |-> FlattenSeq([g \in DOMAIN Elements(f, "enumeratedValues") |->
                           f.enumeratedValues[g].values])]

MaskOfWidth(f) == 0..f.msb-f.lsb   \* mutant: not in register position
Mask(f) == f.lsb..f.msb
Extract(f, word) == {b - f.lsb : b \in word \intersect Mask(f)}
Fits(f, value) == value \subseteq 0..f.msb-f.lsb
Place(f, value) == {b + f.lsb : b \in value}

(* The name of a value: the first that binds it, else the default's.       *)
Label(f, value) ==
  LET bound == SelectInSeq(f.enums, LAMBDA v : ~v.isDefault /\ v.value = value)
      default == SelectLastInSeq(f.enums, LAMBDA v : v.isDefault)
  IN IF bound # 0 THEN f.enums[bound].name
     ELSE IF default # 0 THEN f.enums[default].name ELSE None

(* The value a name stands for, or None when it stands for none.           *)
Encode(f, name) ==
  LET i == SelectInSeq(f.enums, LAMBDA v : v.name = name)
  IN IF i = 0 THEN None ELSE Text(f.enums[i], "value")

Writable(e) == e.access = None \/ e.access \in {"write-only", "read-write", "writeOnce", "read-writeOnce"}
----------------------------------------------------------------------------
(* Registers: one, or an array of them.                                    *)

Labels(r) ==
  LET index == Text(r, "dimIndex")
  IN IF index = None THEN [i \in 1..Num(r, "dim") |-> ToString(i - 1)]
     ELSE IF "first" \in DOMAIN index
     THEN [i \in 1..index.last-index.first+1 |-> ToString(index.first + i - 1)]
     ELSE index.labels

RegisterReadable(r) ==
  /\ {"name", "addressOffset"} \subseteq DOMAIN r /\ Text(r, "derivedFrom") = None
  /\ Numbers(r, {"addressOffset", "size", "dim", "dimIncrement"})
  /\ \A f \in ToSet(Elements(r, "fields")) : FieldReadable(f)
  /\ "dim" \in DOMAIN r => "dimIncrement" \in DOMAIN r /\ Len(Labels(r)) = Num(r, "dim")

Substituted(name, label) ==
  IF "%s" \in ToSet(name) THEN [i \in DOMAIN name |-> IF name[i] = "%s" THEN label ELSE name[i]]
  ELSE Append(name, label)

(* SvdRegister.parse: the registers an element declares.                   *)
RegistersOf(r, peripheral, base) ==
  LET Member(name, address) ==
        [name |-> name, peripheral |-> peripheral, address |-> address,
         access |-> Text(r, "access"),
         fields |-> [i \in DOMAIN Elements(r, "fields") |-> Field(r.fields[i])]]
      first == base + Num(r, "addressOffset")
  IN IF "dim" \in DOMAIN r
     THEN [i \in 1..Num(r, "dim") |->
             Member(Substituted(r.name, Labels(r)[i]), first + (i - 1) * Num(r, "dimIncrement"))]
     ELSE <<Member(r.name, first)>>

Qualified(r) == <<r.peripheral, ".">> \o r.name
----------------------------------------------------------------------------
(* Documents.                                                              *)

PeripheralReadable(p, before) ==
  /\ {"name", "baseAddress"} \subseteq DOMAIN p /\ Numbers(p, {"baseAddress"})
  /\ Elements(p, "cluster") = <<>>
  /\ \A r \in ToSet(Elements(p, "registers")) : RegisterReadable(r)
  /\ "derivedFrom" \in DOMAIN p =>
       p.derivedFrom \in before /\ Elements(p, "registers") = <<>>

Readable(doc) ==
  /\ doc.root = "device" /\ "peripherals" \in DOMAIN doc
  /\ \A i \in DOMAIN doc.peripherals :
       PeripheralReadable(doc.peripherals[i], {doc.peripherals[j].name : j \in 1..i-1})

Rebased(source, origin, base) == base + (source.address - origin)

(* SvdDocument.parse: the registers of a readable document, in order; a    *)
(* derived peripheral takes those of the one it names, at its own base.    *)
Registers(doc) ==
  LET Peripheral(parsed, p) ==
        LET base == Num(p, "baseAddress")
            declared == FlattenSeq([i \in DOMAIN Elements(p, "registers") |->
                                      RegistersOf(p.registers[i], p.name, base)])
            from == SelectLastInSeq(parsed, LAMBDA q : q.name = Text(p, "derivedFrom"))
            inherited == [i \in DOMAIN parsed[from].registers |->
              [parsed[from].registers[i] EXCEPT
                 !.address = Rebased(parsed[from].registers[i], parsed[from].base, base),
                 !.peripheral = p.name]]
        IN [name |-> p.name, base |-> base,
            registers |-> IF "derivedFrom" \in DOMAIN p THEN inherited ELSE declared]
      all == FoldLeft(LAMBDA parsed, p : Append(parsed, Peripheral(parsed, p)),
                      <<>>, doc.peripherals)
  IN FlattenSeq([i \in DOMAIN all |-> all[i].registers])

(* The first one named wins, of two at an address or with a name.          *)
RegisterAt(registers, address) ==
  LET i == SelectInSeq(registers, LAMBDA r : r.address = address)
  IN IF i = 0 THEN None ELSE registers[i]
RegisterNamed(registers, name) ==
  LET i == SelectInSeq(registers, LAMBDA r : name \in {Qualified(r), r.name})
  IN IF i = 0 THEN None ELSE registers[i]
FieldNamed(r, name) ==
  LET i == SelectInSeq(r.fields, LAMBDA f : f.name = name)
  IN IF i = 0 THEN None ELSE r.fields[i]
=============================================================================
