--------------------------- MODULE MCExplorerCalls ---------------------------
(* An instance of ExplorerCalls.  Addresses 0, 1 and 2 answer, 2 of them   *)
(* late or never in some uses; 3 refuses; 4 does not fit.                  *)
EXTENDS ExplorerCalls

CONSTANTS one, two, pill

(* Numbers, as they are spelled and what they mean.                        *)
Number(prefix, digits, means) ==
  [negative |-> FALSE, prefix |-> prefix, digits |-> digits, suffix |-> "", means |-> means]
N(n) == Number("", <<n>>, n)
Zero == Number("0x", <<0, 0>>, 0)
OneBinary == Number("#", <<DontCare, 1>>, 1)
Two == Number("0b", <<1, 0>>, 2)
Kilo == [N(1) EXCEPT !.suffix = "k", !.means = 1024]
Minus == [Kilo EXCEPT !.negative = TRUE, !.means = -1024]
NotANumber == Number("0x", <<16>>, 0)

Enum(name, value) == [name |-> name, value |-> value, isDefault |-> FALSE]
Default(name) == [name |-> name, isDefault |-> TRUE]

Mode ==
  [name |-> "MODE", bitRange |-> [lsb |-> 1, msb |-> 2],
   enumeratedValues |-> <<[values |-> <<Enum("off", {}), Enum("on", {0}), Default("other")>>]>>]
Go == [name |-> "GO", bitOffset |-> Zero, access |-> "write-only"]
Seen == [name |-> "SEEN", lsb |-> Zero, msb |-> N(2), access |-> "read-only"]

Ctrl == [name |-> <<"CTRL">>, addressOffset |-> Zero, fields |-> <<Go, Mode>>]
Stat == [name |-> <<"STAT">>, addressOffset |-> N(1), access |-> "read-only", fields |-> <<Seen>>]
Data == [name |-> <<"DATA">>, addressOffset |-> N(1), fields |-> <<Mode>>]

Peripheral(name, at, registers) == [name |-> name, baseAddress |-> at, registers |-> registers]
Derived(name, at, from) == [name |-> name, baseAddress |-> at, derivedFrom |-> from]
Device(peripherals) == [root |-> "device", peripherals |-> peripherals]

(* The same registers; the second document has them the other way round.   *)
Straight == Device(<<Peripheral("P", Zero, <<Ctrl, Data, Stat>>)>>)
Swapped ==
  Device(<<Peripheral("P", OneBinary, <<[Ctrl EXCEPT !.fields = <<[Mode EXCEPT !.bitRange.lsb = 0]>>]>>),
           Peripheral("Q", Zero, <<[Data EXCEPT !.addressOffset = Zero]>>)>>)
Chained ==
  Device(<<Peripheral("P", Kilo, <<Ctrl, Stat>>), Derived("Q", Two, "P"), Derived("R", Minus, "Q")>>)
Arrays ==
  Device(<<Peripheral("P", N(8),
     <<[name |-> <<"CH", "%s", "_X">>, addressOffset |-> N(4), dim |-> Two, dimIncrement |-> N(4)],
       [name |-> <<"B">>, addressOffset |-> Zero, dim |-> N(3), dimIncrement |-> OneBinary,
        dimIndex |-> [labels |-> <<"a", "b", "c">>]],
       [name |-> <<"D">>, addressOffset |-> Kilo, dim |-> Two, dimIncrement |-> N(8),
        dimIndex |-> [first |-> 3, last |-> 4]]>>)>>)
Unreadable ==
  {[root |-> "html"],
   Device(<<Derived("Q", Zero, "P"), Peripheral("P", Zero, <<Ctrl>>)>>),
   Device(<<Peripheral("P", NotANumber, <<Ctrl>>)>>),
   Device(<<Peripheral("P", Zero, <<[Ctrl EXCEPT !.fields = <<[name |-> "F", lsb |-> Zero]>>]>>)>>),
   Device(<<Peripheral("P", Zero, <<[name |-> <<"A">>, addressOffset |-> Zero, dim |-> N(3),
              dimIncrement |-> N(4), dimIndex |-> [labels |-> <<"a", "b">>]]>>)>>)}

Plain(op, address, value, mask) == [op |-> op, address |-> address, value |-> value, mask |-> mask]
NameField(register, field, name) ==
  [op |-> "field", register |-> register, field |-> field, name |-> name]
FieldBits(register, field, bits) ==
  [op |-> "field", register |-> register, field |-> field, bits |-> bits]
SlotSet(slot, address, on) == [op |-> "slot_set", slot |-> slot, address |-> address, enabled |-> on]
SlotEnable(slot, on) == [op |-> "slot_enable", slot |-> slot, enabled |-> on]
SlotsSet(addresses, on) == [op |-> "slots_set", addresses |-> addresses, enabled |-> on]
ScanCall(on) == [op |-> "scan", enabled |-> on]

Nothing == [t \in Tasks |-> {}]
Use(calls) ==
  [calls |-> calls @@ Nothing, target |-> [a \in Live |-> IF a = 0 THEN {} ELSE {0, 2}],
   slots |-> [i \in Slots |-> 0], enables |-> {{}}, clears |-> FALSE, declared |-> None,
   maps |-> {}, files |-> <<>>, documents |-> {}, late |-> {}, entries |-> 2,
   exports |-> FALSE, recipe |-> <<>>]

(* Writes and reads of every kind, with the journal cleared and replayed.  *)
AccessCalls ==
  {Plain("read", 1, {}, {}), Plain("write", 0, {0, 1}, {}), Plain("write", 2, {0}, {}),
   Plain("masked-write", 1, {1}, {1, 2}), Plain("write", 4, {}, {}),
   NameField(<<"CTRL">>, "MODE", "on"), FieldBits(<<"P", ".", "CTRL">>, "GO", {0}),
   FieldBits(<<"DATA">>, "MODE", {2}), FieldBits(<<"STAT">>, "SEEN", {}),
   NameField(<<"CTRL">>, "MODE", "other"), NameField(<<"NONE">>, "GO", "on"),
   [op |-> "sweep", start |-> 0, count |-> 4, step |-> 1],
   [op |-> "sweep", start |-> 1, count |-> 3, step |-> 2]}
AccessUse ==
  [Use(one :> AccessCalls) EXCEPT !.declared = Straight, !.late = {2}]

(* A recipe of three steps is replayed while another task writes; and one  *)
(* task replays what it has just written.                                  *)
Step(op, address, value, mask) == [op |-> op, address |-> address, value |-> value, mask |-> mask]
ReplayUse ==
  [Use((one :> {[op |-> "replay"]})
       @@ (two :> {Plain("write", 1, {0}, {}), Plain("masked-write", 0, {1}, {1})})) EXCEPT
     !.late = {2}, !.entries = 4,
     !.recipe = <<Step("masked-write", 1, {1}, {1, 2}), Step("write", 2, {0}, None),
                  Step("write", 1, {2}, None)>>]
ClearedUse ==
  [ReplayUse EXCEPT
     !.calls[two] = {Plain("write", 1, {0}, {})},
     !.clears = TRUE, !.late = {}, !.entries = 2, !.recipe = SubSeq(@, 1, 2)]
ExportUse ==
  [Use(one :> {Plain("masked-write", 1, {1}, {1, 2}), Plain("write", 2, {0}, {}),
               [op |-> "replay"]}) EXCEPT
     !.clears = TRUE, !.exports = TRUE, !.late = {2}, !.entries = 2]

(* A map is registered, edited, used and removed, whatever it says; and    *)
(* fields are written by name while the map in use changes.                *)
MapsUse ==
  [Use(<<>>) EXCEPT
     !.maps = {"id"}, !.files = "f" :> Straight,
     !.documents = {Straight, Swapped, Chained, Arrays} \union Unreadable]
RenamedUse ==
  [Use(one :> {NameField(<<"CTRL">>, "MODE", "on")}) EXCEPT
     !.maps = {"id"}, !.files = "f" :> Straight, !.documents = {Straight, Swapped}]

(* Two tasks at the slots, and the poll; and one, while the scanner runs.  *)
ProgramUse ==
  [Use((one :> {SlotsSet(<<1>>, TRUE), SlotSet(1, 1, TRUE)})
       @@ (two :> {SlotEnable(0, TRUE), SlotEnable(1, FALSE)})
       @@ (pill :> {[op |-> "poll"]})) EXCEPT !.enables = {{}, {1}}, !.slots[1] = 3]
ScanUse ==
  [Use((one :> {SlotsSet(<<1, 0>>, TRUE), SlotEnable(1, FALSE), ScanCall(TRUE)})
       @@ (pill :> {[op |-> "poll"]})) EXCEPT !.slots[1] = 3]
LateScanUse ==
  [Use((one :> {SlotsSet(<<1>>, TRUE), SlotSet(0, 0, TRUE), ScanCall(TRUE)})
       @@ (pill :> {[op |-> "poll"]})) EXCEPT !.slots[1] = 3, !.late = {1}]

(* Reads and snapshots of the slots while they are programmed.             *)
SnapshotUse ==
  [Use((one :> {[op |-> "snapshot", name |-> "before"], [op |-> "snapshot", name |-> "after"],
                Plain("masked-write", 0, {0, 1}, {1})})
       @@ (pill :> {SlotsSet(<<0, 2>>, TRUE)})) EXCEPT
     !.declared = Straight, !.late = {2}, !.entries = 1]

AllUses ==
  {AccessUse, ReplayUse, ClearedUse, ExportUse, MapsUse, RenamedUse, ProgramUse, ScanUse,
   LateScanUse, SnapshotUse}

(* Two tasks that write, as two messages of a page do.                     *)
OverlapUse ==
  {Use([t \in {one, two} |-> {Plain("write", IF t = one THEN 0 ELSE 1, {1}, {})}])}
==============================================================================
