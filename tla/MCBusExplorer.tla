---------------------------- MODULE MCBusExplorer ----------------------------
(* Instances of BusExplorer, and what the runs ask of it.                  *)
EXTENDS BusExplorer

CONSTANTS a, b, x      \* two target addresses, one bit

Request(op, address, wdata, wmask) ==
  [op |-> op, address |-> address, wdata |-> wdata, wmask |-> wmask]

ReadA == Request("read", a, {}, {})
SetB == Request("masked", b, {}, {x})

(* Every operation; the masked writes clear the bit or leave it.           *)
EveryOperation ==
  {ReadA, Request("write", b, {x}, {}), SetB, Request("masked", b, {x}, {}),
   Request("reserved", a, {}, {})}

(* The scanner is switched on with its first slot enabled; or programmed   *)
(* in every way.                                                           *)
ScanOn ==
  {[reg |-> "SCAN_CTRL", value |-> TRUE], [reg |-> "SLOT_ENABLE", value |-> {0}]}
ScanProgram ==
  {[reg |-> "SCAN_CTRL", value |-> TRUE]}
  \union {[reg |-> "SLOT_ENABLE", value |-> on] : on \in SUBSET Slots}
  \union {[reg |-> "SLOT_ADDR", slot |-> 0, value |-> t] : t \in TargetAddresses}

(* Without a crossing an access takes three clocks; with one, any number.  *)
Use(crossed, requests, scan_writes, resets) ==
  [crossed |-> crossed, timeout |-> IF crossed THEN 1 ELSE 3, words |-> Words, requests |-> requests,
   scan_writes |-> scan_writes, resets |-> resets]

ServingUses ==
  {Use(TRUE, EveryOperation, {}, {}), Use(FALSE, EveryOperation, {}, {}),
   Use(TRUE, {SetB}, ScanOn, {}),
   [Use(TRUE, {}, ScanProgram, {}) EXCEPT !.words = {{}}]}
ResetUses ==
  {[Use(TRUE, {ReadA, SetB}, {}, {"host", "target"}) EXCEPT !.words = {{}}],
   [Use(TRUE, {SetB}, ScanOn, {"target"}) EXCEPT !.words = {{}}]}
AllUses == ServingUses \union ResetUses
==============================================================================
