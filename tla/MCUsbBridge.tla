---------------------------- MODULE MCUsbBridge ----------------------------
(* An instance of UsbBridge: a read whose reply takes two transfers, and a *)
(* write whose frame does.                                                 *)
EXTENDS UsbBridge

CONSTANTS read, write, one, other

Frames == {read, write}
TwoWhenRead == [c \in Frames |-> IF c = read THEN 2 ELSE 1]
TwoWhenWrite == [c \in Frames |-> IF c = write THEN 2 ELSE 1]
============================================================================
