---------------------------- MODULE MCGuiSession ----------------------------
(* An instance of GuiSession: two builds that share an instrument.         *)
EXTENDS GuiSession

CONSTANTS wide, narrow, la, bx, v1, v2

HoldsOf(image) == IF image = wide THEN {la, bx} ELSE {la}
=============================================================================
