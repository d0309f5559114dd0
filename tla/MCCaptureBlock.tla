--------------------------- MODULE MCCaptureBlock ---------------------------
(* Instances of CaptureBlock, and what the runs ask of it.                 *)
EXTENDS CaptureBlock

CONSTANTS MaxWindows

AllConfigs == {c \in LegalConfigs : c.window_count <= MaxWindows}

(* The window reaches past the samples already taken when the tick comes.  *)
PastLatency(c) == c.capture_len - c.pre_trigger_len > Latency
(* Longer than the latency, so that the samples a late trigger sample      *)
(* loses are not simply all of the window.                                 *)
LongConfigs == {c \in AllConfigs : c.capture_len > Latency + 1}
OrderedConfigs == {c \in AllConfigs : PastLatency(c)}

(* Two windows that fill the buffer, with history and without.             *)
ShortConfigs == {c \in OrderedConfigs : c.window_count = 2 /\ 2 * c.capture_len = Depth}

(* Without history, a window that is full when its tick arrives completes  *)
(* with ready still high, and the trigger block holds off for ever; the    *)
(* host sees every other capture end.                                      *)
SelfRearming(c) ==
  c.window_count = 1 \/ c.pre_trigger_len > 0 \/ c.capture_len > Latency + 1
FillsUnlessHeldOff == state # "IDLE" /\ SelfRearming(cfg) ~> state = "IDLE"
=============================================================================
