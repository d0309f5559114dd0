SPECIFICATION Spec
CONSTANTS
  Descriptions <- MCDescriptions
  StreamWidths <- MCStreamWidths
INVARIANTS RackIsWhole ClocksAreCrossed TriggersAgree HostFindsBlocks
