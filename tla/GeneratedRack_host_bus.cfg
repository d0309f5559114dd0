SPECIFICATION Spec
CONSTANTS
  Descriptions <- MCDescriptions
  StreamWidths <- MCStreamWidths
INVARIANT HostBusesRideTheHostClock
