\* Three changes, a queue of two, a message of another kind, and one lost connection.
CONSTANTS
  Throttle = 2
  Capacity = 2
  NoTask = NoTask
  Telemetry = Telemetry
  MaxChanges = 3
  MaxOthers = 1
  MaxCloses = 1
SPECIFICATION FairSpec
INVARIANTS TypeOK DirtyHasTask
PROPERTIES ThrottleKept Settles
