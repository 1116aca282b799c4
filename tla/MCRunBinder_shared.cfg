\* Two runs of one vehicle, one tracked twice, and a run of a vehicle that is not in
\* the roster; every kind of failed call.
CONSTANTS
  v1 = v1  v2 = v2  r1 = r1  r2 = r2  r3 = r3
  Roster = {v1}
  Vehicles = {v1, v2}
  Runs = {r1, r2, r3}
  NoRun = NoRun
  VehicleOf <- SharedVehicle
  MaxTracks = 3
  Start = 0
  Positions = {0}
  Drives = {}
  DbRunning = {"Tracking"}
  DbClosing = {"Cancelled"}
  Failures = {"None", "raised"}
\* A poll task killed by an unknown vehicle is a real stop.
CHECK_DEADLOCK FALSE
SYMMETRY Alike
SPECIFICATION Spec
INVARIANTS TypeOK BoundIsPolled ClosedIsRetired
PROPERTIES LabelSpoiltByOtherRun LiveRunOustedByAnswer ImplementsAssignment
