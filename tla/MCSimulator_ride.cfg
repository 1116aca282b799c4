\* One run, motion controls of an operator, and a run whose shape is known.
CONSTANTS
  v1 = v1  r1 = r1  r2 = r2
  Roster = {v1}
  Vehicles = {v1}
  Runs = {r1}
  NoRun = NoRun
  VehicleOf <- OnlyVehicle
  MaxTracks = 1
  Start = 0
  Length = 3
  Positions <- Line
  Stops = {1, 3}
  NoStop = 0
  Strides = {1, 2}
  DwellTicks = 1
  IdleTicks = 2
  NoVehicle = NoVehicle
  ShapeFiles <- AnyShapes
  Knobs = {"transmit", "moving", "jump_to_terminal", "set_progress", "dwell"}
  MaxControls = 2
  Drives <- AnyDrive
  DbRunning = {"Tracking"}
  DbClosing = {"Completed"}
  Failures = {}
SPECIFICATION FairSimSpec
INVARIANTS SimTypeOK
PROPERTIES OnAirHasRun RideEnds FallsSilent BinderUndisturbed
