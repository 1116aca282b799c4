\* Two runs of one vehicle, one after the other, and an operator who sets it moving.
CONSTANTS
  v1 = v1  r1 = r1  r2 = r2
  Roster = {v1}
  Vehicles = {v1}
  Runs = {r1, r2}
  NoRun = NoRun
  VehicleOf <- OnlyVehicle
  MaxTracks = 2
  Start = 0
  Length = 2
  Positions <- Line
  Stops = {1, 2}
  NoStop = 0
  Strides = {1}
  DwellTicks = 1
  IdleTicks = 2
  NoVehicle = NoVehicle
  ShapeFiles <- AllShapes
  Knobs = {"jump_to_terminal"}
  MaxControls = 1
  Drives <- AnyDrive
  DbRunning = {"Tracking"}
  DbClosing = {"Completed"}
  Failures = {}
SPECIFICATION SimSpec
PROPERTIES SilencedAtTerminal
