\* Two rides of one vehicle, one after the other, each set off by an operator.
CONSTANTS
  v1 = v1  r1 = r1  r2 = r2
  Roster = {v1}
  Vehicles = {v1}
  Runs = {r1, r2}
  NoRun = NoRun
  VehicleOf <- OnlyVehicle
  MaxTracks = 2
  Start = 0
  Length = 3
  Positions <- Line
  Stops = {1, 2, 3}
  NoStop = 0
  Strides = {1}
  DwellTicks = 1
  IdleTicks = 1
  NoVehicle = NoVehicle
  ShapeFiles <- AllShapes
  Knobs = {"moving"}
  MaxControls = 2
  Drives <- AnyDrive
  DbRunning = {"Tracking"}
  DbClosing = {"Completed"}
  Failures = {}
SYMMETRY Alike
SPECIFICATION SimSpec
PROPERTIES StoppedAtItsStop
