\* Two runs, each on its own vehicle; databus answers or the call raises.
CONSTANTS
  v1 = v1  v2 = v2  r1 = r1  r2 = r2  r3 = r3
  Roster = {v1, v2}
  Vehicles = {v1, v2}
  Runs = {r1, r2}
  NoRun = NoRun
  VehicleOf <- OwnVehicle
  MaxTracks = 2
  Start = 0
  Positions = {0}
  Drives <- OnOff
  DbRunning = {"Tracking"}
  DbClosing = {"Cancelled"}
  Failures = {"raised"}
SPECIFICATION FairSpec
PROPERTIES EndedRunReleased ConfirmedRunBound
