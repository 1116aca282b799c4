(* One run, and a databus that may be out of reach: get_run_state answers None then too. *)
CONSTANTS
  v1 = v1  v2 = v2  r1 = r1  r2 = r2  r3 = r3
  Roster = {v1}
  Vehicles = {v1}
  Runs = {r1}
  NoRun = NoRun
  VehicleOf <- SharedVehicle
  MaxTracks = 1
  Start = 0
  Positions = {0}
  Drives = {}
  DbRunning = {"Tracking"}
  DbClosing = {"Completed"}
  Failures = {"None"}
SPECIFICATION Spec
PROPERTIES LiveRunKeepsVehicle
