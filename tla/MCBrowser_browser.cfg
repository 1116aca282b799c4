CONSTANTS
  Runs = {r1}
  DbRunning = {"Tracking"}
  DbClosing = {"Cancelled"}
  Failures = {"None", "raised"}
  Absent = Absent
  Clearings = {c1, c2}
  NoClear = NoClear
  MaxInFlight = 2
  MaxClicks = 3
SPECIFICATION FairSpec
INVARIANTS BrowserTypeOK
PROPERTIES OnlyEndedCleared ChipSettles PollingEnds
