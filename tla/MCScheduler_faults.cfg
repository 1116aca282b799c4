\* Two ids, one of them edited; two requests that overlap; every way create_run may end.
CONSTANTS
  a = a  b = b
  Ids = {a, b}
  Entries <- AllEntries
  NoEntry = NoEntry
  Documents <- AllDocuments
  Invalid <- Refused
  Requests = {q1, q2}
  Outcomes = {"created", "refused", "broken", "broken_created"}
  MaxEdits = 2
\* A scheduler task killed by an error is a real stop.
CHECK_DEADLOCK FALSE
SPECIFICATION FairSpec
INVARIANTS TypeOK AtMostOneRun NoOrphan
PROPERTIES DueIsRequested StartsMoving ImplementsDispatch
