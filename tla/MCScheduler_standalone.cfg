\* Complete entries and a databus that is out of reach.
CONSTANTS
  a = a  b = b
  Ids = {a, b}
  Entries <- Complete
  NoEntry = NoEntry
  Documents <- CompleteDocuments
  Invalid = {}
  Requests = {q1}
  Outcomes = {"broken"}
  MaxEdits = 1
SPECIFICATION Spec
INVARIANTS OutlivesErrors
