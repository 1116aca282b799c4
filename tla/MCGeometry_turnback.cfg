\* Lines of up to three places that may turn back, up to three stops, and the dynamic
\* program alone on instances of that size.
SPECIFICATION GeomSpec
CONSTANTS
  MaxStops = 3
  MaxSegments = 2
  MaxCost = 2
  Width = 2
  a = a
  b = b
  c = c
  None = None
  Threshold = 1
  Instances <- AllInstances
  Totals <- AllTotals
  Calls <- AllCalls
INVARIANTS KeepsTravelOrder
\* The functions return.
CHECK_DEADLOCK FALSE
