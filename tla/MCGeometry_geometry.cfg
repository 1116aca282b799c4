\* Up to three stops on up to three segments, all distances up to MaxCost; lines of up to
\* four places, with and without a column of distances.
SPECIFICATION GeomSpec
CONSTANTS
  MaxStops = 3
  MaxSegments = 3
  MaxCost = 2
  Width = 2
  a = a
  b = b
  c = c
  None = None
  Threshold = 1
  Instances <- AllInstances
  Totals <- AllTotals
  Calls <- AllCalls
INVARIANTS DPTypeOK Cheapest InOrder NearestKept AheadIsNearest MergedOnce
\* The functions return.
CHECK_DEADLOCK FALSE
