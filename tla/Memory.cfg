SPECIFICATION Spec
CONSTANTS
  None = None
  Requests = {r1}
  Threshold = 3
  Recent = 2
  MaxTurns = 4
  MaxFaults = 1
  MaxChanges = 1
INVARIANTS SessionOfItsSummary NothingForgotten KnowsPast EndingsTold CostIsWhole
CHECK_DEADLOCK FALSE
