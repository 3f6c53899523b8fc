SPECIFICATION FairSpec
CONSTANTS
  a1 = a1
  a2 = a2
  b1 = b1
  ca = ca
  cb = cb
  None = None
  Turns <- MCTurns
  Convs <- MCConvs
  ConvOf <- MCConvOf
  Procs = {p1, p2}
  Slots = 1
  Cap = 2
  Limit = 3
  Call = 2
  Side = 1
  MaxStops = 1
  MaxFaults = 1
  MaxOther = 1
INVARIANTS SlotsAccounted CapKept LimitKept
PROPERTIES StopEnds
