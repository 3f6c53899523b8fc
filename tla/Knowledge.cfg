SPECIFICATION FairSpec
CONSTANTS
  Contents = {A, B}
  Jobs = {1, 2}
  MaxVersions = 2
  MaxEvents = 2
INVARIANTS NeededAreKept OneCurrent
PROPERTIES IndexStays SourceSettles
CHECK_DEADLOCK FALSE
