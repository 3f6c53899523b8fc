SPECIFICATION FairSpec
CONSTANTS
  ann = ann
  bob = bob
  Anns = {1, 2}
  Convs = {1, 2, 3}
  People = {ann, bob}
  Owner <- MCOwner
  Old = {1, 2, 3}
  Batch = 2
  MaxBatches = 2
  MaxAsked = 1
  MaxFaults = 1
INVARIANTS RecordedUnlessDied Reapplied
PROPERTIES QuietAreErased ErasedLeaveNothing
