SPECIFICATION Spec
CONSTANTS
  None = None
  People = {founder, ann}
  Founder = founder
  Actors = {founder, ann}
  Handlers = {h1, h2}
  InitialRoles = {"owner"}
  Nameable = {}
  Delegators = {}
  Overlaps = TRUE
INVARIANTS AnOwnerRemains
CHECK_DEADLOCK FALSE
