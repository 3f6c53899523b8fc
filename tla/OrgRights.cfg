SPECIFICATION Spec
CONSTANTS
  None = None
  People = {founder, ann, bob}
  Founder = founder
  Actors = {founder, ann, bob}
  Handlers = {h1, h2}
  InitialRoles = {"none", "member", "admin"}
  Nameable = {ann}
  Delegators = {ann}
  Overlaps = FALSE
SYMMETRY Symmetry
INVARIANTS NoTakeover NobodyIsStuck
