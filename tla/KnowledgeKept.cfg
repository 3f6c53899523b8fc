SPECIFICATION Spec
CONSTANTS
  Contents = {A, B}
  Jobs = {1, 2}
  MaxVersions = 2
  MaxEvents = 2
SYMMETRY Symmetry
INVARIANTS LiveKeepsItsDocs
CHECK_DEADLOCK FALSE
