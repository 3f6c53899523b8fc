SPECIFICATION DraftSpec
CONSTANTS
  None = None
  doc = doc
  sales = sales
  Sources = {doc}
  Databases = {sales}
  Tools = {}
  Servers = {}
  Roles = {"retrieval", "sql"}
  Handlers = {h1, h2}
  Starts <- MCStarts
  Misdrawn <- MCMisdrawn
  MaxSaves = 2
SYMMETRY Symmetry
INVARIANTS InSync FixesClear NothingIgnored
PROPERTIES WiringKept
CHECK_DEADLOCK FALSE
