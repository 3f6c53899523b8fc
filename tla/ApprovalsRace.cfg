SPECIFICATION Spec
CONSTANTS
  ann = ann
  bob = bob
  None = None
  Requests = {r1}
  People <- MCPeople
  Inputs = {i1, i2}
  Handlers = {h1, h2}
  Executors = {e1, e2}
  ExecutorMode = "inline"
  ConfirmTTL = 1
  ApproverTTL = 1
  StuckAfter = 1
  UnclaimedAfter = 1
  RunLimit = 1
  MaxAge = 2
  MaxFaults = 1
  Role <- MCRole
  Named = {}
  StandIn <- MCStandIn
  SoleSwitch = FALSE
  Askers <- MCAnn
  Leavers <- MCNobody
  Changes = {}
SYMMETRY Symmetry
INVARIANTS RunsAtMostOnce RunsOnlyWhatWasApproved OneStory
