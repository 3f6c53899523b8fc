SPECIFICATION FairSpec
CONSTANTS
  ann = ann
  bob = bob
  None = None
  Requests = {r1}
  People <- MCPeople
  Inputs = {i1}
  Handlers = {h1}
  Executors = {e1}
  ExecutorMode = "queue"
  ConfirmTTL = 1
  ApproverTTL = 2
  StuckAfter = 2
  UnclaimedAfter = 1
  RunLimit = 1
  MaxAge = 3
  MaxFaults = 1
  Role <- MCRole
  Named = {}
  StandIn <- MCStandIn
  SoleSwitch = FALSE
  Askers <- MCAnn
  Leavers <- MCAnn
  Changes = {"pause", "service"}
INVARIANTS PostsAgree
PROPERTIES RunsOnlyWhileExecuting KeepsContract EveryRequestEnds
