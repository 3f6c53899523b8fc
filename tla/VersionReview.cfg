SPECIFICATION Spec
CONSTANTS
  None = None
  MaxVersions = 2
  Handlers = {h1, h2}
  Conversations = {c1, c2}
SYMMETRY Symmetry
INVARIANTS LiveIsApproved WaitingIsNewest ChatsOnReviewed
PROPERTIES ReviewedOnce AnswersInService
