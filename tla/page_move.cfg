CONSTANTS
  Workspaces = {w1, w2, w3}
  Pages = {p1, p2}
  Home = w1
  Attached = {p1}
  Finishers = {f1}
  HasCopier = {f1}
  OneAtATime = TRUE
  MaxMoves = 3
  MaxEdits = 1
  Nowhere = Nowhere
SPECIFICATION Spec
CHECK_DEADLOCK FALSE
INVARIANTS
  OneHome
  ForwardsLead
  AttachmentsFollow
PROPERTIES
  ImplementsPageHome
