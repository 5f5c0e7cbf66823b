CONSTANTS
  model = model
  plain = plain
  cited = cited
  draft = draft
  words = words
  Slots <- Rubric
  Titles = {plain}
  SlotTitle <- RubricTitle
  Drafts <- Written
  Known = {words}
  Suits <- Typed
  Cites <- Citations
  NoSlot = NoSlot
  MaxSections = 2
  MaxDepth = 1
  MaxNotes = 1
  MaxNew = 2
  MaxRemoved = 2
  MaxMoved = 6
SPECIFICATION Spec
INVARIANT VerifiedWasSigned
PROPERTIES
  StatusIsDerived
  ApprovedIsComplete
  SlotsKept
CONSTRAINT FirstAtTop
