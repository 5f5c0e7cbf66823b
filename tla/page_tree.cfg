CONSTANTS
  Pages = {f1, a1, a2}
  Types = {feature, adr}
  TypeOf <- MCTypeOf
  Required <- MCRequired
  Numbered = {adr}
  Names = {A}
  Titles <- MCTitles
  ChildTitle <- MCChildTitle
  Edges <- MCEdges
  Others = {away}
  Imports <- MCImports
  MaxSerial = 2
  MaxLag = 2
  Absent = Absent
  Root = Root
  Here = Here
  feature = feature
  adr = adr
  f1 = f1
  a1 = a1
  a2 = a2
  A = A
  B = B
  away = away
SPECIFICATION IndexSpec
CHECK_DEADLOCK FALSE
INVARIANTS
  TreeWellFormed
  LinksResolve
  FrozenClosed
  DocsCurrent
PROPERTIES
  FrozenUnchanged
