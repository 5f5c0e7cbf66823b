SPECIFICATION FairSpec
CONSTANTS
  folder = folder
  page = page
  p1 = p1
  p2 = p2
  p3 = p3
  p4 = p4
  e1 = e1
  e2 = e2
  Pages <- MCPages
  Paths <- MCPaths
  Bodies = {1, 2}
  MaxCommits = 3
  Tree <- MCTree
  Nothing = nothing
  Emitters = {e1, e2}
  Types <- MCTypes
  MaxTrouble = 1
  MaxTimeouts = 1
INVARIANTS RestIsMirror NoOrphans
PROPERTIES PageKept CatchesUp
CHECK_DEADLOCK FALSE
