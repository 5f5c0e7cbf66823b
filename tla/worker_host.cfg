SPECIFICATION Spec
CONSTANTS
  Pages = {p1, p2}
  NoHost = NoHost
  MaxBoots = 3
  MaxCommits = 1
  MaxSignIns = 1
  MaxTrouble = 2
INVARIANT OneWriter
PROPERTIES Watched StopsWhenIdle
CHECK_DEADLOCK FALSE
