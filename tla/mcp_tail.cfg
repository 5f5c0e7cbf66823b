CONSTANTS
  Runners = {r1, r2}
  Reprojector = reprojector
  None = none
  Pages <- MCPages
  Change <- MCChange
  MaxCommits = 3
  MaxReloads = 1
  MaxCrashes = 1
  MaxFailures = 1
SPECIFICATION FairSpec
INVARIANTS OwnWritesServed RestIsCurrent IndexHonest
PROPERTY CatchesUp
CHECK_DEADLOCK FALSE
CONSTRAINT NotOverlapped
