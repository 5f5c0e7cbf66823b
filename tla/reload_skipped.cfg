CONSTANTS
  Runners = {r1, r2}
  Reprojector = reprojector
  None = none
  Pages <- MCPages
  Change <- MCChange
  MaxCommits = 2
  MaxReloads = 1
  MaxCrashes = 0
  MaxFailures = 0
SPECIFICATION Spec
INVARIANT ReloadRefolds
CHECK_DEADLOCK FALSE
