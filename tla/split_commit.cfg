CONSTANTS
  Commands = {create1, claimA, add, releaseA}
  Claims = {claimA}
  Releases = {releaseA}
  Creates = {create1}
  Processes = {node1, node2}
  Survivors = {}
  MaxAttempts = 2
  SnapshotEvery = 0
  Title <- MCTitle
  Size <- MCSize
  CommandId <- MCCommandId
  Unknown <- SplitCommit
  NoId = NoId
  NoCommand = NoCommand
  create1 = create1
  create2 = create2
  claimA = claimA
  claimA2 = claimA2
  releaseA = releaseA
  keyed = keyed
  again = again
  add = add
  idK = idK
  node1 = node1
  node2 = node2
SPECIFICATION Spec
CHECK_DEADLOCK FALSE
INVARIANTS
  LogContiguous
