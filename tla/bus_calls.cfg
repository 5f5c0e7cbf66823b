CONSTANTS
  Commands = {create1, keyed, again}
  Claims = {keyed, again}
  Releases = {}
  Creates = {create1}
  Processes = {node1, node2}
  Survivors = {}
  MaxAttempts = 1
  SnapshotEvery = 0
  Title <- MCTitle
  Size <- MCSize
  CommandId <- MCCommandId
  Unknown <- SameModels
  NoId = NoId
  NoCommand = NoCommand
  create1 = create1
  create2 = create2
  claimA = claimA
  claimA2 = claimA2
  releaseA = releaseA
  keyed = keyed
  again = again
  add = add
  idK = idK
  node1 = node1
  node2 = node2
SPECIFICATION FairSpec
CHECK_DEADLOCK FALSE
INVARIANTS
  AppliedOnce
  ConflictsAreReal
  ReadYourWrites
PROPERTIES
  CallsReturn
  TailCatchesUp
