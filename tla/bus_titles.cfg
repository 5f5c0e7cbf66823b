CONSTANTS
  Commands = {create1, claimA, claimA2}
  Claims = {claimA, claimA2}
  Releases = {}
  Creates = {create1}
  Processes = {node1, node2}
  Survivors = {}
  MaxAttempts = 2
  SnapshotEvery = 2
  Title <- MCTitle
  Size <- MCSize
  CommandId <- MCKeyedClaim
  Unknown <- OlderModels
  NoId = NoId
  NoCommand = NoCommand
  create1 = create1
  create2 = create2
  claimA = claimA
  claimA2 = claimA2
  releaseA = releaseA
  keyed = keyed
  again = again
  add = add
  idK = idK
  node1 = node1
  node2 = node2
SPECIFICATION Spec
CHECK_DEADLOCK FALSE
INVARIANTS
  BusInvariant
  TitlesUnique
  SnapshotResumable
  RefusedLeavesNoTrace
PROPERTIES
  ImplementsSerial
