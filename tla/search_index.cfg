CONSTANTS
  Readers = {r1}
  Versions <- MCVersions
  Pages = {p1, p2}
  Changes <- MCChanges
  MaxCommits = 3
  NoRead = NoRead
SPECIFICATION FairSpec
CHECK_DEADLOCK FALSE
INVARIANTS
  NoWaiterMissed
PROPERTIES
  AnsweredWithoutTimer
  ImplementsDerivedIndex
