CONSTANTS
  MaxImage = 2
  MaxFaults = 3
  MaxCrashes = 1
  Missing = Missing
  BadSize = BadSize
  Erased = Erased
  NoCard = NoCard
SPECIFICATION PersistenceSpec
INVARIANTS
  MemoryOfOneMoment
  CardMatchesSnapshot
  SnapshotKept
PROPERTIES
  SplitOnlyAfterCutOrRecovery
