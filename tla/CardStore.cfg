CONSTANTS
  MaxImage = 4
  MaxFaults = 2
  MaxCrashes = 2
  Missing = Missing
  BadSize = BadSize
SPECIFICATION Spec
INVARIANTS
  Durable
  CleanMeansSaved
  SaveFailsOnlyOnFault
  BootFailsOnlyOnFault
PROPERTIES
  ForeignImageUntouched
  BackupWasCommitted
  CardPromiseKept
