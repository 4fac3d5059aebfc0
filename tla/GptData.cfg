SPECIFICATION Spec
CONSTANTS
  Word = 64
  TableSectors = 2
  Alignment = 3
  MinAlignment = 2
  SeekLimit = 20
  Sizes <- MCSizes
  MadeUp <- MCMadeUp
  Images <- MCImages
  Garbage <- MCGarbage
INVARIANTS
  StartedOver
  OneCopyIntact
  SavedPartitionSane
  VerdictExact
PROPERTIES
  FailedLoadHarmless
