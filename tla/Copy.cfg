\* The slots of copy(); input of up to five buffers.
SPECIFICATION FairSpec
CONSTANTS
  NULL = NULL
  Workers <- MCNoWorkers
  TotalInSlots = 2
  TotalOutSlots = 2
  InGranul = 2
  FileLens = {0, 1, 2, 7, 8, 10}
  SpuriousWakeups = TRUE
  Word = 8
INVARIANTS
  SlotsBalance
  RaisedOnce
PROPERTIES
  CopiesInput
  Termination
