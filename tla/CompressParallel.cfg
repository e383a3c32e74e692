\* Two workers and so few slots that every one of them is fought for; waits
\* may end without a signal; fair scheduling.
SPECIFICATION FairSpec
CONSTANTS
  w1 = w1
  w2 = w2
  NULL = NULL
  Workers <- MCTwoWorkers
  TotalInSlots = 2
  TotalOutSlots = 3
  InGranul = 2
  FileLens = {0, 3, 8}
  SpuriousWakeups = TRUE
  ultra = FALSE
INVARIANTS
  TypeOK
  ResourcesConserved
  NextTaskFresh
  NoLostWakeup
  EveryByteOnce
  PositionsFollowBytes
  NextIsSuccessor
  OutputNeverStarves
  UnitForNextBlock
PROPERTIES
  ImplementsOrderedOutput
  Termination
