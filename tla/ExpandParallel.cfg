\* Two workers on all streams, sound and damaged ones, with false patterns;
\* waits may end without a signal; fair scheduling.
SPECIFICATION FairSpec
CONSTANTS
  w1 = w1
  w2 = w2
  w3 = w3
  NULL = NULL
  Workers <- MCTwoWorkers
  TotalInSlots = 3
  TotalOutSlots = 3
  InGranul = 16
  Streams <- MCAll
  FileLens <- MCFileLens
  SpuriousWakeups = TRUE
  ultra = FALSE
INVARIANTS
  ResourcesConserved
  OneMaster
  InputAvailable
  QueuesFit
  AtExitClean
PROPERTIES
  ImplementsSequentialDecoder
  Termination
