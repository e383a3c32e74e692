\* Sequential collecting: two workers, few output slots.
SPECIFICATION Spec
CONSTANTS
  w1 = w1
  w2 = w2
  NULL = NULL
  Workers <- MCTwoWorkers
  TotalInSlots = 3
  TotalOutSlots = 3
  InGranul = 2
  FileLens = {0, 3, 5}
  SpuriousWakeups = FALSE
  ultra = TRUE
INVARIANTS
  AtExitClean
PROPERTIES
  ImplementsOrderedOutput
