\* Three workers, and the slots that --small gives them (2 for each).
SPECIFICATION Spec
CONSTANTS
  w1 = w1
  w2 = w2
  w3 = w3
  NULL = NULL
  Workers <- MCThreeWorkers
  TotalInSlots = 2
  TotalOutSlots = 6
  InGranul = 16
  Streams <- MCCrowded
  FileLens <- MCFileLens
  SpuriousWakeups = FALSE
  ultra = FALSE
SYMMETRY MCSymmetry
INVARIANTS
  NeverStuck
