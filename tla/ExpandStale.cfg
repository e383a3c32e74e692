\* A false pattern whose bits can be read as a block for longer than the parser
\* takes to pass it.
SPECIFICATION Spec
CONSTANTS
  w1 = w1
  w2 = w2
  w3 = w3
  NULL = NULL
  Workers <- MCTwoWorkers
  TotalInSlots = 3
  TotalOutSlots = 3
  InGranul = 16
  Streams <- MCGuessed
  FileLens <- MCFileLens
  SpuriousWakeups = FALSE
  ultra = FALSE
SYMMETRY MCSymmetry
INVARIANTS
  NothingReleasedIsAttached
