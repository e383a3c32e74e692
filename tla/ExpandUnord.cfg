\* Two workers, and the slots that --small gives them, on a block with false
\* patterns that the master passes before they have been judged.
SPECIFICATION Spec
CONSTANTS
  w1 = w1
  w2 = w2
  w3 = w3
  NULL = NULL
  Workers <- MCTwoWorkers
  TotalInSlots = 2
  TotalOutSlots = 4
  InGranul = 16
  Streams <- MCRiddled
  FileLens <- MCFileLens
  SpuriousWakeups = FALSE
  ultra = FALSE
SYMMETRY MCSymmetry
INVARIANTS
  UnordFits
