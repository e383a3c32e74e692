\* The block codec and the parser.
CONSTANTS
  GROUP_SIZE = 4
  MAX_CODE_LENGTH = 4
  MAX_HUFF_CODE_LENGTH = 9
  cluster_factor = 2
  Thresholds <- MCThresholds
  PACK = 20
  Chars <- MCChars
  max_block_size = 16
  MAX_RUN_LENGTH = 6
  HUFF_START_WIDTH = 2
  ROW_WIDTH = 2
  SLIDE_LENGTH = 34
  MAX_BLOCK_SIZE = 18
  MAX_SELECTORS_USED = 6
  FAST_WORDS = 1
  RAND_THRESH = 5
  rand_table <- MCrand
  Inputs <- MCInputs
  InputBuffers = {1, 3, 100}
  BitBuffers = {1, 2, 100}
  OutputBuffers = {1, 2, 100}
  LiveBits = {0, 24}
  Faulty <- MCFaulty
  Files <- MCFiles
  Buffers = {1, 2, 100}
SPECIFICATION MCSpec
INVARIANTS
  RoundTrip
  SizesExact
  CodesOptimal
  RetrieverInBounds
  ParsesFormat
  ScanFinds
