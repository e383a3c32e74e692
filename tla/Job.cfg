\* Signals from outside at any time; every system call of the main thread and every
\* thread of the job may fail.
SPECIFICATION FairSpec
CONSTANTS
  Number <- MCNumber
  mx_worker = 8
  num_online = 2
  CommandLines <- MCCommandLines
  Disks <- MCDisks
  SubThreads <- MCSubThreads
  Writers <- MCWriters
  NULL = NULL
INVARIANTS
  TypeOK
  NoPartialOutput
  NothingLost
  StatusTells
  PipeTold
PROPERTIES
  Termination
