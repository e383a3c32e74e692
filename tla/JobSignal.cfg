\* A signal from outside that is delivered together with SIGUSR2.
SPECIFICATION Spec
CONSTANTS
  Number <- MCNumber
  mx_worker = 8
  num_online = 2
  CommandLines <- MCCommandLines
  Disks <- MCDisks
  SubThreads <- MCSubThreads
  Writers <- MCWriters
  NULL = NULL
INVARIANTS
  SignalHonoured
