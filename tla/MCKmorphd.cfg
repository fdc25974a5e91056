CONSTANTS
  c1 = c1
  c2 = c2
  snap1 = snap1
  CPUS <- MCCpus
  SNAPSHOTS <- MCSnapshots
  IMAGE = image
  PROBE_TIMEOUTS = 3
  FENCE_RETRIES = 1
  DUMP = TRUE
  BACKLOG = 2
  MAX_REQUESTS = 2
  MAX_CRASHES = 1
SPECIFICATION MCFairSpec
INVARIANTS FenceHasReason  ReleasedOnOwnMachine  NeverTwoKernels StoppedWhileFrozen RefusalIsFinal
PROPERTIES MemoryDumpedFirst OneShot ImplementsTakeover OwnershipKept CrashDetected
CHECK_DEADLOCK FALSE
