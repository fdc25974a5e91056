CONSTANTS
  c1 = c1
  c2 = c2
  snap1 = snap1
  CPUS <- MCCpus
  SNAPSHOTS <- MCSnapshots
  IMAGE = image
  PROBE_TIMEOUTS = 2
  FENCE_RETRIES = 1
  DUMP = FALSE
  BACKLOG = 2
  MAX_REQUESTS = 2
  MAX_CRASHES = 1
SPECIFICATION MCSpec
PROPERTY FailureIsFinal
CHECK_DEADLOCK FALSE
