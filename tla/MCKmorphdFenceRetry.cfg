CONSTANTS
  c1 = c1
  c2 = c2
  snap1 = snap1
  CPUS <- MCCpus
  SNAPSHOTS <- MCSnapshots
  IMAGE = image
  PROBE_TIMEOUTS = 2
  FENCE_RETRIES = 2
  DUMP = TRUE
  BACKLOG = 2
  MAX_REQUESTS = 0
  MAX_CRASHES = 0
SPECIFICATION MCFairSpec
PROPERTY FenceRetried
CHECK_DEADLOCK FALSE
