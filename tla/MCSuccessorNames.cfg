CONSTANTS
  None = None
  p1 = p1
  p2 = p2
  n1 = n1
  n2 = n2
  NETWORKS <- MCNetworks
  SKIP = {}
  KERNEL_NAMES <- MCNames
  MAX_LINKS = 2
  MAX_ADDRS = 2
  MAX_ROUTES = 2
  TEXT_MAX = 8
  MAX_CLOCK = 2
  MAX_ERRORS = 0
  MAX_FAILURES = 0
SPECIFICATION SuccessorSpec
INVARIANT NamesBack
CHECK_DEADLOCK FALSE
