CONSTANTS
  c1 = c1
  c2 = c2
  net1 = net1
  net2 = net2
  Identity <- MCIdentity
  MAX_FAULTS = 1
  u1 = u1
  u2 = u2
  root = root
  home = home
  boot = boot
  None = None
  COMMANDS <- MCCommands
  DEVS <- MCDevs
  UNSUPPORTED <- MCUnsupported
  TABLES <- MCTables
  FREEZE_MAX = 2
  d1 = d1
  d2 = d2
  own = own
  unit = unit
  DEVICES <- MCDevices
  BOOTED <- MCBooted
  UNITS <- MCUnits
  MAX_CRASHES = 1
  Command <- MCTwoCommands
  MAX_IDS = 2
  MAX_CHANGES = 1
SPECIFICATION AdoptionAlone
INVARIANT IommuAlwaysQuiet
