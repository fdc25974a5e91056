CONSTANTS
  WIDTH = 3
  CAPACITY = 1
  PAGE = 2
  CHUNK = 4
  NOTE_MAX = 3
  EHDR_SIZE = 1
  PHDR_SIZE = 1
  PHNUM_MAX = 4
  SIZES <- MCSizes
  NODES <- MCNodes
  PROPS <- MCProps
  VALUES <- MCValues
  MAX_RSV = 2
  PATH_LEN = 6
  BUILD_SIZE = 112
  BUILD_MAX = 896
  UINT_WIDTH = 2
  SHIFT <- MCShift
  SCALE <- MCScale
  LINES <- MCLines
  MAX_LINES = 2
  ENTRIES <- MCEntries
  MAX_ENTRIES = 3
SPECIFICATION DataSpec
INVARIANT BadTableRefused
VIEW MCView
CHECK_DEADLOCK FALSE
