SPECIFICATION Spec
CONSTANTS
  TICK_RANGE = 4
  CHUNK = 2
  PAGE_SIZE = 2
  USER_FIRST_PAGE = 2
  NUM_PAG_DATA = 2
  NUM_PAG_CODE = 1
  ADDR_RANGE = 16
  MAX_SYSCALL = 11
  NR_WRITE = 4
  NR_GETTIME = 10
  BREAK = 4
  char_map <- MCchar_map
  NUL = "nul"
  KeyChars <- MCKeyChars
  Sysnos <- MCSysnos
  Fds <- MCFds
  Buffers <- MCBuffers
  Sizes <- MCSizes
  Scancodes <- MCScancodes
  KBC_MAX = 2
INVARIANTS
  TypeOK
  NoNesting
  InServiceMatches
  NoStrandedKey
  TickConservation
  WriteInOrder
  WriteAllOrNothing
  ErrnoContract
PROPERTY
  ImplementsSyscalls
