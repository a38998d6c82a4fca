SPECIFICATION UserSpec
CONSTANTS
  TICK_RANGE = 4
  CHUNK = 4
  PAGE_SIZE = 32
  USER_FIRST_PAGE = 8
  NUM_PAG_DATA = 1
  NUM_PAG_CODE = 1
  ADDR_RANGE = 512
  MAX_SYSCALL = 11
  NR_WRITE = 4
  NR_GETTIME = 10
  BREAK = 4
  char_map <- MCchar_map
  NUL = "nul"
  KeyChars <- MCKeyChars
  Sysnos <- MCNone
  Fds <- MCFds
  Buffers <- MCNone
  Sizes <- MCSizes
  Scancodes <- MCNone
  KBC_MAX = 1
  rodata <- MCrodata
  CHAR_AT = 306
  ITOA_AT = 307
  Texts <- MCNone
  Numbers <- MCNone
  Eips <- MCNone
  COPY_EIP = 74565
  Junk <- MCJunk
INVARIANT TimePrinted
