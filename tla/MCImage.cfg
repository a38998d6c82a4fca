SPECIFICATION ImageFairSpec
CONSTANTS
  SECTORS = 5
  SEGMENT = 7
  PARAGRAPHS = 2
  LOADER_AT = 28
  WORD = 144
  BYTE = 12
  SECTOR = 8
  BUF = 16
  PARA = 4
  IM_SIZE_AT = 1
  RDTR = 100
  Files <- MCFiles
  BootFiles <- MCBootFiles
INVARIANTS
  ImageTypeOK
  ImageComplete
  ReadsAreLegal
  ImageInOrder
  KernelArrives
  UserArrives
PROPERTY ImageBoots
