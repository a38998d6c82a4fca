SPECIFICATION Spec
CONSTANTS
  NUM_COLUMNS = 3
  NUM_ROWS = 2
  FIRST_ROW = 1
  Letters <- MCLetters
  NL = "nl"
  NUL = "nul"
  Blank = "blank"
  MAX_LENGTH = 2
  ClockCells <- MCClockCells
PROPERTY ImplementsTerminal
