SPECIFICATION Spec
CONSTANTS
  MAX_PULSES = 3
  BYTE = 4
  address <- MCaddress
INVARIANTS
  NeverLost
  UserStartsRight
  TicksCounted
