SPECIFICATION Spec
CONSTANTS
  Words <- MCWords
  strtoul <- MCstrtoul
  MaxArgs = 5
  Slots = 4
  ULong = 16777216
  UChar = 128
  ChecksMemory = TRUE
INVARIANTS
  TypeOK
  AllOrNothing
  LastOptionWins
  SlotsSuffice
  CpuInBounds
CHECK_DEADLOCK FALSE
