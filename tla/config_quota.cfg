SPECIFICATION Spec
CONSTANTS
  Words <- MCWords
  strtoul <- MCstrtoul
  MaxArgs = 4
  Slots = 4
  ULong = 16777216
  UChar = 128
  ChecksMemory = TRUE
INVARIANT
  QuotaIsPositive
CHECK_DEADLOCK FALSE
