SPECIFICATION Spec
CONSTANTS
  a = a
  b = b
  c = c
  Launch <- MCLaunch
  Rules <- MCRules
  NoStdout = {c}
  Default = "default"
INVARIANTS
  TypeOK
  LimitsInForce
CHECK_DEADLOCK FALSE
