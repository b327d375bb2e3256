SPECIFICATION Spec
CONSTANTS
  a = a
  b = b
  c = c
  Launch <- MCLaunch
  Rules <- MCRules
  NoStdout = {c}
  Default = "default"
INVARIANT
  RegisteredWhenDone
CHECK_DEADLOCK FALSE
