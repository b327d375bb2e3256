SPECIFICATION FairSpec
CONSTANTS
  MaxPid = 3
  Inherited = {h1}
  Self = self
  Other = other
INVARIANTS RunsConfined
PROPERTIES ImplementsDoqueru ImplementsRootSwitch
CHECK_DEADLOCK FALSE
