SPECIFICATION FairSpec
CONSTANTS
  MaxPid = 5
  Inherited = {h1}
INVARIANTS IInv ExitLeavesNothing InitLeavesLast
PROPERTIES Supervises ContainerEnds ZombiesReaped
CHECK_DEADLOCK FALSE
