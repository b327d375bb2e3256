SPECIFICATION Spec
CONSTANTS
  i1 = i1
  i2 = i2
  i3 = i3
  i4 = i4
  Inst <- Four
  Program <- Programs4
INVARIANTS IInv HostUntouched LostOnlyToOthers LeftoverMeansCrash Confined
PROPERTY ContainersUndisturbed
CHECK_DEADLOCK FALSE
