SPECIFICATION FairSpec
CONSTANT MaxPid = 4
INVARIANTS TypeOK OneLauncher ParentLast NamespacesApart
PROPERTIES AllReaped
CHECK_DEADLOCK FALSE
