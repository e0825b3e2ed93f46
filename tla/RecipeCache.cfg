CONSTANT a = a
CONSTANT b = b
CONSTANT own = own
CONSTANT Proc <- MCProc
CONSTANT Pids <- MCPids
CONSTANT PidSet <- MCPidSet
CONSTANT Key = {k1, k2}
CONSTANT Inode = {1, 2, 3, 4, 5, 6}
CONSTANT MaxBuilds = 2
CONSTANT Torn = Torn
CONSTANT NoFile = NoFile
SPECIFICATION Spec
INVARIANT IInv
INVARIANT OwnRecipe
INVARIANT StoredWhole
INVARIANT NoLitter
PROPERTY StoredStays
CHECK_DEADLOCK FALSE
