CONSTANTS
    Workers = {w1}
    Main = main
    NoThread = none
    Jobs = {j1, j2}
    NoJob = nojob
    Platforms = {"win32"}
    MaxDepth = 3
    MaxExits = 1
SPECIFICATION Spec
INVARIANT MainThreadNeverWaits
CHECK_DEADLOCK FALSE
