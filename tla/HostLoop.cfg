CONSTANTS
    Workers = {w1, w2}
    Main = main
    NoThread = none
    Jobs = {j1, j2, j3}
    NoJob = nojob
    Platforms = {"linux", "win32"}
    MaxDepth = 3
    MaxExits = 1
SPECIFICATION Spec
SYMMETRY Symmetry
INVARIANTS TypeOK JobsLiveWhileHeld TickleCoversQueue
PROPERTY ImplementsMainThreadCalls
CHECK_DEADLOCK FALSE
