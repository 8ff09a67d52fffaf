CONSTANTS
    Workers = {w1, w2}
    Main = main
    NoThread = none
    Jobs = {j1, j2}
    NoJob = nojob
    Platforms = {"linux", "win32"}
    MaxDepth = 3
    MaxExits = 0
SPECIFICATION FairSpec
PROPERTIES QueuedCallsRun SyncCallsReturn
CHECK_DEADLOCK FALSE
