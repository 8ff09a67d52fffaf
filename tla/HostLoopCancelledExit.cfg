CONSTANTS
    Workers = {w1}
    Main = main
    NoThread = none
    Jobs = {j1, j2}
    NoJob = nojob
    Platforms = {"linux"}
    MaxDepth = 3
    MaxExits = 1
SPECIFICATION Spec
INVARIANT QuitOnlyAfterAcceptedExit
CHECK_DEADLOCK FALSE
