CONSTANTS
    f1 = f1
    f2 = f2
    f3 = f3
    Files <- MCFiles
    Dir <- MCDir
    Host = host
    Nobody = nobody
SPECIFICATION Spec
INVARIANT OnlyLoadedModulesStart
CHECK_DEADLOCK FALSE
