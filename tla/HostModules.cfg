CONSTANTS
    f1 = f1
    f2 = f2
    f3 = f3
    Files <- MCFiles
    Dir <- MCDir
    Host = host
    Nobody = nobody
SPECIFICATION FairSpec
INVARIANTS TypeOK NoScanInsideIteration ProvidersExist NoLoadableFileLeftBehind LoadedOnce StoppedBeforeUnloaded
PROPERTIES LoadingEnds UnloadingEnds
CHECK_DEADLOCK FALSE
