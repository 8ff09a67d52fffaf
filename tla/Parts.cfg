SPECIFICATION PartsSpec
CONSTANTS
    AsyncJobs = {job1}
    NoAsyncJob = noJob
    Requests = {request1, request2}
    NoRequest = noRequest
    MaxCallbacks = 2
    MaxProgress = 1
    Threads = {thread1, thread2}
    Global = global
    Api = api
    ApiName = API
    other = other
    getter = getter
    setter = setter
    Empty = empty
    Setters <- OtherSetters
    Getters <- OtherGetters
    Created = {object1, object2}
    AMethod = method
    Primitive = primitive
    Undefined = undefined
    Tokens = {API, other, getter, setter, empty}
    Keys <- AllKeys
    MaxWrites = 3
    Elements = {element1, element2}
    NoElement = noElement
    AnyElement = anyElement
    MaxLength = 4
    n1 = n1
    n2 = n2
    c1 = c1
    c2 = c2
    c3 = c3
    g1 = g1
    g2 = g2
    Natives = {n1, n2}
    NativeContext <- ContextOfNative
    Wrappers = {wrapper1, wrapper2}
    Proxies = {proxy1, proxy2}
    KObjects = {kobject}
    Contexts = {c1, c2, c3}
    Groups = {g1, g2}
    ContextGroup <- GroupOfContext
    NoValue = noValue
    window1 = window1
    Windows = {window1, window2}
    NoWindow = noWindow
    MaxDepth = 3
    MaxAssignments = 2
    MaxFunctions = 1
    MaxAdded = 3
    MaxThrown = 1
    MaxEvents = 4
    LogThreads = {logger1, logger2}
    NoThread = noThread
    root = root
    module = module
    child = child
    Loggers = {root, module, child}
    RootLogger = root
    ParentLogger <- LoggerTree
    LoggerCallbacks = {callback1, callback2}
    Levels = {1, 2}
    MaxEntries = 3
    MaxSinks = 2
SYMMETRY ThreadSymmetry
INVARIANTS
    PartsTypeOK
    JobsLiveWhileReachable
    CallbacksSeeTheirOutcome
    OutcomeReportedOnce
    InstallerServesItsCall
    BoundPropertyNeverMissing
    NamespaceReadsBack
    ListKeepsItsElements
    ProxiedObjectsExist
    
    CrossingBackUnwraps
    PhpStateFollowsStack
    
    CallbacksFollowTheFile
CHECK_DEADLOCK FALSE
