CONSTANTS
    l1 = l1
    l2 = l2
    e1 = e1
    e2 = e2
    c1 = c1
    exit = exit
    read = read
    Workers = {w1}
    Main = main
    NoThread = nothread
    Objects = {root, window}
    Root = root
    Listeners <- MCListeners
    NoListener = nolistener
    Callbacks = {c1}
    NoCallback = nocallback
    Names = {exit, read}
    All = all
    Events <- MCEventSet
    NoEvent = noevent
    EventName <- MCEventName
    ListenerCallback <- MCCallback
    MaxDepth = 3
SPECIFICATION Spec
INVARIANT CopiedListenersExist
