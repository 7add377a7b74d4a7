\* A reader and a writer share a descriptor and a third task removes one of the two events with delEvent.
CONSTANTS
    t1 = t1  t2 = t2  x1 = x1  x2 = x2  x3 = x3  d1 = d1  d2 = d2  None = None
    Threads <- MCThreads1
    Tasks <- MCTasks3
    Fds <- MCFds1
    Events <- ReadWrite
    PeerBits <- InOut
    Ops <- Del
    MaxOps = 2
    UserTimers <- NoTimers
    Uses <- ReaderWriter
    Root = None
SPECIFICATION Spec
INVARIANT EpollDataIsFdContext
