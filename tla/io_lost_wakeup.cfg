\* One worker blocks in epoll_wait while the main thread schedules a task.
CONSTANTS
    t1 = t1  t2 = t2  x1 = x1  x2 = x2  x3 = x3  d1 = d1  d2 = d2  None = None
    Threads <- MCThreads1
    Tasks <- MCTasks1
    Fds <- MCFds1
    Events <- Read
    PeerBits <- In
    Ops <- NoOps
    MaxOps = 2
    UserTimers <- NoTimers
    Uses <- OneReader
    Root = None
SPECIFICATION Spec
INVARIANT IdleWorkerTickled
