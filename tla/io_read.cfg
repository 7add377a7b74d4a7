\* Two workers, two tasks reading their own descriptors, with delEvent and
\* cancelEvent from any task.
CONSTANTS
    t1 = t1  t2 = t2  x1 = x1  x2 = x2  x3 = x3  d1 = d1  d2 = d2  None = None
    Threads <- MCThreads2
    Tasks <- MCTasks2
    Fds <- MCFds2
    Events <- Read
    PeerBits <- In
    Ops <- DelCancel
    MaxOps = 2
    UserTimers <- TimerX2
    Uses <- OwnFds
    Root = None
SPECIFICATION Spec
INVARIANT TypeOK KernelMatchesArmed PendingMatchesArmed NoLostTask WaiterUnique TimerTaskParked StopWaitsForIO
PROPERTY ArmedReadyEventFires TimerFires ImplementsTaskPool StopReturns
