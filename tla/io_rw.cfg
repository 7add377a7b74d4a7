\* IOManager(1, true), the default: the main thread is the only worker and
\* runs the reactor inside stop().  One task reads and another writes the
\* same descriptor, so the registration moves between ADD, MOD and DEL;
\* cancelAll from any task.
CONSTANTS
    t1 = t1  t2 = t2  x1 = x1  x2 = x2  x3 = x3  d1 = d1  d2 = d2  None = None
    Threads <- MCThreads1
    Tasks <- MCTasks2
    Fds <- MCFds1
    Events <- ReadWrite
    PeerBits <- InOut
    Ops <- CancelAllSleep
    MaxOps = 2
    UserTimers <- NoTimers
    Uses <- ReaderWriter
    Root = t1
SPECIFICATION Spec
INVARIANT TypeOK KernelMatchesArmed PendingMatchesArmed NoLostTask WaiterUnique TimerTaskParked StopWaitsForIO
PROPERTY ArmedReadyEventFires TimerFires ImplementsTaskPool StopReturns
