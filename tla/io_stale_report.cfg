\* Two workers; one task reads and another writes the same descriptor, and
\* the peer only becomes readable or writable (no hang-up).
CONSTANTS
    t1 = t1  t2 = t2  x1 = x1  x2 = x2  x3 = x3  d1 = d1  d2 = d2  None = None
    Threads <- MCThreads2
    Tasks <- MCTasks2
    Fds <- MCFds1
    Events <- ReadWrite
    PeerBits <- InOut
    Ops <- NoOps
    MaxOps = 2
    UserTimers <- NoTimers
    Uses <- ReaderWriter
    Root = None
SPECIFICATION Spec
INVARIANT NoAssertionFailure
