\* use_caller with one spawned worker: the fiber yields READY, so a spawned
\* worker may re-queue it after the caller's run loop has seen stopping().
CONSTANTS
    t1 = t1  t2 = t2  t3 = t3  f1 = f1  c1 = c1
    AnyThread = AnyThread  None = None  Root = t2
    Threads <- MCThreads2
    Fibers <- MCFibers
    Callables <- MCCallables
    Wakeable = {}
    OtherThrowers = {}
    MaxYields = 1
SPECIFICATION Spec
INVARIANT RootSchedulerFiberLive
