\* Two spawned workers and the caller thread (use_caller), a fiber that may
\* yield and throw, a callable; any affinity; no task hands itself to a waker.
CONSTANTS
    t1 = t1  t2 = t2  t3 = t3  f1 = f1   c1 = c1 
    AnyThread = AnyThread  None = None  Root = t3
    Threads <- MCThreads3
    Fibers <- MCFibers
    Callables <- MCCallables
    Wakeable = {}
    OtherThrowers = {f1}
    MaxYields = 1
SPECIFICATION Spec
INVARIANT TypeOK NoLostTask StopDrains
PROPERTY StopReturns ScheduledTaskRuns ImplementsTaskPool
