\* use_caller with no spawned thread: the caller thread alone runs the tasks
\* inside stop(); the fiber and the callable may hand themselves to a waker
\* and be woken by a running task (possibly themselves) before or after parking.
CONSTANTS
    t1 = t1  t2 = t2  t3 = t3  f1 = f1  c1 = c1
    AnyThread = AnyThread  None = None  Root = t1
    Threads <- MCThreads1
    Fibers <- MCFibers
    Callables <- MCCallables
    Wakeable = {f1, c1}
    OtherThrowers = {}
    MaxYields = 3
SPECIFICATION Spec
INVARIANT TypeOK NoLostTask StopDrains
PROPERTY StopReturns ScheduledTaskRuns ImplementsTaskPool
