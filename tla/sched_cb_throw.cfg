\* One worker; the callable may throw something not derived from std::exception.
CONSTANTS
    t1 = t1  t2 = t2  t3 = t3  f1 = f1  c1 = c1
    AnyThread = AnyThread  None = None  Root = None
    Threads <- MCThreads1
    Fibers <- MCFibers
    Callables <- MCCallables
    Wakeable = {}
    OtherThrowers = {c1}
    MaxYields = 1
SPECIFICATION Spec
INVARIANT NoAssertionFailure
