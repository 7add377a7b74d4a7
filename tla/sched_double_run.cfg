\* Two workers; the fiber hands itself to a waker before parking.
CONSTANTS
    t1 = t1  t2 = t2  t3 = t3  f1 = f1  c1 = c1
    AnyThread = AnyThread  None = None  Root = None
    Threads <- MCThreads2
    Fibers <- MCFibers
    Callables <- MCCallables
    Wakeable = {f1}
    OtherThrowers = {}
    MaxYields = 2
SPECIFICATION Spec
INVARIANT NoFiberOnTwoThreads
