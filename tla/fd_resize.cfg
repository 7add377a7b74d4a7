\* Two callers whose descriptors both lie past the initial table.
CONSTANTS
    c1 = c1
    c2 = c2
    Callers <- TwoCallers
    FdOf <- CallerFds
    InitSize = 32
SPECIFICATION Spec
CHECK_DEADLOCK FALSE
INVARIANT ArmedContextInTable
