------------------------------ MODULE FdTable ------------------------------
(***************************************************************************)
(* The descriptor-context table of IOManager (src/src/IOManager.cpp):      *)
(* m_fdContexts, a vector of FdContext pointers guarded by the RWMutex     *)
(* m_mutex, grown by contextResize, read by addEvent, delEvent,            *)
(* cancelEvent and cancelAll.                                              *)
(*                                                                         *)
(* addEvent tests the size under the read lock, releases it, and then      *)
(* takes the write lock to call contextResize(fd * 1.5) without testing    *)
(* the size again.  Each locked section is one atomic step here; what      *)
(* matters is what other threads do between them.                          *)
(*                                                                         *)
(* Only the descriptors of the callers are tracked.  An FdContext is named *)
(* by its descriptor and a generation: <<fd, g>> is the g-th FdContext     *)
(* contextResize created for fd.  slot[fd] = 0 stands for an index past    *)
(* the end of the vector.  The event mask of a context is abstracted to    *)
(* armed or not: every caller adds one event.                              *)
(***************************************************************************)
EXTENDS Integers

CONSTANTS
    Callers,    \* threads calling addEvent, then cancelAll, on their own fd
    FdOf,       \* [Callers -> descriptor]
    InitSize    \* contextResize(32) in IOManager::IOManager

Fds == {FdOf[c] : c \in Callers}

VARIABLES
    size,       \* m_fdContexts.size()
    slot,       \* [Fds -> generation held at m_fdContexts[fd], 0 if none]
    gen,        \* [Fds -> number of FdContexts created for fd]
    armed,      \* set of <<fd, g>> whose m_events is not NONE
    kreg,       \* [Fds -> generation epoll holds as data.ptr, 0 if none]
    pc,         \* [Callers -> program point]
    ctx         \* [Callers -> generation of the local fd_ctx]

vars == <<size, slot, gen, armed, kreg, pc, ctx>>

\* contextResize (IOManager.cpp:81-90): resize the vector to n, then give
\* every null entry a new FdContext.  Entries at n or beyond are dropped.
ContextResize(n) ==
    LET fresh(fd) == fd < n /\ (fd >= size \/ slot[fd] = 0) IN
    /\ size' = n
    /\ gen'  = [fd \in Fds |-> IF fresh(fd) THEN gen[fd] + 1 ELSE gen[fd]]
    /\ slot' = [fd \in Fds |-> IF fd >= n THEN 0
                               ELSE IF fresh(fd) THEN gen'[fd] ELSE slot[fd]]

\* size_t(fd * 1.5) (IOManager.cpp:102): the product is truncated.
GrowTo(fd) == (fd * 3) \div 2

Init ==
    /\ size = InitSize
    /\ slot = [fd \in Fds |-> IF fd < InitSize THEN 1 ELSE 0]
    /\ gen  = [fd \in Fds |-> IF fd < InitSize THEN 1 ELSE 0]
    /\ armed = {}
    /\ kreg = [fd \in Fds |-> 0]
    /\ pc = [c \in Callers |-> "add"]
    /\ ctx = [c \in Callers |-> 0]

\* addEvent, the read-locked test (IOManager.cpp:93-99): a descriptor
\* inside the table takes its context; otherwise the lock is dropped.
LookupForAdd(c) ==
    LET fd == FdOf[c] IN
    /\ pc[c] = "add"
    /\ IF size > fd
       THEN pc' = [pc EXCEPT ![c] = "arm"] /\ ctx' = [ctx EXCEPT ![c] = slot[fd]]
       ELSE pc' = [pc EXCEPT ![c] = "grow"] /\ UNCHANGED ctx
    /\ UNCHANGED <<size, slot, gen, armed, kreg>>

\* addEvent, the write-locked growth (IOManager.cpp:100-104): the size
\* seen under the read lock is not tested again.
Grow(c) ==
    LET fd == FdOf[c] IN
    /\ pc[c] = "grow"
    /\ ContextResize(GrowTo(fd))
    /\ pc' = [pc EXCEPT ![c] = "arm"]
    /\ ctx' = [ctx EXCEPT ![c] = slot'[fd]]
    /\ UNCHANGED <<armed, kreg>>

\* addEvent under fd_ctx->mutex (IOManager.cpp:106-139): EPOLL_CTL_ADD on
\* a context without events, which the kernel refuses (EEXIST, return -1)
\* while another context of fd is registered; on success the event is
\* armed and the caller parks until it fires or is cancelled.
Arm(c) ==
    LET fd == FdOf[c]
        ok == kreg[fd] = 0 IN
    /\ pc[c] = "arm"
    /\ <<fd, ctx[c]>> \notin armed
    /\ kreg'  = IF ok THEN [kreg EXCEPT ![fd] = ctx[c]] ELSE kreg
    /\ armed' = IF ok THEN armed \cup {<<fd, ctx[c]>>} ELSE armed
    /\ pc' = [pc EXCEPT ![c] = IF ok THEN "parked" ELSE "failed"]
    /\ UNCHANGED <<size, slot, gen, ctx>>

\* cancelAll(fd) (IOManager.cpp:203-238), called by another thread (the
\* close hook): false past the end of the table or on a context without
\* events; otherwise EPOLL_CTL_DEL and every armed event is triggered,
\* which resumes its parked caller.
CancelAll(fd) ==
    /\ size > fd
    /\ <<fd, slot[fd]>> \in armed
    /\ armed' = armed \ {<<fd, slot[fd]>>}
    /\ kreg' = [kreg EXCEPT ![fd] = 0]
    /\ pc' = [c \in Callers |-> IF FdOf[c] = fd /\ pc[c] = "parked"
                                 THEN "done" ELSE pc[c]]
    /\ UNCHANGED <<size, slot, gen, ctx>>

Next ==
    \/ \E c \in Callers : LookupForAdd(c) \/ Grow(c) \/ Arm(c)
    \/ \E fd \in Fds : CancelAll(fd)

Spec == Init /\ [][Next]_vars

TypeOK ==
    /\ size \in Nat
    /\ slot \in [Fds -> Nat] /\ gen \in [Fds -> Nat]
    /\ armed \subseteq (Fds \X Nat)
    /\ pc \in [Callers -> {"add", "grow", "arm", "parked", "done", "failed"}]

\* The table only grows (spec.md: addEvent "grows the descriptor-context
\* table if needed"; write locks are taken "only during growth"), so the
\* context an armed event lives in stays the one m_fdContexts[fd] holds,
\* and delEvent, cancelEvent and cancelAll, which look it up there, can
\* always reach the event.
ArmedContextInTable ==
    \A e \in armed : e[1] < size /\ slot[e[1]] = e[2]

=============================================================================
