----------------------------- MODULE IOManager -----------------------------
(***************************************************************************)
(* The epoll reactor of sylar (src/src/IOManager.cpp): per-descriptor      *)
(* event registration (addEvent, delEvent, cancelEvent, cancelAll), the    *)
(* idle fiber that blocks in epoll_wait and turns readiness into           *)
(* scheduled fibers, the tickle pipe, and the stop condition that waits    *)
(* for pending events.                                                     *)
(*                                                                         *)
(* The scheduler loop it inherits (Scheduler::run) is kept to its effect   *)
(* on the reactor: a worker takes a task and runs it, or enters the idle   *)
(* fiber counted in m_idleThreadCount.  A task's run up to its next        *)
(* suspension is one step here; the interleavings inside a run are the     *)
(* subject of module Scheduler.                                            *)
(*                                                                         *)
(* The kernel side is modelled as epoll behaves in edge-triggered mode: a  *)
(* registration holds a mask and a user-data word; a descriptor enters the *)
(* ready list when it becomes ready for a bit of its mask (or hangs up),   *)
(* or when ADD/MOD finds it ready; epoll_wait takes the ready list and      *)
(* reports, per descriptor, its readiness masked by the registration.      *)
(***************************************************************************)
EXTENDS Naturals, Sequences, SequencesExt, FiniteSets, FiniteSetsExt

CONSTANTS
    Threads,    \* worker threads
    Tasks,      \* fibers scheduled by the main thread; they wait on descriptors
    Fds,        \* file descriptors the tasks use
    Events,     \* event kinds the tasks wait for, a subset of {"READ", "WRITE"}
    PeerBits,   \* readiness the peers may raise, a subset of {"IN", "OUT", "HUP"}
    Ops,        \* other calls the tasks make, a subset of {"del", "cancel", "cancelAll", "sleep"}
    MaxOps,     \* bound on the calls of one task
    Uses,       \* <<task, fd, event>>: the waits each task's code performs
    UserTimers, \* tasks the main thread starts through a timer instead of schedule()
    Root,       \* with use_caller, the constructing (main) thread, one of Threads; else None
    None

ASSUME /\ Events \subseteq {"READ", "WRITE"}
       /\ PeerBits \subseteq {"IN", "OUT", "HUP"}
       /\ Ops \subseteq {"del", "cancel", "cancelAll", "sleep"}
       /\ MaxOps \in Nat
       /\ Uses \subseteq Tasks \X Fds \X Events
       /\ UserTimers \subseteq Tasks
       /\ Root \in Threads \cup {None}

\* Scheduler::Scheduler (scheduler.cpp:17-36): with use_caller the main
\* thread counts as one of the threads and start() spawns the others.
Spawned == Threads \ {Root}

\* IOManager::Event: READ = EPOLLIN, WRITE = EPOLLOUT (IOManager.h:17-21).
Bit(e) == IF e = "READ" THEN "IN" ELSE "OUT"
Bits(m) == {Bit(e) : e \in m}

VARIABLES
    queue,      \* m_fibers, tasks only
    tstate,     \* fiber state of each task: INIT, EXEC, HOLD or TERM
    ops,        \* calls made by each task
    pc,         \* where each worker is
    cur,        \* the task running on each worker, or None
    evq,        \* events returned by epoll_wait still to process, per worker
    idleTerm,   \* the worker's idle fiber has terminated
    active,     \* m_activeThreadCount
    idleCount,  \* m_idleThreadCount
    armed,      \* FdContext::m_events
    waiter,     \* FdContext::read/write .fiber
    pending,    \* m_pendingEventCount
    kreg,       \* the descriptor is registered in the epoll instance
    kmask,      \* its registered mask, as the event kinds it stands for
    kdata,      \* its registered user data: "ctx" (the FdContext) or "stale"
    ready,      \* readiness of each descriptor, raised by its peer
    inList,     \* the descriptor is on epoll's ready list
    dropped,    \* history: tasks whose wait delEvent removed without waking them
    pipeReady,  \* the tickle pipe's read end is on the ready list
    autoStop, stopFlag, mainPc, scheduled,
    rootState,  \* m_rootFiber's state, "NONE" without use_caller
    aborted,
    timers,     \* TimerManager::m_timers, as the task each timer's callback schedules
    due,        \* the timers whose deadline has passed
    tickled,    \* TimerManager::m_tickled
    tmo         \* the epoll_wait timeout each worker computed: "next", "max" or "none"

vars == <<queue, tstate, ops, pc, cur, evq, idleTerm, active, idleCount, armed, waiter,
          pending, kreg, kmask, kdata, ready, inList, dropped, pipeReady, autoStop,
          stopFlag, mainPc, scheduled, rootState, aborted, timers, due, tickled, tmo>>

fdVars == <<armed, waiter, pending, kreg, kmask, kdata, inList, dropped>>
mainVars == <<autoStop, stopFlag, mainPc, scheduled, rootState>>
timerVars == <<timers, due, tickled, tmo>>

-----------------------------------------------------------------------------
(* The kernel.                                                             *)

\* What epoll reports for a descriptor: its readiness within the mask;
\* EPOLLHUP is always reported.
Reported(fd, m) == ready[fd] \cap (Bits(m) \cup {"HUP"})

\* epoll_ctl(op, fd, {mask, data}): whether it succeeds, and its effect.
CtlOk(op, fd) == IF op = "ADD" THEN ~kreg[fd] ELSE kreg[fd]

Ctl(op, fd, m, d) ==
    /\ kreg' = [kreg EXCEPT ![fd] = (op # "DEL")]
    /\ kmask' = [kmask EXCEPT ![fd] = IF op = "DEL" THEN {} ELSE m]
    /\ kdata' = [kdata EXCEPT ![fd] = IF op = "DEL" THEN "ctx" ELSE d]
    /\ inList' = [inList EXCEPT ![fd] = op # "DEL" /\ (@ \/ Reported(fd, m) # {})]

\* A peer makes the descriptor ready; readiness here is never consumed.
PeerReady(fd, b) ==
    /\ ~aborted
    /\ b \notin ready[fd]
    /\ ready' = [ready EXCEPT ![fd] = @ \cup {b}]
    /\ inList' = [inList EXCEPT ![fd] = @ \/ (kreg[fd] /\ b \in Bits(kmask[fd]) \cup {"HUP"})]
    /\ UNCHANGED <<timerVars, queue, tstate, ops, pc, evq, idleTerm, active, idleCount, armed,
                   waiter, pending, kreg, kmask, kdata, dropped, pipeReady, cur, mainVars,
                   aborted>>

\* A timer's deadline passes.  Deadlines are not kept: any pending timer
\* may be the next to expire, which also covers a clock set back by more
\* than an hour, after which every timer is due at once.
Elapse(x) ==
    /\ ~aborted
    /\ x \in timers \ due
    /\ due' = due \cup {x}
    /\ UNCHANGED <<queue, tstate, ops, pc, cur, evq, idleTerm, active, idleCount, fdVars,
                   ready, pipeReady, mainVars, aborted, timers, tickled, tmo>>

-----------------------------------------------------------------------------
(* The scheduler side.                                                     *)

\* IOManager::tickle (IOManager.cpp:245-251), called when c holds: it
\* returns early when there is an idle thread and otherwise writes a byte
\* to the tickle pipe.
TickleIf(c) == pipeReady' = (pipeReady \/ (c /\ idleCount = 0))

\* Scheduler::schedule (scheduler.h) of the waiters ws, in order: append
\* them under m_mutex, and tickle when the queue was empty.
ScheduleAll(ws) ==
    /\ queue' = queue \o ws
    /\ TickleIf(ws # <<>> /\ queue = <<>>)

\* TimerManager::getNextTimer returns UINT64_MAX, and hasTimer is false,
\* exactly when m_timers is empty.
HasTimer == timers # {}

\* IOManager::stopping (IOManager.cpp:253-261) over Scheduler::stopping.
\* Mutant: IOManager::stopping without the m_pendingEventCount test.
StoppingIgnoresPending ==
    autoStop /\ stopFlag /\ queue = <<>> /\ active = 0 /\ ~HasTimer

\* Mutant: IOManager::stopping without the getNextTimer test.
StoppingIgnoresTimers ==
    autoStop /\ stopFlag /\ queue = <<>> /\ active = 0 /\ pending = 0

Stopping ==
    autoStop /\ stopFlag /\ queue = <<>> /\ active = 0 /\ pending = 0 /\ ~HasTimer

\* A failed SYLAR_ASSERT, or a dereference of a stale pointer, ends the
\* process.
Abort ==
    /\ aborted' = TRUE
    /\ pc' = [t \in Threads |-> "aborted"]

Init ==
    /\ queue = <<>>
    /\ tstate = [x \in Tasks |-> "INIT"]
    /\ ops = [x \in Tasks |-> 0]
    /\ pc = [t \in Threads |-> IF t = Root THEN "off" ELSE "sched"]
    /\ cur = [t \in Threads |-> None]
    /\ evq = [t \in Threads |-> {}]
    /\ idleTerm = [t \in Threads |-> FALSE]
    /\ active = 0
    /\ idleCount = 0
    /\ armed = [fd \in Fds |-> {}]
    /\ waiter = [fd \in Fds |-> [e \in Events |-> None]]
    /\ pending = 0
    /\ kreg = [fd \in Fds |-> FALSE]
    /\ kmask = [fd \in Fds |-> {}]
    /\ kdata = [fd \in Fds |-> "ctx"]
    /\ ready = [fd \in Fds |-> {}]
    /\ inList = [fd \in Fds |-> FALSE]
    /\ dropped = {}
    /\ pipeReady = FALSE
    /\ autoStop = FALSE
    /\ stopFlag = FALSE
    /\ mainPc = "run"
    /\ scheduled = {}
    /\ rootState = IF Root = None THEN "NONE" ELSE "INIT"
    /\ aborted = FALSE
    /\ timers = {}
    /\ due = {}
    /\ tickled = FALSE
    /\ tmo = [t \in Threads |-> "max"]


\* Mutants: the registration is always deleted, or always modified.
RearmOpAlwaysDel(left) == "DEL"
RearmOpAlwaysMod(left) == "MOD"

\* The events left after removing some: MOD to them, or DEL when none
\* (delEvent, cancelEvent and idle(): IOManager.cpp:156, 188, 328).
RearmOp(left) == IF left # {} THEN "MOD" ELSE "DEL"

\* Mutant: the new mask forgets the events already armed.
AddMaskNewOnly(fd, e) == {e}

\* addEvent's new mask: the armed events and the new one (line 116).
AddMask(fd, e) == armed[fd] \cup {e}

\* FdContext::triggerEvent (IOManager.cpp:31-42) for the events es of fd,
\* READ before WRITE: clear each armed bit and schedule its waiting fiber,
\* which schedule() moves out of the context.  Each caller decrements
\* m_pendingEventCount once per event.
\* Mutant: m_pendingEventCount is decremented once for several events.
TriggerCountsOnce(fd, es) ==
    LET ws == (IF "READ" \in es THEN <<waiter[fd]["READ"]>> ELSE <<>>)
              \o (IF "WRITE" \in es THEN <<waiter[fd]["WRITE"]>> ELSE <<>>)
    IN /\ armed' = [armed EXCEPT ![fd] = @ \ es]
       /\ waiter' = [waiter EXCEPT ![fd] = [e \in Events |-> IF e \in es THEN None ELSE @[e]]]
       /\ pending' = pending - 1
       /\ ScheduleAll(ws)
       /\ UNCHANGED dropped

\* Mutant: the armed bit is cleared but the waiter is not scheduled.
TriggerDropsWaiter(fd, es) ==
    /\ armed' = [armed EXCEPT ![fd] = @ \ es]
    /\ waiter' = [waiter EXCEPT ![fd] = [e \in Events |-> IF e \in es THEN None ELSE @[e]]]
    /\ pending' = pending - Cardinality(es)
    /\ ScheduleAll(<<>>)
    /\ UNCHANGED dropped

\* Mutant: the waiter is scheduled but the armed bit and context stay.
TriggerKeepsArmed(fd, es) ==
    LET ws == (IF "READ" \in es THEN <<waiter[fd]["READ"]>> ELSE <<>>)
              \o (IF "WRITE" \in es THEN <<waiter[fd]["WRITE"]>> ELSE <<>>)
    IN /\ armed' = armed
       /\ waiter' = waiter
       /\ pending' = pending - Cardinality(es)
       /\ ScheduleAll(ws)
       /\ UNCHANGED dropped

Trigger(fd, es) ==
    LET ws == (IF "READ" \in es THEN <<waiter[fd]["READ"]>> ELSE <<>>)
              \o (IF "WRITE" \in es THEN <<waiter[fd]["WRITE"]>> ELSE <<>>)
    IN /\ armed' = [armed EXCEPT ![fd] = @ \ es]
       /\ waiter' = [waiter EXCEPT ![fd] = [e \in Events |-> IF e \in es THEN None ELSE @[e]]]
       /\ pending' = pending - Cardinality(es)
       /\ ScheduleAll(ws)
       /\ UNCHANGED dropped

\* IOManager::onTimerInsertedAtFront (IOManager.cpp:355-357).
OnTimerInsertedAtFront == TickleIf(TRUE)

\* TimerManager::addTimer of a timer whose callback schedules x: insert it
\* in m_timers; when it sorts first and m_tickled is clear, set m_tickled
\* and call onTimerInsertedAtFront.  Whether the new deadline sorts first depends
\* on the delays, so both are possible once another timer is pending.
AddTimer(x) ==
    /\ timers' = timers \cup {x}
    /\ \E front \in IF timers = {} THEN {TRUE} ELSE BOOLEAN :
        LET notify == front /\ ~tickled IN
        /\ tickled' = (tickled \/ notify)
        /\ IF notify THEN OnTimerInsertedAtFront ELSE UNCHANGED pipeReady
    /\ UNCHANGED <<due, tmo>>

-----------------------------------------------------------------------------
(* The worker loop (Scheduler::run, scheduler.cpp:147-238).                *)

\* Take the first task and run it (scheduler.cpp:165-193).
RunTask(t) ==
    /\ pc[t] = "sched"
    /\ queue # <<>>
    /\ cur' = [cur EXCEPT ![t] = Head(queue)]
    /\ tstate' = [tstate EXCEPT ![Head(queue)] = "EXEC"]
    /\ queue' = Tail(queue)
    /\ active' = active + 1
    /\ pc' = [pc EXCEPT ![t] = "run"]
    /\ UNCHANGED <<timerVars, ops, evq, idleTerm, idleCount, fdVars, ready, pipeReady, mainVars, aborted>>

\* run() of the caller thread returns into Fiber::CallerMainFunc
\* (fiber.cpp:177-195), which sets the root fiber TERM and back()s into
\* the loop of stop().
CallerReturn ==
    /\ rootState' = "TERM"
    /\ mainPc' = "drive"

\* Nothing to run and the idle fiber has terminated: tickle and leave the
\* loop (scheduler.cpp:225-229).  A spawned worker's thread exits; the
\* caller thread's root fiber returns into stop().
IdleExit(t) ==
    /\ pc[t] = "sched"
    /\ queue = <<>>
    /\ idleTerm[t]
    /\ pipeReady' = (pipeReady \/ idleCount = 0)
    /\ IF t = Root
       THEN pc' = [pc EXCEPT ![t] = "off"] /\ CallerReturn
       ELSE pc' = [pc EXCEPT ![t] = "exited"] /\ UNCHANGED <<rootState, mainPc>>
    /\ UNCHANGED <<timerVars, queue, tstate, ops, cur, evq, idleTerm, active, idleCount, fdVars,
                   ready, autoStop, stopFlag, scheduled, aborted>>

\* Nothing to run: m_idleThreadCount++ and swap into the idle fiber
\* (scheduler.cpp:230-231).
EnterIdle(t) ==
    /\ pc[t] = "sched"
    /\ queue = <<>>
    /\ ~idleTerm[t]
    /\ idleCount' = idleCount + 1
    /\ pc' = [pc EXCEPT ![t] = "idle"]
    /\ UNCHANGED <<timerVars, queue, tstate, ops, cur, evq, idleTerm, active, fdVars, ready,
                   pipeReady, mainVars, aborted>>

\* The task's run ends: back in Scheduler::run, --m_activeThreadCount and
\* the fiber is parked HOLD or has terminated (scheduler.cpp:194-201).
EndRun(t, st) ==
    /\ tstate' = [tstate EXCEPT ![cur[t]] = st]
    /\ active' = active - 1
    /\ cur' = [cur EXCEPT ![t] = None]
    /\ pc' = [pc EXCEPT ![t] = "sched"]

\* A call of the task running on t.
Call(t, name) ==
    /\ pc[t] = "run"
    /\ name \in Ops \cup {"add"}
    /\ ops[cur[t]] < MaxOps
    /\ ops' = [ops EXCEPT ![cur[t]] = @ + 1]

\* IOManager::addEvent (IOManager.cpp:93-140) for the calling fiber, then
\* Fiber::YieldToHold, as the hooked I/O calls do.  Adding an armed event
\* fails the SYLAR_ASSERT; a failed epoll_ctl returns -1 to the task.
AddEvent(t) ==
    \E fd \in Fds, e \in Events :
        LET op == IF armed[fd] # {} THEN "MOD" ELSE "ADD" IN
        /\ Call(t, "add")
        /\ <<cur[t], fd, e>> \in Uses
        /\ IF e \in armed[fd]
           THEN /\ Abort
                /\ UNCHANGED <<queue, tstate, cur, active, fdVars, pipeReady>>
           ELSE IF ~CtlOk(op, fd)
           THEN UNCHANGED <<queue, tstate, cur, pc, active, fdVars, pipeReady, aborted>>
           ELSE /\ Ctl(op, fd, AddMask(fd, e), "ctx")
                /\ pending' = pending + 1
                /\ armed' = [armed EXCEPT ![fd] = @ \cup {e}]
                /\ waiter' = [waiter EXCEPT ![fd][e] = cur[t]]
                /\ UNCHANGED dropped
                /\ EndRun(t, "HOLD")
                /\ UNCHANGED <<queue, pipeReady, aborted>>
        /\ UNCHANGED <<timerVars, evq, idleTerm, idleCount, ready, mainVars>>

\* Mutant: delEvent forgets m_pendingEventCount--.
DelEventKeepsCount(t) ==
    \E fd \in Fds, e \in Events :
        LET left == armed[fd] \ {e}
            op == RearmOp(left)
        IN
        /\ Call(t, "del")
        /\ IF e \in armed[fd] /\ CtlOk(op, fd)
           THEN /\ Ctl(op, fd, left, "stale")
                /\ armed' = [armed EXCEPT ![fd] = left]
                /\ waiter' = [waiter EXCEPT ![fd][e] = None]
                /\ dropped' = dropped \cup {waiter[fd][e]}
                /\ UNCHANGED pending
           ELSE UNCHANGED fdVars
        /\ UNCHANGED <<timerVars, queue, tstate, pc, cur, evq, idleTerm, active, idleCount, ready,
                       pipeReady, mainVars, aborted>>

\* IOManager::delEvent (IOManager.cpp:142-172): drop the interest and the
\* waiter without waking it.  The registration it leaves carries &fd_ctx,
\* the address of a local, as user data (line 159).
DelEvent(t) ==
    \E fd \in Fds, e \in Events :
        LET left == armed[fd] \ {e}
            op == RearmOp(left)
        IN
        /\ Call(t, "del")
        /\ IF e \in armed[fd] /\ CtlOk(op, fd)
           THEN /\ Ctl(op, fd, left, "stale")
                /\ pending' = pending - 1
                /\ armed' = [armed EXCEPT ![fd] = left]
                /\ waiter' = [waiter EXCEPT ![fd][e] = None]
                /\ dropped' = dropped \cup {waiter[fd][e]}
           ELSE UNCHANGED fdVars
        /\ UNCHANGED <<timerVars, queue, tstate, pc, cur, evq, idleTerm, active, idleCount, ready,
                       pipeReady, mainVars, aborted>>

\* IOManager::cancelEvent (IOManager.cpp:174-201): as delEvent, but the
\* waiter is triggered (line 191 leaves the same stale user data).
CancelEvent(t) ==
    \E fd \in Fds, e \in Events :
        LET left == armed[fd] \ {e}
            op == RearmOp(left)
        IN
        /\ Call(t, "cancel")
        /\ IF e \in armed[fd] /\ CtlOk(op, fd)
           THEN /\ Ctl(op, fd, left, "stale")
                /\ Trigger(fd, {e})
           ELSE UNCHANGED <<fdVars, queue, pipeReady>>
        /\ UNCHANGED <<timerVars, tstate, pc, cur, evq, idleTerm, active, idleCount, ready,
                       mainVars, aborted>>

\* IOManager::cancelAll (IOManager.cpp:203-239): delete the registration
\* and trigger every armed event.
CancelAll(t) ==
    \E fd \in Fds :
        /\ Call(t, "cancelAll")
        /\ IF armed[fd] # {} /\ CtlOk("DEL", fd)
           THEN /\ Ctl("DEL", fd, {}, "stale")
                /\ Trigger(fd, armed[fd])
           ELSE UNCHANGED <<fdVars, queue, pipeReady>>
        /\ UNCHANGED <<timerVars, tstate, pc, cur, evq, idleTerm, active, idleCount, ready,
                       mainVars, aborted>>

\* The task returns: Fiber::MainFunc sets TERM (fiber.cpp:197-203).
Finish(t) ==
    /\ pc[t] = "run"
    /\ EndRun(t, "TERM")
    /\ UNCHANGED <<timerVars, queue, ops, evq, idleTerm, idleCount, fdVars, ready, pipeReady,
                   mainVars, aborted>>

\* The hooked sleep(): addTimer(ms, schedule this fiber), then
\* Fiber::YieldToHold.
Sleep(t) ==
    /\ Call(t, "sleep")
    /\ AddTimer(cur[t])
    /\ EndRun(t, "HOLD")
    /\ UNCHANGED <<queue, evq, idleTerm, idleCount, fdVars, ready, mainVars, aborted>>

-----------------------------------------------------------------------------
(* The idle fiber, IOManager::idle (IOManager.cpp:263-353).                *)

\* The timeout of line 278-285, from getNextTimer (IOManager.cpp:254):
\* the time to the next timer, capped at MAX_TIMEOUT, or MAX_TIMEOUT when
\* there is none.  Either way epoll_wait returns within 5 s; the int
\* conversion of a deadline 2^31 ms away is left out (see the README).
\* Mutant: epoll_wait blocks without a timeout when no timer is pending.
WaitTimeoutNoCeiling(hasTimer) == IF hasTimer THEN "next" ELSE "none"

WaitTimeout(hasTimer) == IF hasTimer THEN "next" ELSE "max"

\* Lines 270-285: stopping(next_timeout) calls getNextTimer; when it holds
\* the idle fiber returns and terminates, and back in run()
\* m_idleThreadCount-- (scheduler.cpp:232).  Otherwise getNextTimer gives
\* epoll_wait its timeout.  getNextTimer clears m_tickled: the reactor
\* has read the earliest deadline.
IdleCheck(t) ==
    /\ pc[t] = "idle"
    /\ tickled' = FALSE
    /\ IF Stopping
       THEN /\ idleTerm' = [idleTerm EXCEPT ![t] = TRUE]
            /\ idleCount' = idleCount - 1
            /\ pc' = [pc EXCEPT ![t] = "sched"]
            /\ UNCHANGED tmo
       ELSE /\ pc' = [pc EXCEPT ![t] = "epoll"]
            /\ tmo' = [tmo EXCEPT ![t] = WaitTimeout(HasTimer)]
            /\ UNCHANGED <<idleTerm, idleCount>>
    /\ UNCHANGED <<queue, tstate, ops, cur, evq, active, fdVars, ready, pipeReady,
                   mainVars, aborted, timers, due>>

\* Mutant: idle() forgets to remove the expired timers from m_timers.
ListExpiredKeeps == timers

\* TimerManager::listExpiredCb: the timers whose deadline has passed leave
\* m_timers (a sleep timer is one-shot).
ListExpired == timers \ due

\* Lines 276-298: epoll_wait returns when the ready list or the tickle
\* pipe has something, or when its timeout elapses; it takes the ready
\* list (a descriptor with nothing to report leaves it; every reported one
\* does, edge-triggered).  Then listExpiredCb collects the expired timers
\* in deadline order, and schedule(cbs.begin(), cbs.end()) queues their
\* callbacks under one lock, tickling if the queue was empty.  A timer's
\* callback only schedules its fiber (the sleep hook's
\* std::bind(&IOManager::schedule, iom, fiber, -1)), so the fiber is queued
\* here directly.
EpollWait(t) ==
    LET fired == {fd \in Fds : inList[fd] /\ Reported(fd, kmask[fd]) # {}}
        evs == {[fd |-> fd, bits |-> Reported(fd, kmask[fd]), data |-> kdata[fd]] : fd \in fired}
    IN
    /\ pc[t] = "epoll"
    /\ fired # {} \/ pipeReady \/ tmo[t] # "none"
    /\ evq' = [evq EXCEPT ![t] = evs \cup (IF pipeReady THEN {[fd |-> "pipe", bits |-> {"IN"}, data |-> "pipe"]} ELSE {})]
    /\ inList' = [fd \in Fds |-> FALSE]
    /\ \E cbs \in SetToSeqs(due) :
        /\ queue' = queue \o cbs
        /\ pipeReady' = (cbs # <<>> /\ queue = <<>> /\ idleCount = 0)
    /\ timers' = ListExpired
    /\ due' = {}
    /\ UNCHANGED dropped
    /\ pc' = [pc EXCEPT ![t] = "events"]
    /\ UNCHANGED <<tstate, ops, cur, idleTerm, active, idleCount, armed, waiter,
                   pending, kreg, kmask, kdata, ready, mainVars, aborted, tickled, tmo>>

\* Lines 303-307: the tickle pipe's byte is drained.
DrainPipe(t) ==
    \E ev \in evq[t] :
        /\ pc[t] = "events"
        /\ ev.fd = "pipe"
        /\ evq' = [evq EXCEPT ![t] = @ \ {ev}]
        /\ UNCHANGED <<timerVars, queue, tstate, ops, pc, cur, idleTerm, active, idleCount, fdVars,
                       ready, pipeReady, mainVars, aborted>>

\* The event kinds an epoll event stands for: error or hang-up count as
\* both readable and writable (lines 312-321).
RealEvents(bits) ==
    {e \in {"READ", "WRITE"} : Bit(e) \in bits \/ "HUP" \in bits}

\* Lines 309-345, under the FdContext mutex: downgrade the registration to
\* the events left, then trigger each real event.  triggerEvent asserts the
\* event is armed (line 32).  The user data is read back as the FdContext
\* pointer: a stale one is a dangling stack address.
ProcessEvent(t) ==
    \E ev \in evq[t] :
        LET fd == ev.fd
            real == RealEvents(ev.bits)
            left == armed[fd] \ real
            op == RearmOp(left)
        IN
        /\ pc[t] = "events"
        /\ fd # "pipe"
        /\ evq' = [evq EXCEPT ![t] = @ \ {ev}]
        /\ IF ev.data = "stale" \/ (armed[fd] \cap real # {} /\ CtlOk(op, fd) /\ ~(real \subseteq armed[fd]))
           THEN /\ Abort
                /\ UNCHANGED <<queue, fdVars, pipeReady>>
           ELSE /\ IF armed[fd] \cap real # {} /\ CtlOk(op, fd)
                   THEN /\ Ctl(op, fd, left, ev.data)
                        /\ Trigger(fd, real)
                   ELSE UNCHANGED <<queue, fdVars, pipeReady>>
                /\ UNCHANGED <<pc, aborted>>
        /\ UNCHANGED <<timerVars, tstate, ops, cur, idleTerm, active, idleCount, ready, mainVars>>

\* Lines 347-351: the idle fiber swaps out; back in run(),
\* m_idleThreadCount-- (scheduler.cpp:232-235).
\* Mutant: run() forgets m_idleThreadCount-- after the idle fiber.
IdleYieldKeepsCount(t) ==
    /\ pc[t] = "events"
    /\ evq[t] = {}
    /\ pc' = [pc EXCEPT ![t] = "sched"]
    /\ UNCHANGED <<timerVars, queue, tstate, ops, cur, evq, idleTerm, active, idleCount, fdVars, ready,
                   pipeReady, mainVars, aborted>>

IdleYield(t) ==
    /\ pc[t] = "events"
    /\ evq[t] = {}
    /\ idleCount' = idleCount - 1
    /\ pc' = [pc EXCEPT ![t] = "sched"]
    /\ UNCHANGED <<timerVars, queue, tstate, ops, cur, evq, idleTerm, active, fdVars, ready,
                   pipeReady, mainVars, aborted>>

-----------------------------------------------------------------------------
(* The main thread.                                                        *)

\* Scheduler::schedule of a task from the main thread.
UserSchedule ==
    /\ mainPc = "run" /\ ~aborted
    /\ \E x \in Tasks \ (scheduled \cup UserTimers) :
        /\ ScheduleAll(<<x>>)
        /\ scheduled' = scheduled \cup {x}
    /\ UNCHANGED <<timerVars, tstate, ops, pc, cur, evq, idleTerm, active, idleCount, fdVars,
                   ready, autoStop, stopFlag, mainPc, rootState, aborted>>

\* iom.addTimer(ms, [=]{ iom.schedule(x); }) from the main thread.
UserAddTimer ==
    /\ mainPc = "run" /\ ~aborted
    /\ \E x \in UserTimers \ scheduled :
        /\ AddTimer(x)
        /\ scheduled' = scheduled \cup {x}
    /\ UNCHANGED <<queue, tstate, ops, pc, cur, evq, idleTerm, active, idleCount, fdVars,
                   ready, autoStop, stopFlag, mainPc, rootState, aborted>>

\* stop()'s early test (scheduler.cpp:79-86): the caller thread is the only
\* one and its root fiber has not started or has terminated.  It then calls
\* stopping(), whose getNextTimer clears m_tickled, and returns if it holds.
EarlyReturn == Root # None /\ Spawned = {} /\ rootState \in {"INIT", "TERM"}

\* Scheduler::stop (scheduler.cpp:77-104): set the flags; return when the
\* early test holds and stopping() already does; else tickle once per
\* spawned worker and once more for the root fiber, then drive the root
\* fiber (use_caller) or join.
Stop ==
    /\ mainPc = "run" /\ ~aborted
    /\ autoStop' = TRUE
    /\ stopFlag' = TRUE
    /\ tickled' = (tickled /\ ~EarlyReturn)
    /\ UNCHANGED <<timers, due, tmo, queue, tstate, ops, pc, cur, evq, idleTerm, active,
                   idleCount, fdVars, ready, scheduled, rootState, aborted>>
    /\ IF EarlyReturn /\ Stopping'
       THEN mainPc' = "done" /\ UNCHANGED pipeReady
       ELSE /\ TickleIf(Spawned # {} \/ Root # None)
            /\ mainPc' = IF Root # None THEN "drive" ELSE "join"

\* The loop of stop() (scheduler.cpp:105-114): while stopping() is false,
\* recreate a terminated root fiber (a new run(), so a new idle fiber)
\* and call() it; the caller thread then runs the scheduling loop.
\* IOManager::stopping() calls getNextTimer, which clears m_tickled.
Drive ==
    /\ mainPc = "drive"
    /\ tickled' = FALSE
    /\ IF Stopping
       THEN mainPc' = "join" /\ UNCHANGED <<pc, idleTerm, rootState>>
       ELSE /\ mainPc' = "calling"
            /\ rootState' = "EXEC"
            /\ pc' = [pc EXCEPT ![Root] = "sched"]
            /\ idleTerm' = [idleTerm EXCEPT ![Root] = FALSE]
    /\ UNCHANGED <<timers, due, tmo, queue, tstate, ops, cur, evq, active, idleCount, fdVars,
                   ready, pipeReady, autoStop, stopFlag, scheduled, aborted>>

\* Scheduler::stop (scheduler.cpp:116-124): join the spawned workers.
Join ==
    /\ mainPc = "join"
    /\ \A t \in Spawned : pc[t] = "exited"
    /\ mainPc' = "done"
    /\ UNCHANGED <<timerVars, queue, tstate, ops, pc, cur, evq, idleTerm, active, idleCount,
                   fdVars, ready, pipeReady, autoStop, stopFlag, scheduled, rootState, aborted>>

Terminated ==
    /\ mainPc = "done" \/ aborted
    /\ UNCHANGED vars

Worker(t) ==
    \/ RunTask(t) \/ IdleExit(t) \/ EnterIdle(t)
    \/ AddEvent(t) \/ DelEvent(t) \/ CancelEvent(t) \/ CancelAll(t) \/ Sleep(t) \/ Finish(t)
    \/ IdleCheck(t) \/ EpollWait(t) \/ DrainPipe(t) \/ ProcessEvent(t) \/ IdleYield(t)

Next ==
    \/ \E t \in Threads :
        \/ RunTask(t) \/ IdleExit(t) \/ EnterIdle(t)
        \/ AddEvent(t) \/ DelEvent(t) \/ CancelEvent(t) \/ CancelAll(t) \/ Sleep(t) \/ Finish(t)
        \/ IdleCheck(t) \/ EpollWait(t) \/ DrainPipe(t) \/ ProcessEvent(t) \/ IdleYield(t)
    \/ \E fd \in Fds, b \in PeerBits : PeerReady(fd, b)
    \/ \E x \in Tasks : Elapse(x)
    \/ UserSchedule \/ UserAddTimer \/ Stop \/ Drive \/ Join
    \/ Terminated

\* Workers are OS threads and epoll_wait returns within MAX_TIMEOUT (5 s),
\* so each worker keeps taking steps; time passes, so every pending
\* deadline is eventually reached.  Peers and the main thread need not
\* act, except that a stopping main thread drives its root fiber and joins.
Fairness == /\ \A t \in Threads : WF_vars(Worker(t))
            /\ \A x \in Tasks : WF_vars(Elapse(x))
            /\ WF_vars(Drive) /\ WF_vars(Join)

Spec == Init /\ [][Next]_vars /\ Fairness

-----------------------------------------------------------------------------
(* Properties.                                                             *)

TypeOK ==
    /\ tstate \in [Tasks -> {"INIT", "EXEC", "HOLD", "TERM"}]
    /\ ops \in [Tasks -> 0..MaxOps]
    /\ pc \in [Threads -> {"off", "sched", "run", "idle", "epoll", "events", "exited", "aborted"}]
    /\ rootState \in {"NONE", "INIT", "EXEC", "TERM"}
    /\ cur \in [Threads -> Tasks \cup {None}]
    /\ active \in 0..Cardinality(Threads)
    /\ idleCount \in 0..Cardinality(Threads)
    /\ armed \in [Fds -> SUBSET Events]
    /\ pending \in Nat
    /\ kdata \in [Fds -> {"ctx", "stale"}]
    /\ ToSet(queue) \subseteq Tasks
    /\ due \subseteq timers /\ timers \subseteq Tasks
    /\ tmo \in [Threads -> {"next", "max", "none"}]

\* The epoll registration of every descriptor is exactly FdContext::m_events:
\* registered iff some event is armed, with that mask.  addEvent chooses
\* ADD or MOD from m_events, and idle() re-registers the events left after
\* an event (IOManager.cpp:114-126, 327-335); a wrong mask loses or
\* spuriously reports readiness.
KernelMatchesArmed ==
    \A fd \in Fds : /\ kreg[fd] = (armed[fd] # {})
                    /\ kmask[fd] = armed[fd]

\* m_pendingEventCount counts the armed events of all descriptors, across
\* addEvent, delEvent, cancelEvent, cancelAll and idle(); stopping() relies
\* on it.
PendingMatchesArmed ==
    pending = Cardinality({<<fd, e>> \in Fds \X Events : e \in armed[fd]})

\* Where a scheduled task is: finished, queued, running on a worker, or
\* parked HOLD as the waiter of an armed event, or scheduled by a pending
\* timer.
Accounted(x) ==
    \/ tstate[x] = "TERM"
    \/ x \in ToSet(queue)
    \/ \E t \in Threads : cur[t] = x
    \/ tstate[x] = "HOLD" /\ \E fd \in Fds : \E e \in armed[fd] : waiter[fd][e] = x
    \/ x \in timers

\* No task is lost: every scheduled task is accounted for, or was removed
\* by delEvent, which drops the waiter without scheduling it (line 170).
\* Catches a trigger or a cancel that clears an event without scheduling
\* its fiber.
NoLostTask ==
    \A x \in scheduled : Accounted(x) \/ x \in dropped

\* A parked waiter is waiting on one event only and is not also queued:
\* otherwise a second trigger would resume it while it runs elsewhere.
WaiterUnique ==
    \A fd, fd2 \in Fds : \A e \in armed[fd], e2 \in armed[fd2] :
        /\ waiter[fd][e] \in Tasks
        /\ waiter[fd][e] \notin ToSet(queue)
        /\ waiter[fd][e] = waiter[fd2][e2] => <<fd, e>> = <<fd2, e2>>

\* When stop() returns (Scheduler::stop, IOManager::stopping) no event is
\* armed, no timer is pending and nothing is queued: the workers waited
\* for all pending I/O and timers.
StopWaitsForIO ==
    mainPc = "done" => /\ queue = <<>>
                       /\ \A fd \in Fds : armed[fd] = {}
                       /\ timers = {}

\* A task a pending timer will schedule is parked: not yet started, or HOLD
\* in the sleep hook, and neither queued nor running.  Otherwise the
\* callback listExpiredCb hands to schedule() resumes a fiber that is
\* queued or running elsewhere, as when a fired one-shot timer stays in
\* m_timers and fires again.
TimerTaskParked ==
    \A x \in timers : /\ tstate[x] \in {"INIT", "HOLD"}
                      /\ x \notin ToSet(queue)
                      /\ \A t \in Threads : cur[t] # x

\* Every pending timer eventually fires: its deadline passes, some worker
\* returns from epoll_wait within its timeout and listExpiredCb hands the
\* callback to schedule().  This needs idle() to keep running while a
\* timer is pending (IOManager::stopping checks getNextTimer) and a finite
\* epoll_wait timeout, since tickle() does not wake an idle worker when a
\* timer is inserted at the front (IOManager.cpp:246, 356).
TimerFires ==
    \A x \in Tasks : (x \in timers) ~> (x \notin timers)

\* An armed event whose descriptor is ready is eventually delivered:
\* epoll reports it to some idle() and the event is triggered (or the task
\* cancels it).
ArmedReadyEventFires ==
    \A fd \in Fds, e \in Events :
        (e \in armed[fd] /\ Bit(e) \in ready[fd]) ~> (e \notin armed[fd])

\* Scheduling work while every worker blocks in epoll_wait writes the
\* tickle pipe (IOManager::tickle, IOManager.cpp:245-251), so a worker
\* wakes to run it instead of sleeping out MAX_TIMEOUT.
IdleWorkerTickled ==
    (queue # <<>> /\ \A t \in Threads : pc[t] = "epoll") => pipeReady

\* A registered descriptor's user data is its FdContext, the pointer
\* idle() dereferences (IOManager.cpp:309); delEvent and cancelEvent set it
\* to a stack address (lines 159, 191, 219).
EpollDataIsFdContext ==
    \A fd \in Fds : kreg[fd] => kdata[fd] = "ctx"

-----------------------------------------------------------------------------
(* Refinement: the reactor implements the task contract of TaskPool.      *)

\* The resumptions owed to x: its queue entries, and the pending timer the
\* main thread started it with.
Owed ==
    [x \in Tasks |->
        Cardinality({i \in 1..Len(queue) : queue[i] = x})
        + (IF x \in timers /\ tstate[x] = "INIT" THEN 1 ELSE 0)]

\* The tasks parked with a waker: the waiter of an armed event, or a
\* sleeping fiber with a pending timer.
Waiting ==
    UNION {{waiter[fd][e] : e \in armed[fd]} : fd \in Fds} \cup {x \in timers : tstate[x] = "HOLD"}

Pool == INSTANCE TaskPool WITH owed <- Owed,
                               running <- {cur[t] : t \in Threads} \ {None},
                               waiting <- Waiting,
                               done <- {x \in Tasks : tstate[x] = "TERM"},
                               submitted <- scheduled,
                               phase <- CASE mainPc = "run" -> "open"
                                          [] mainPc = "done" -> "returned"
                                          [] OTHER -> "stopping"

\* The peers have made every descriptor ready in every way the run allows
\* (readiness is never consumed, so it then stays).
PeersReady == \A fd \in Fds : ready[fd] = PeerBits

\* Once stop() is called, it returns if the peers become ready: the
\* workers, or the caller thread inside stop(), run every task to its
\* end, fire every armed event and timer, bring m_pendingEventCount back
\* to zero so that IOManager::stopping holds, and the idle fibers leave
\* (scheduler.cpp:77-124, IOManager.cpp:253-261, 263-349).  Catches a
\* leaked pending count or a worker that never leaves idle().
StopReturns == <>PeersReady => (mainPc # "run" ~> mainPc = "done")

\* Every behaviour of the reactor is one of TaskPool: addEvent and sleep
\* park a task with a waker, each trigger (an event in idle(), cancelEvent,
\* cancelAll) and each batch of expired timers wakes the parked waiters
\* once, delEvent abandons one, and no task is resumed while it runs,
\* after it finished or without being owed a resumption.
ImplementsTaskPool == Pool!Spec

\* No SYLAR_ASSERT fails and no dangling pointer is followed; in
\* particular triggerEvent's m_events & event check (IOManager.cpp:32)
\* holds for every kind idle() triggers (IOManager.cpp:336-343), which it
\* takes from epoll's report without masking by m_events: a report
\* another worker made stale, or EPOLLERR/EPOLLHUP.
NoAssertionFailure == ~aborted

=============================================================================
