----------------------------- MODULE Scheduler -----------------------------
(***************************************************************************)
(* The M:N scheduler of sylar (src/src/scheduler.cpp) together with the    *)
(* state machine of the fibers it runs (src/src/fiber.cpp).                *)
(*                                                                         *)
(* Each worker thread runs Scheduler::run: it takes the first entry of the *)
(* shared task queue m_fibers that it may run, swaps into the fiber (or    *)
(* into its callback fiber for a plain callable), and when the fiber       *)
(* swaps back it re-queues a READY fiber or parks it as HOLD.  With        *)
(* nothing to run it swaps into its idle fiber, which terminates once      *)
(* stopping() holds; the worker then leaves the loop.  The main thread     *)
(* schedules work and calls stop(), which joins the workers.               *)
(*                                                                         *)
(* A fiber body is abstracted to its suspension points: it may register   *)
(* itself with a waker (user code that will later call schedule on it),   *)
(* wake a registered fiber, yield READY or HOLD, return, or throw.        *)
(* Yielding is two steps, as in the code: Fiber::YieldToHold stores the   *)
(* new state (fiber.cpp:168) before swapOut saves the context              *)
(* (fiber.cpp:169, 135-140).                                               *)
(*                                                                         *)
(* With use_caller (Root # None) the constructing thread is one of the     *)
(* workers, but it enters the run loop only inside stop(): stop() calls    *)
(* the root fiber, whose CallerMainFunc runs Scheduler::run and comes back *)
(* when its idle fiber terminates, and recreates it if stopping() does not *)
(* hold yet (scheduler.cpp:106-114).                                       *)
(***************************************************************************)
EXTENDS Naturals, Sequences, SequencesExt, FiniteSets

CONSTANTS
    Threads,        \* worker threads spawned by start()
    Fibers,         \* fibers created by the user and passed to schedule()
    Callables,      \* plain callables passed to schedule()
    Wakeable,       \* tasks whose body hands itself to a waker before parking
    OtherThrowers,  \* tasks whose body may throw something not derived from std::exception
    MaxYields,      \* bound on the yields and registrations of one task
    Root,           \* with use_caller, the thread that constructed the scheduler; else None
    AnyThread,      \* the affinity -1: any thread
    None            \* no fiber / no entry

Tasks == Fibers \cup Callables

ASSUME /\ Fibers \cap Callables = {}
       /\ Wakeable \subseteq Tasks /\ OtherThrowers \subseteq Tasks
       /\ MaxYields \in Nat
       /\ Root \in Threads \cup {None}

\* Scheduler::Scheduler (scheduler.cpp:17-36): with use_caller the caller
\* thread counts against `threads` (m_threadCount = threads - 1) and gets
\* the root fiber; start() spawns the other m_threadCount threads.
Spawned == Threads \ {Root}

\* Fiber::State (fiber.h:18-25)
States == {"INIT", "HOLD", "EXEC", "TERM", "READY", "EXCEPTION"}

\* A FiberAndThread entry of m_fibers: a fiber or a callable, and its affinity.
Entries == [task : Tasks, thread : Threads \cup {AnyThread}, isFiber : BOOLEAN]

VARIABLES
    queue,      \* m_fibers
    fstate,     \* m_state of the fiber of each task
    pc,         \* where each worker is in Scheduler::run
    ft,         \* the entry a worker took (ft / cb_fiber), or None
    running,    \* the fiber whose code runs on each worker, or None
    active,     \* m_activeThreadCount
    idleTerm,   \* the worker's idle_fiber is TERM
    autoStop,   \* m_autoStop
    stopFlag,   \* m_stopping
    mainPc,     \* the main thread: "run", in stop() "drive", "calling" or "join", then "done"
    scheduled,  \* tasks the main thread has scheduled
    started,    \* tasks whose body has begun to run
    finished,   \* tasks whose body has returned or thrown
    yields,     \* number of yields and registrations of each task
    waiting,    \* tasks registered with a waker and not yet woken
    aborted,    \* a SYLAR_ASSERT failed and the process aborted
    rootState,  \* m_state of m_rootFiber, or "NONE" without use_caller
    rootFreed,  \* the fiber t_scheduler_fiber names on the caller thread was destroyed
    rootPinned  \* tasks the main thread scheduled with the caller thread's id

vars == <<queue, fstate, pc, ft, running, active, idleTerm, autoStop, stopFlag,
          mainPc, scheduled, started, finished, yields, waiting, aborted,
          rootState, rootFreed, rootPinned>>

workerVars == <<queue, fstate, pc, ft, running, active, idleTerm, started,
                finished, yields, waiting, aborted>>

mainVars == <<autoStop, stopFlag, mainPc, scheduled, rootState, rootFreed, rootPinned>>

InQueue(x) == \E i \in 1..Len(queue) : queue[i].task = x

\* Scheduler::schedule (scheduler.h): append an entry under m_mutex.  The
\* tickle it may issue is a log line in the base Scheduler.
Schedule(q, x, thread, isFiber) ==
    Append(q, [task |-> x, thread |-> thread, isFiber |-> isFiber])

\* A failed SYLAR_ASSERT aborts the process: no thread takes another step.
Abort ==
    /\ aborted' = TRUE
    /\ pc' = [u \in Threads |-> "aborted"]

\* Mutant: stopping() does not require the queue to be empty.
StoppingIgnoresQueue == autoStop /\ stopFlag /\ active = 0

\* Scheduler::stopping (scheduler.cpp:142-145)
Stopping == autoStop /\ stopFlag /\ queue = <<>> /\ active = 0

Init ==
    /\ queue = <<>>
    /\ fstate = [x \in Tasks |-> "INIT"]
    /\ pc = [t \in Threads |-> IF t = Root THEN "off" ELSE "sched"]
    /\ ft = [t \in Threads |-> None]
    /\ running = [t \in Threads |-> None]
    /\ active = 0
    /\ idleTerm = [t \in Threads |-> FALSE]
    /\ autoStop = FALSE
    /\ stopFlag = FALSE
    /\ mainPc = "run"
    /\ scheduled = {}
    /\ started = {}
    /\ finished = {}
    /\ yields = [x \in Tasks |-> 0]
    /\ waiting = {}
    /\ aborted = FALSE
    /\ rootState = IF Root = None THEN "NONE" ELSE "INIT"
    /\ rootFreed = FALSE
    /\ rootPinned = {}

-----------------------------------------------------------------------------
(* The worker loop, Scheduler::run (scheduler.cpp:147-238).                *)

\* Mutant: the affinity test drops the worker's own id and only takes -1.
TakeableAnyOnly(t, e) ==
    /\ e.thread = AnyThread
    /\ ~(e.isFiber /\ fstate[e.task] = "EXEC")

\* The entry a worker t may take: affinity -1 or t, and not a fiber that is
\* already EXEC (scheduler.cpp:169-179).
Takeable(t, e) ==
    /\ e.thread \in {AnyThread, t}
    /\ ~(e.isFiber /\ fstate[e.task] = "EXEC")

\* Mutant: ++m_activeThreadCount is done even when nothing was taken.
PickCountsIdle(t) ==
    /\ pc[t] = "sched"
    /\ LET i == SelectInSeq(queue, LAMBDA e : Takeable(t, e))
       IN IF i = 0
          THEN /\ ft' = [ft EXCEPT ![t] = None]
               /\ UNCHANGED queue
          ELSE /\ ft' = [ft EXCEPT ![t] = queue[i]]
               /\ queue' = RemoveAt(queue, i)
    /\ active' = active + 1
    /\ pc' = [pc EXCEPT ![t] = "dispatch"]
    /\ UNCHANGED <<fstate, running, idleTerm, started, finished, yields, waiting, aborted, mainVars>>

\* Mutant: the taken entry is not erased from m_fibers.
PickKeepsEntry(t) ==
    /\ pc[t] = "sched"
    /\ LET i == SelectInSeq(queue, LAMBDA e : Takeable(t, e))
       IN IF i = 0
          THEN /\ ft' = [ft EXCEPT ![t] = None]
               /\ UNCHANGED <<active, mainVars>>
          ELSE /\ ft' = [ft EXCEPT ![t] = queue[i]]
               /\ active' = active + 1
    /\ pc' = [pc EXCEPT ![t] = "dispatch"]
    /\ UNCHANGED <<queue, fstate, running, idleTerm, started, finished, yields, waiting, aborted, mainVars>>

\* Lines 159-190: under m_mutex take the first takeable entry and count the
\* worker as active.  Skipped entries only cause a tickle, a log line here.
Pick(t) ==
    /\ pc[t] = "sched"
    /\ LET i == SelectInSeq(queue, LAMBDA e : Takeable(t, e))
       IN IF i = 0
          THEN /\ ft' = [ft EXCEPT ![t] = None]
               /\ UNCHANGED <<queue, active, mainVars>>
          ELSE /\ ft' = [ft EXCEPT ![t] = queue[i]]
               /\ queue' = RemoveAt(queue, i)
               /\ active' = active + 1
    /\ pc' = [pc EXCEPT ![t] = "dispatch"]
    /\ UNCHANGED <<fstate, running, idleTerm, started, finished, yields, waiting, aborted, mainVars>>

\* Lines 192-193 and Fiber::swapIn (fiber.cpp:124-132): resume a fiber that
\* is not TERM or EXCEPTION.  swapIn asserts the fiber is not EXEC; a fiber
\* whose MainFunc ended in catch (...) resumes after its final swapOut and
\* reaches SYLAR_ASSERT2(false, "never reach") (fiber.cpp:212-214).
RunFiber(t) ==
    LET x == ft[t].task IN
    /\ pc[t] = "dispatch"
    /\ ft[t] # None /\ ft[t].isFiber
    /\ fstate[x] \notin {"TERM", "EXCEPTION"}
    /\ IF fstate[x] = "EXEC" \/ x \in finished
       THEN /\ Abort
            /\ UNCHANGED <<fstate, running, started, mainVars>>
       ELSE /\ fstate' = [fstate EXCEPT ![x] = "EXEC"]
            /\ running' = [running EXCEPT ![t] = x]
            /\ started' = started \cup {x}
            /\ pc' = [pc EXCEPT ![t] = "body"]
            /\ UNCHANGED aborted
    /\ UNCHANGED <<queue, ft, active, idleTerm, finished, yields, waiting, mainVars>>

\* Lines 202-209: run a callable on the worker's callback fiber, reset
\* (Fiber::reset, fiber.cpp:86-100) or newly made, then swapped in.
RunCallback(t) ==
    LET c == ft[t].task IN
    /\ pc[t] = "dispatch"
    /\ ft[t] # None /\ ~ft[t].isFiber
    /\ fstate' = [fstate EXCEPT ![c] = "EXEC"]
    /\ running' = [running EXCEPT ![t] = c]
    /\ started' = started \cup {c}
    /\ pc' = [pc EXCEPT ![t] = "body"]
    /\ UNCHANGED <<queue, ft, active, idleTerm, finished, yields, waiting, aborted, mainVars>>

\* Lines 220-224: the entry was a fiber that had already finished.
SkipFinished(t) ==
    /\ pc[t] = "dispatch"
    /\ ft[t] # None /\ ft[t].isFiber
    /\ fstate[ft[t].task] \in {"TERM", "EXCEPTION"}
    /\ active' = active - 1
    /\ ft' = [ft EXCEPT ![t] = None]
    /\ pc' = [pc EXCEPT ![t] = "sched"]
    /\ UNCHANGED <<queue, fstate, running, idleTerm, started, finished, yields, waiting, aborted, mainVars>>

\* Fiber::back (fiber.cpp:116-122): switch from the root fiber to the
\* thread's own fiber, that is, back into stop()'s loop.
Back == mainPc' = "drive"

\* Fiber::CallerMainFunc (fiber.cpp:177-195): Scheduler::run has returned on
\* the root fiber, which is marked TERM and switches back.
CallerReturn ==
    /\ rootState' = "TERM"
    /\ Back

\* Lines 225-229: nothing to run and the idle fiber has terminated; run()
\* returns: a spawned thread exits, the caller thread's root fiber returns
\* into stop().
IdleExit(t) ==
    /\ pc[t] = "dispatch"
    /\ ft[t] = None
    /\ idleTerm[t]
    /\ IF t = Root
       THEN /\ pc' = [pc EXCEPT ![t] = "off"]
            /\ CallerReturn
       ELSE /\ pc' = [pc EXCEPT ![t] = "exited"]
            /\ UNCHANGED <<rootState, mainPc>>
    /\ UNCHANGED <<queue, fstate, ft, running, active, idleTerm, started, finished, yields, waiting, aborted,
                   autoStop, stopFlag, scheduled, rootFreed, rootPinned>>

\* Lines 230-235 with Scheduler::idle (131-136): the idle fiber checks
\* stopping() and either yields HOLD back or returns and terminates.
RunIdle(t) ==
    /\ pc[t] = "dispatch"
    /\ ft[t] = None
    /\ ~idleTerm[t]
    /\ idleTerm' = [idleTerm EXCEPT ![t] = Stopping]
    /\ pc' = [pc EXCEPT ![t] = "sched"]
    /\ UNCHANGED <<queue, fstate, ft, running, active, started, finished, yields, waiting, aborted, mainVars>>

-----------------------------------------------------------------------------
(* The body of the fiber running on worker t, up to its next suspension.  *)

BodyStep(t, x, st) ==
    /\ pc[t] = "body"
    /\ running[t] = x
    /\ fstate' = [fstate EXCEPT ![x] = st]
    /\ pc' = [pc EXCEPT ![t] = "swapout"]

\* Fiber::YieldToReady / YieldToHold (fiber.cpp:159-170): store the state;
\* the context is saved by the following SwapOut.
Yield(t) ==
    \E st \in {"READY", "HOLD"} :
        LET x == running[t] IN
        /\ pc[t] = "body"
        /\ yields[x] < MaxYields
        /\ BodyStep(t, x, st)
        /\ yields' = [yields EXCEPT ![x] = @ + 1]
        /\ UNCHANGED <<queue, ft, running, active, idleTerm, started, finished, waiting, aborted, mainVars>>

\* Fiber::MainFunc (fiber.cpp:197-215): the body returns (TERM) or throws a
\* std::exception (EXCEPTION).
Return(t) ==
    \E st \in {"TERM", "EXCEPTION"} :
        /\ pc[t] = "body"
        /\ BodyStep(t, running[t], st)
        /\ finished' = finished \cup {running[t]}
        /\ UNCHANGED <<queue, ft, running, active, idleTerm, started, yields, waiting, aborted, mainVars>>

\* Fiber::MainFunc, catch (...) (fiber.cpp:207-209): any other exception is
\* logged and the state is left EXEC.
ThrowOther(t) ==
    /\ pc[t] = "body"
    /\ running[t] \in OtherThrowers
    /\ finished' = finished \cup {running[t]}
    /\ pc' = [pc EXCEPT ![t] = "swapout"]
    /\ UNCHANGED <<queue, fstate, ft, running, active, idleTerm, started, yields, waiting, aborted, mainVars>>

\* User code in the body hands the current fiber to a waker.
Register(t) ==
    /\ pc[t] = "body"
    /\ running[t] \in Wakeable \ waiting
    /\ yields[running[t]] < MaxYields
    /\ waiting' = waiting \cup {running[t]}
    /\ yields' = [yields EXCEPT ![running[t]] = @ + 1]
    /\ UNCHANGED <<queue, fstate, pc, ft, running, active, idleTerm, started, finished, aborted, mainVars>>

\* User code in the body schedules a registered fiber (possibly itself).
Wake(t) ==
    /\ pc[t] = "body"
    /\ \E y \in waiting :
        /\ queue' = Schedule(queue, y, AnyThread, TRUE)
        /\ waiting' = waiting \ {y}
    /\ UNCHANGED <<fstate, pc, ft, running, active, idleTerm, started, finished, yields, aborted, mainVars>>

\* Fiber::swapOut (fiber.cpp:135-140): save the context, back to run().
SwapOut(t) ==
    /\ pc[t] = "swapout"
    /\ running' = [running EXCEPT ![t] = None]
    /\ pc' = [pc EXCEPT ![t] = "after"]
    /\ UNCHANGED <<queue, fstate, ft, active, idleTerm, started, finished, yields, waiting, aborted, mainVars>>

\* Lines 194 and 210: --m_activeThreadCount, before the re-queue.
AfterRun(t) ==
    /\ pc[t] = "after"
    /\ active' = active - 1
    /\ pc' = [pc EXCEPT ![t] = "requeue"]
    /\ UNCHANGED <<queue, fstate, ft, running, idleTerm, started, finished, yields, waiting, aborted, mainVars>>

\* Whether dropping the worker's reference destroys the fiber: a callable's
\* fiber has no owner but the worker unless it is queued or registered, or
\* its own suspended stack holds it (YieldToHold keeps `cur` alive).
Released(x) == x \in Callables /\ x \in finished /\ x \notin waiting /\ ~InQueue(x)

\* Mutant: a READY fiber is not re-queued.
RequeueDropsReady(t) ==
    LET x == ft[t].task
        destroyed == fstate[x] \notin {"READY", "TERM", "EXCEPTION"} /\ Released(x)
    IN
    /\ pc[t] = "requeue"
    /\ fstate' = IF fstate[x] \in {"READY", "TERM", "EXCEPTION"} THEN fstate
                 ELSE [fstate EXCEPT ![x] = "HOLD"]
    /\ ft' = [ft EXCEPT ![t] = None]
    /\ IF destroyed
       THEN Abort
       ELSE /\ pc' = [pc EXCEPT ![t] = "sched"]
            /\ UNCHANGED aborted
    /\ UNCHANGED <<queue, running, active, idleTerm, started, finished, yields, waiting, mainVars>>

\* Lines 196-201 and 211-219: re-queue a READY fiber, park any other
\* unfinished one as HOLD.  A released fiber is destroyed, and ~Fiber
\* asserts it is TERM, INIT or EXCEPTION (fiber.cpp:68-71).
Requeue(t) ==
    LET x == ft[t].task
        destroyed == fstate[x] \notin {"READY", "TERM", "EXCEPTION"} /\ Released(x)
    IN
    /\ pc[t] = "requeue"
    /\ queue' = IF fstate[x] = "READY" THEN Schedule(queue, x, AnyThread, TRUE) ELSE queue
    /\ fstate' = IF fstate[x] \in {"READY", "TERM", "EXCEPTION"} THEN fstate
                 ELSE [fstate EXCEPT ![x] = "HOLD"]
    /\ ft' = [ft EXCEPT ![t] = None]
    /\ IF destroyed
       THEN Abort
       ELSE /\ pc' = [pc EXCEPT ![t] = "sched"]
            /\ UNCHANGED aborted
    /\ UNCHANGED <<running, active, idleTerm, started, finished, yields, waiting, mainVars>>

-----------------------------------------------------------------------------
(* The main thread.                                                        *)

\* Scheduler::schedule from the main thread, with or without an affinity;
\* with use_caller the main thread is the caller thread.
UserSchedule ==
    /\ mainPc = "run" /\ ~aborted
    /\ \E x \in Tasks \ scheduled, a \in Threads \cup {AnyThread} :
        /\ queue' = Schedule(queue, x, a, x \in Fibers)
        /\ scheduled' = scheduled \cup {x}
        /\ rootPinned' = IF a = Root THEN rootPinned \cup {x} ELSE rootPinned
    /\ UNCHANGED <<fstate, pc, ft, running, active, idleTerm, autoStop, stopFlag,
                   mainPc, started, finished, yields, waiting, aborted, rootState, rootFreed>>

\* Mutant: stop() does not set m_autoStop.
SetAutoStopNever == UNCHANGED autoStop

\* scheduler.cpp:78: m_autoStop = true.
SetAutoStop == autoStop' = TRUE

\* Scheduler::stop (scheduler.cpp:77-104): set m_autoStop and m_stopping
\* and tickle every worker (a log line).  With use_caller and no spawned
\* thread, a root fiber that has not run returns at once if stopping()
\* holds (lines 79-86); otherwise the caller drives the root fiber (line
\* 106), or, without use_caller, joins.
Stop ==
    /\ mainPc = "run" /\ ~aborted
    /\ SetAutoStop
    /\ stopFlag' = TRUE
    /\ mainPc' = CASE Root # None /\ Spawned = {} /\ rootState \in {"TERM", "INIT"}
                         /\ queue = <<>> /\ active = 0 -> "done"
                    [] Root # None -> "drive"
                    [] OTHER -> "join"
    /\ UNCHANGED <<workerVars, scheduled, rootState, rootFreed, rootPinned>>

\* Fiber::call (fiber.cpp:102-108): the caller thread switches into the root
\* fiber, which (re)starts Scheduler::run with a new idle fiber.
Call ==
    /\ rootState' = "EXEC"
    /\ pc' = [pc EXCEPT ![Root] = "sched"]
    /\ idleTerm' = [idleTerm EXCEPT ![Root] = FALSE]
    /\ mainPc' = "calling"

\* Scheduler::stop (scheduler.cpp:106-114): while !stopping(), recreate a
\* terminated root fiber and call it.  The old root fiber is destroyed
\* with its last reference, but t_scheduler_fiber, set once by the
\* constructor (line 29) and skipped by run() on the caller thread (line
\* 152), still names it.
Drive ==
    /\ mainPc = "drive"
    /\ IF Stopping
       THEN /\ mainPc' = "join"
            /\ UNCHANGED <<pc, idleTerm, rootState, rootFreed>>
       ELSE /\ Call
            /\ rootFreed' = (rootFreed \/ rootState \in {"TERM", "EXCEPTION"})
    /\ UNCHANGED <<queue, fstate, ft, running, active, started, finished, yields, waiting, aborted,
                   autoStop, stopFlag, scheduled, rootPinned>>

\* Scheduler::stop (scheduler.cpp:116-124): join every spawned thread.
Join ==
    /\ mainPc = "join"
    /\ \A t \in Spawned : pc[t] = "exited"
    /\ mainPc' = "done"
    /\ UNCHANGED <<workerVars, autoStop, stopFlag, scheduled, rootState, rootFreed, rootPinned>>

\* The program has returned from stop(), or has aborted.
Terminated ==
    /\ mainPc = "done" \/ aborted
    /\ UNCHANGED vars

\* The steps of worker t; the first three are Scheduler::run's dispatch.
Worker(t) ==
    \/ Pick(t) \/ RunFiber(t) \/ RunCallback(t) \/ SkipFinished(t)
    \/ IdleExit(t) \/ RunIdle(t)
    \/ Yield(t) \/ Return(t) \/ ThrowOther(t) \/ Register(t) \/ Wake(t)
    \/ SwapOut(t) \/ AfterRun(t) \/ Requeue(t)

Next ==
    \/ \E t \in Threads :
        \/ Pick(t) \/ RunFiber(t) \/ RunCallback(t) \/ SkipFinished(t)
        \/ IdleExit(t) \/ RunIdle(t)
        \/ Yield(t) \/ Return(t) \/ ThrowOther(t) \/ Register(t) \/ Wake(t)
        \/ SwapOut(t) \/ AfterRun(t) \/ Requeue(t)
    \/ UserSchedule \/ Stop \/ Drive \/ Join
    \/ Terminated

\* Worker threads are OS threads: each keeps running while it can.  The
\* main thread is fair only inside stop(), driving the root fiber and
\* joining; it need neither schedule nor stop.
Fairness == (\A t \in Threads : WF_vars(Worker(t))) /\ WF_vars(Drive) /\ WF_vars(Join)

Spec == Init /\ [][Next]_vars /\ Fairness

-----------------------------------------------------------------------------
(* Properties.                                                             *)

TypeOK ==
    /\ queue \in Seq(Entries)
    /\ fstate \in [Tasks -> States]
    /\ pc \in [Threads -> {"off", "sched", "dispatch", "body", "swapout", "after", "requeue", "exited", "aborted"}]
    /\ ft \in [Threads -> Entries \cup {None}]
    /\ running \in [Threads -> Tasks \cup {None}]
    /\ active \in 0..Cardinality(Threads)
    /\ idleTerm \in [Threads -> BOOLEAN]
    /\ autoStop \in BOOLEAN /\ stopFlag \in BOOLEAN
    /\ mainPc \in {"run", "drive", "calling", "join", "done"}
    /\ scheduled \subseteq Tasks /\ started \subseteq Tasks /\ finished \subseteq Tasks
    /\ yields \in [Tasks -> 0..MaxYields]
    /\ waiting \subseteq Tasks
    /\ aborted \in BOOLEAN
    /\ rootState \in {"NONE", "INIT", "EXEC", "TERM", "EXCEPTION"}
    /\ rootFreed \in BOOLEAN
    /\ rootPinned \subseteq Tasks

\* The worker holds x: it took x's entry and has not yet re-queued or parked it.
Holds(t, x) == ft[t] # None /\ ft[t].task = x

\* No task is lost: a scheduled task whose body has not finished is queued,
\* held by a worker, or parked HOLD.  This is what the re-queue of a READY
\* fiber after the separate decrement of m_activeThreadCount
\* (scheduler.cpp:194-197, 210-212) and the skip of EXEC fibers in the scan
\* (scheduler.cpp:176) must preserve.
NoLostTask ==
    \A x \in scheduled :
        \/ x \in finished
        \/ fstate[x] = "HOLD"
        \/ InQueue(x)
        \/ \E t \in Threads : Holds(t, x)

\* When stop() returns, the queue is empty and every scheduled task has either
\* finished or is parked HOLD: the workers leave Scheduler::run only after
\* stopping() has held (scheduler.cpp:133, 225-229), even though a worker
\* may observe stopping() between another worker's --m_activeThreadCount and
\* its re-queue of a READY fiber.
StopDrains ==
    mainPc = "done" =>
        /\ queue = <<>>
        /\ \A x \in scheduled : x \in finished \/ fstate[x] = "HOLD"

\* A fiber's stack runs on at most one worker at a time: the scan skips EXEC
\* fibers (scheduler.cpp:176) so that a fiber that has been woken while it
\* still runs is not resumed twice.
NoFiberOnTwoThreads ==
    \A t1, t2 \in Threads :
        t1 # t2 /\ running[t1] # None => running[t1] # running[t2]

\* The process never aborts on a SYLAR_ASSERT: an error thrown out of a
\* scheduled callable is caught at the trampoline (fiber.cpp:200-209) and
\* does not take the process down.
NoAssertionFailure == ~aborted

\* Once stop() has been called it returns: every worker's idle fiber sees
\* stopping() and the worker leaves the loop (scheduler.cpp:225-229,
\* 116-124); with use_caller the caller's loop over the root fiber ends
\* (lines 106-114), however often the root fiber has to be recreated.
StopReturns == mainPc # "run" ~> mainPc = "done"

\* Every scheduled task is eventually run by some worker, whatever its
\* affinity (scheduler.cpp:167-185); a task pinned to the caller thread,
\* or any task when no thread was spawned, once stop() has made the caller
\* thread a worker.
ScheduledTaskRuns ==
    \A x \in Tasks :
        x \in scheduled /\ ((x \notin rootPinned /\ Spawned # {}) \/ autoStop) ~> x \in started

\* Whenever the caller thread runs the scheduling loop, t_scheduler_fiber
\* names the live root fiber: swapIn saves the loop's context into it and
\* swapOut resumes from it (fiber.cpp:129, 137).  stop() recreates a root
\* fiber that terminated while stopping() did not hold (scheduler.cpp:108-110)
\* without updating t_scheduler_fiber.
RootSchedulerFiberLive == Root # None /\ pc[Root] # "off" => ~rootFreed

-----------------------------------------------------------------------------
(* Refinement: the run loop implements the task contract of TaskPool.     *)

\* The resumptions owed to x: its queue entries, an entry a worker has
\* taken but not yet swapped into, and a READY fiber that has swapped out
\* and is about to be re-queued.
Owed ==
    [x \in Tasks |->
        Cardinality({i \in 1..Len(queue) : queue[i].task = x})
        + Cardinality({t \in Threads : pc[t] = "dispatch" /\ Holds(t, x)})
        + Cardinality({t \in Threads : pc[t] \in {"after", "requeue"} /\ Holds(t, x)
                                       /\ fstate[x] = "READY"})]

\* The tasks whose body executes on some worker and has not finished.
RunningTasks == {running[t] : t \in Threads} \ ({None} \cup finished)

Phase == CASE mainPc = "run" -> "open" [] mainPc = "done" -> "returned" [] OTHER -> "stopping"

Pool == INSTANCE TaskPool WITH owed <- Owed, running <- RunningTasks, done <- finished,
                               submitted <- scheduled, phase <- Phase

\* Every behaviour of the scheduler is one of TaskPool: the scan, the
\* dispatch, swapIn and swapOut, the separate decrement and re-queue, the
\* affinity skips and the caller thread's root fiber together resume each
\* task once per schedule(), YieldToReady or wake-up, never while it runs
\* or after it finished, and stop() returns only when nothing is owed.
ImplementsTaskPool == Pool!Spec

=============================================================================
