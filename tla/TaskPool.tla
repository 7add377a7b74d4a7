------------------------------ MODULE TaskPool ------------------------------
(***************************************************************************)
(* What the Scheduler promises the tasks given to it, with every worker,   *)
(* lock and context switch abstracted away (spec §2 and §3): each          *)
(* schedule() of a task, each YieldToReady and each wake-up by a waker     *)
(* entitles the task to exactly one resumption; a task is resumed only     *)
(* while it is not running and has not finished; stop() returns only      *)
(* when nothing is owed a resumption and nothing runs.  A waker may be    *)
(* the reactor: it wakes several registered tasks at once (one event, one  *)
(* batch of timers) or abandons one (delEvent), and a task may park with   *)
(* it in one step (addEvent or sleep, then YieldToHold).                   *)
(***************************************************************************)
EXTENDS Naturals

CONSTANTS Tasks

VARIABLES
    owed,       \* resumptions owed to each task
    running,    \* tasks whose body is executing
    waiting,    \* tasks parked with a waker that will schedule them
    done,       \* tasks whose body has returned or thrown
    submitted,  \* tasks the user has scheduled
    phase       \* "open", "stopping" (inside stop()) or "returned"

vars == <<owed, running, waiting, done, submitted, phase>>

Init ==
    /\ owed = [x \in Tasks |-> 0]
    /\ running = {} /\ waiting = {} /\ done = {} /\ submitted = {}
    /\ phase = "open"

Owe(x) == owed' = [owed EXCEPT ![x] = @ + 1]
Pay(x) == owed' = [owed EXCEPT ![x] = @ - 1]

\* The user schedules a task it has not scheduled before.
Submit(x) ==
    /\ phase = "open" /\ x \notin submitted
    /\ Owe(x)
    /\ submitted' = submitted \cup {x}
    /\ UNCHANGED <<running, waiting, done, phase>>

\* A worker resumes a task that is owed a resumption.
Resume(x) ==
    /\ owed[x] > 0 /\ x \notin running /\ x \notin done
    /\ Pay(x)
    /\ running' = running \cup {x}
    /\ UNCHANGED <<waiting, done, submitted, phase>>

\* A worker drops an entry of a task that has already finished.
Discard(x) ==
    /\ owed[x] > 0 /\ x \in done
    /\ Pay(x)
    /\ UNCHANGED <<running, waiting, done, submitted, phase>>

\* The running task yields READY: it is owed the next resumption.
YieldReady(x) ==
    /\ x \in running
    /\ running' = running \ {x}
    /\ Owe(x)
    /\ UNCHANGED <<waiting, done, submitted, phase>>

\* The running task parks (HOLD); only a wake-up brings it back.
Park(x) ==
    /\ x \in running
    /\ running' = running \ {x}
    /\ UNCHANGED <<owed, waiting, done, submitted, phase>>

\* The running task hands itself to a waker.
Register(x) ==
    /\ x \in running /\ x \notin waiting
    /\ waiting' = waiting \cup {x}
    /\ UNCHANGED <<owed, running, done, submitted, phase>>

\* A running task wakes a registered one.
Wake(x) ==
    /\ running # {} /\ x \in waiting
    /\ waiting' = waiting \ {x}
    /\ Owe(x)
    /\ UNCHANGED <<running, done, submitted, phase>>

\* The running task parks with a waker in one step.
Await(x) ==
    /\ x \in running /\ x \notin waiting
    /\ running' = running \ {x}
    /\ waiting' = waiting \cup {x}
    /\ UNCHANGED <<owed, done, submitted, phase>>

\* A waker wakes the registered tasks S at once.
Fire(S) ==
    /\ S \subseteq waiting
    /\ waiting' = waiting \ S
    /\ owed' = [x \in Tasks |-> IF x \in S THEN owed[x] + 1 ELSE owed[x]]
    /\ UNCHANGED <<running, done, submitted, phase>>

\* A waker abandons a registered task without waking it.
Forget(x) ==
    /\ x \in waiting
    /\ waiting' = waiting \ {x}
    /\ UNCHANGED <<owed, running, done, submitted, phase>>

\* The running task's body returns or throws.
Finish(x) ==
    /\ x \in running
    /\ running' = running \ {x}
    /\ done' = done \cup {x}
    /\ UNCHANGED <<owed, waiting, submitted, phase>>

\* The user calls stop().
Stop ==
    /\ phase = "open"
    /\ phase' = "stopping"
    /\ UNCHANGED <<owed, running, waiting, done, submitted>>

\* stop() returns: nothing is owed a resumption and nothing runs.
Return ==
    /\ phase # "returned"
    /\ running = {} /\ \A x \in Tasks : owed[x] = 0
    /\ phase' = "returned"
    /\ UNCHANGED <<owed, running, waiting, done, submitted>>

Next ==
    \/ \E x \in Tasks :
        \/ Submit(x) \/ Resume(x) \/ Discard(x) \/ YieldReady(x)
        \/ Park(x) \/ Register(x) \/ Wake(x) \/ Finish(x)
        \/ Await(x) \/ Forget(x)
    \/ \E S \in SUBSET Tasks : Fire(S)
    \/ Stop \/ Return

Spec == Init /\ [][Next]_vars

=============================================================================
