# TLA+ models of the sylar fiber scheduler and IO manager

This directory holds TLA+ models of the concurrent core of `src/src/`:

- the fibers (`fiber.cpp`);
- the M:N scheduler that runs them on a pool of worker threads (`scheduler.cpp`);
- the epoll reactor built on the scheduler (`IOManager.cpp`);
- the logging facade's loggers, appenders and config listener (`log.cpp`, `log.h`).

Each module is translated from the source. Every definition that models code is listed in `PROJECT.json` under `map`, with the lines it stands for.

## 1. The system

| Part | State it keeps | Operations | Interacts with |
|---|---|---|---|
| **Fiber** (`fiber.cpp`) | `m_state` (INIT, HOLD, EXEC, TERM, READY, EXCEPTION), a saved `ucontext`, a stack | `swapIn`, `swapOut`, `YieldToReady`, `YieldToHold`, `MainFunc` (runs the callback; sets TERM, or EXCEPTION for `std::exception`; leaves EXEC for anything else), `reset`, `~Fiber` (asserts TERM/INIT/EXCEPTION) | Scheduler: every switch goes through the worker's scheduler fiber |
| **Scheduler** (`scheduler.cpp`) | `m_fibers` (queue of fiber-or-callable plus an affinity thread id), `m_activeThreadCount`, `m_idleThreadCount`, `m_stopping`, `m_autoStop`, the worker threads | `schedule` (in `scheduler.h`, not in the repository), `run` (the worker loop), `idle`, `stopping`, `stop`, `tickle` | Workers share the queue under `m_mutex`; the main thread schedules and stops |
| **IOManager** (`IOManager.cpp`) | `m_fdContexts` (a vector of FdContext pointers under an RWMutex, grown by `contextResize`); per-fd `FdContext` (`m_events`, a READ and a WRITE `EventContext` holding the waiting fiber), `m_pendingEventCount`, the epoll instance, the tickle pipe | `addEvent`, `delEvent`, `cancelEvent`, `cancelAll`, `triggerEvent`, `tickle`, `stopping`, `idle` | A Scheduler whose idle fiber blocks in `epoll_wait` and turns readiness into `schedule()` calls; the hooked I/O calls `addEvent` then `YieldToHold` |
| **TimerManager** (`timer.h`; `timer.cpp` absent, modelled from spec §4.3) | `m_timers`, `m_tickled` | `addTimer` (calls `onTimerInsertedAtFront` when the new timer sorts first and `m_tickled` is clear), `getNextTimer` (clears `m_tickled`), `listExpiredCb` | IOManager inherits it: `stopping()` and the `epoll_wait` timeout read `getNextTimer`; `idle()` schedules what `listExpiredCb` returns; `onTimerInsertedAtFront` calls `tickle()`; the hooked `sleep` adds a timer that schedules the fiber, then parks it |
| **Logging** (`log.cpp`, `log.h`) | the LoggerManager's `m_loggers` and root; per logger `m_level`, `m_formatter`, `m_appender`; per appender `m_level`, `m_formatter`, `m_hasFormatter` | `getLogger`, `Logger::log` (with the root fallback), `setFormatter`, `clearAppenders`, `addAppender`, `LogFormatter::init`, the `logs` config listener | Any thread logs through `SYLAR_LOG_LEVEL`; the thread that sets the config runs the listener |
| Config, thread, hook, util | — | — | External collaborators (spec §1) |

A worker loop (`Scheduler::run`) repeats the following:

1. Under the lock, take the first queue entry it may run. It skips entries pinned to another thread and fibers that are EXEC, and counts itself active.
2. Swap into the fiber, or into its callback fiber for a plain callable.
3. When the fiber swaps back, decrement the active count.
4. Re-queue the fiber if it is READY, or mark it HOLD if it has not finished.

With nothing to run, the worker swaps into its idle fiber.

- **Scheduler:** the idle fiber only yields until `stopping()` holds.
- **IOManager:** the idle fiber runs the reactor. It checks `stopping()`, calls `epoll_wait` (at most 5 s), drains the tickle pipe, and for each event:
  - maps the bits to READ/WRITE (HUP/ERR count as both);
  - re-registers the events left (MOD or DEL);
  - triggers each reported kind, which schedules the waiting fiber and decrements `m_pendingEventCount`.

When the idle fiber has terminated, the worker leaves the loop. `stop()` sets both flags, tickles each worker and joins the threads.

### The hard behaviours

- **Interleavings of workers on the shared queue and on one fiber.** A fiber can be woken by another task while it is still on its way to parking. `YieldToHold` stores HOLD before `swapOut` saves the context.
- **The counter-before-requeue window:** `--m_activeThreadCount` happens before the READY re-queue.
- **Affinity:** entries pinned to one worker must still be run.
- **Lifetimes:** a callable's fiber survives a HOLD only while someone holds a reference to it. `~Fiber` asserts on the state.
- **The reactor:** under edge-triggered epoll, readiness is reported once. The re-registration after an event must keep the other waiter's interest. The pending count must match the armed events, or `stop()` exits early or never.
- **Wake-ups:** whether scheduling new work, or a timer inserted at the front, wakes a worker that sleeps in `epoll_wait`.
- **Timers:** a fired one-shot timer must leave the set before its fiber runs again, and `stop()` must wait for pending timers.
- **The descriptor table:** `addEvent` tests the size under the read lock and grows the table under the write lock, with other threads free to act in between.

### Properties per component

**Scheduler:**
- no task is lost;
- when `stop()` returns, the queue is empty and every task finished or is parked;
- `stop()` returns;
- every scheduled task runs;
- a fiber never runs on two threads;
- no assertion aborts the process.

**IOManager:**
- the kernel registration equals `m_events`;
- the pending count equals the number of armed events;
- no waiting fiber is lost (the waiters that `delEvent` drops are tracked);
- a parked waiter is unique and not queued;
- `stop()` waits for all I/O and all timers;
- every ready armed event fires;
- once the peers are ready, `stop()` returns;
- a task a pending timer will schedule is parked, neither queued nor running;
- every pending timer fires;
- the reactor keeps the scheduler's task contract (`TaskPool`): every resumption is owed, and no task is resumed while it runs or after it finished;
- scheduling while all workers sleep in `epoll_wait` tickles the pipe;
- the registered user data is the FdContext;
- no assertion aborts.

**Descriptor table:** the FdContext of every armed event stays the one `m_fdContexts[fd]` holds, so `delEvent`, `cancelEvent` and `cancelAll` can reach it.

**Logging:**
- after a config change, each configured logger has exactly its configured level, appenders and (valid) formatter;
- a log call begun once the listener has started to remove its logger writes nothing, even between the removal's `setLevel(100)` and `clearAppenders()`, and not even through the root fallback.

The Logger module has no type invariant in a run: every variable keeps its type by the shape of the actions, and no plausible slip in the code would change that.

## 2. Modules

### `Scheduler.tla`: Scheduler::run and the fiber state machine

**State.** The variables map to the code as follows:

| Variable | Code |
|---|---|
| `queue` | `m_fibers`, as records of task, affinity and `isFiber` |
| `fstate` | `m_state` of each task's fiber; for a callable, the worker's callback fiber |
| `pc` | where each worker is in `run` |
| `ft` | the worker's `FiberAndThread` |
| `running` | which fiber's stack executes on the worker |
| `active` | `m_activeThreadCount` |
| `idleTerm` | the idle fiber is TERM |
| `autoStop`, `stopFlag` | `m_autoStop`, `m_stopping` |
| `mainPc` | the main thread: running user code, then inside `stop()` driving the root fiber (`drive`, `calling`) or joining, then returned |
| `rootState` | `m_rootFiber->m_state` (`NONE` without use_caller) |
| `rootFreed` | the fiber that `t_scheduler_fiber` names on the caller thread has been destroyed |
| `aborted` | a `SYLAR_ASSERT` failed |

History variables: `scheduled`, `started`, `finished`, `yields`, `waiting`, `rootPinned` (tasks pinned to the caller thread).

**use_caller.** The constant `Root` is the caller thread, or `None`.

- `Spawned` (`Threads \ {Root}`) are the threads that `start()` creates.
- The caller thread's worker is `off` until `stop()`.
- `Drive` is the loop at scheduler.cpp:106-114. It checks `stopping()`, recreates a terminated root fiber and `Call`s it, which restarts `run()` on the caller thread.
- When that `run()` ends (`IdleExit`), `CallerReturn` (`CallerMainFunc`) marks the root fiber TERM and `Back` returns to `stop()`.
- `Stop` includes the early return of lines 79-86.

**Actions.** One per step of `run`:

- `Pick`: lines 159-190.
- `RunFiber`: swapIn, which aborts on EXEC. It also aborts on a fiber whose `MainFunc` has already ended in `catch (...)`, which then reaches "never reach".
- `RunCallback`.
- `SkipFinished`.
- `IdleExit`.
- `RunIdle`: the whole base idle fiber.
- `SwapOut`.
- `AfterRun`: the decrement.
- `Requeue`: READY re-queue or HOLD. A released HOLD fiber is destroyed, and `~Fiber` aborts.

A fiber body is reduced to its suspension points:

- `Yield`: READY or HOLD, stored before `SwapOut`, as in `YieldToHold`.
- `Return`: TERM or EXCEPTION.
- `ThrowOther`: `catch (...)`.
- `Register` and `Wake`: user code that hands the fiber to a waker and later schedules it. This is how the IOManager, timers or other tasks wake fibers.

The main thread has `UserSchedule` (any affinity), `Stop`, `Drive` and `Join`.

### `TaskPool.tla`: the scheduler's contract, and the refinement

`TaskPool` states what the scheduler promises, with no workers, locks or context switches:

- each `schedule()`, `YieldToReady` or wake-up owes the task one resumption;
- a task is resumed only while it is not running and has not finished;
- `stop()` returns only when nothing is owed and nothing runs.

`Scheduler.tla` instantiates it (`Pool == INSTANCE TaskPool WITH ...`) under this refinement mapping:

- `owed` counts a task's queue entries, an entry a worker has taken but not yet swapped into, and a READY fiber between its `swapOut` and its re-queue;
- `running` is the set of tasks executing on some worker and not finished;
- `phase` follows `mainPc`.

`ImplementsTaskPool` (`Pool!Spec`) is checked as a property of the passing scheduler runs, and of the passing IOManager runs (see below). Every step of the run loop is either a TaskPool step or a stutter:

- `Pick` and `Requeue` move a resumption between the queue and a worker;
- `RunFiber` and `RunCallback` are `Resume`;
- `SwapOut` is `YieldReady` or `Park`.

### `IOManager.tla`: the reactor

**State:**

| Variables | Code |
|---|---|
| `armed`, `waiter` | `FdContext::m_events` and the READ/WRITE contexts |
| `pending` | `m_pendingEventCount` |
| `idleCount` | `m_idleThreadCount` |
| `pipeReady` | the tickle pipe is readable |
| `kreg`, `kmask`, `kdata`, `inList` | the kernel's registration (mask and user data) and its ready list |
| `ready` | what the peers have made each descriptor ready for |
| `dropped` | history: waiters that `delEvent` removed |
| `timers`, `due` | `m_timers`, as the task each timer's callback schedules; the timers whose deadline has passed |
| `tickled` | `m_tickled` |
| `tmo` | the timeout kind each worker passed to `epoll_wait`: the next deadline or `MAX_TIMEOUT` |
| `mainPc`, `rootState` | where the main thread is in `stop()`; `m_rootFiber->m_state` (`NONE` without use_caller) |

**Actions:**

- `AddEvent`: `addEvent` followed by `YieldToHold` and the run loop's HOLD, as the hooked calls do. Its assertion and its failure path are included.
- `DelEvent`, `CancelEvent`, `CancelAll`: the whole functions. The stale `&fd_ctx` is the user data `"stale"`.
- `IdleCheck`, `EpollWait`, `DrainPipe`, `ProcessEvent`, `IdleYield`: the idle loop.
  - `EpollWait` is always enabled, because it returns at the latest after `MAX_TIMEOUT`.
  - `ProcessEvent` is one event of the loop, under the FdContext mutex.
- Worker dispatch: `RunTask`, `EnterIdle`, `IdleExit`, `Finish`.
- The main thread: `UserSchedule`, `UserAddTimer`, `Stop` (with its early return, `EarlyReturn`), `Drive` (the loop of `stop()` over the root fiber) and `Join`.
- **use_caller.** The constant `Root` is the caller thread, or `None`; `Spawned` are the threads `start()` creates. The caller thread is `"off"` until `Drive` calls its root fiber (`rootState`). When its idle fiber has ended, `IdleExit` returns into `stop()` through `CallerReturn` (`Fiber::CallerMainFunc`) instead of ending the thread, and `Join` waits only for the spawned workers.
- `PeerReady`: the environment.
- Timers:
  - `AddTimer` is `TimerManager::addTimer` with its `onTimerInsertedAtFront` → `tickle()` call. Whether a new deadline sorts first is a free choice once another timer is pending.
  - `Sleep` is the hooked `sleep()`: `addTimer(ms, schedule this fiber)`, then `YieldToHold`.
  - `UserAddTimer` is the main thread starting a task of `UserTimers` through `addTimer` instead of `schedule()`.
  - `Elapse` is a deadline passing. No clock is kept: any pending timer may expire next. This also covers a clock set back by more than an hour, after which all timers are due at once.
  - `IdleCheck` calls `getNextTimer` twice, as the code does: through `stopping()`, and for the timeout (`WaitTimeout`). Both clear `m_tickled`.
  - `EpollWait` ends with `listExpiredCb` and `schedule(cbs)` (lines 293-298). A timer callback's only effect is to schedule its fiber, so the fiber is queued directly.

`ScheduleAll` models `schedule`, and `TickleIf` models `IOManager::tickle`: a byte is written only when no worker is idle.

A task's run, up to its next suspension, is one step. The windows inside a run are the subject of `Scheduler.tla`.

**Refinement.** `IOManager.tla` also instantiates `TaskPool` and checks `ImplementsTaskPool` in both passing runs. The mapping:

- `owed`: a task's queue entries, plus the pending timer the main thread started it with;
- `waiting`: the waiters of armed events and the sleeping fibers with a pending timer;
- `running`: the tasks on the workers;
- `done`: the TERM tasks.

Under this mapping:

- `AddEvent` and `Sleep` are `Await`;
- a trigger (in `idle()`, `cancelEvent` or `cancelAll`) or a batch of expired sleep timers is `Fire` of the tasks it schedules;
- `DelEvent` is `Forget`.

`TaskPool` gained these three steps for the reactor. They are disjuncts the Scheduler never takes, so its own refinement check is unchanged.

### `FdTable.tla`: the descriptor-context table

`m_fdContexts` and the locking around it (IOManager.cpp:63, 78-103, 203-238). Each locked section is one step, and other threads may act between them.

- An FdContext is `<<fd, g>>`: the g-th context `contextResize` created for fd. `slot[fd]` is the generation at `m_fdContexts[fd]`, 0 past the end.
- `ContextResize(n)` resizes and fills every null entry with a new context. Entries at n or beyond are dropped, as `std::vector::resize` does.
- `LookupForAdd` is the read-locked size test of `addEvent`. `Grow` is the write-locked `contextResize(fd * 1.5)` without a new test. `Arm` is the rest of `addEvent` under the context's mutex: ADD, refused by the kernel while another context of fd is registered.
- `CancelAll(fd)`, as the close hook calls it from another thread, looks the context up in the table and cancels its armed event.

### `LogPattern.tla`: LogFormatter::init (log.cpp:206-319)

The pattern parser is translated statement by statement, with the code's 0-based indices:

- `Scan` is the inner `while` over `n` (lines 229-257). It keeps the line-236 test on `m_pattern[i]`, which is always true.
- `Parse` is the outer loop over `i`.
- `Flush` pushes the pending literal text.
- `Item` turns `vec` into `m_items`, looking the name up in `s_format_items`.
- A pattern is a sequence of one-character strings.

Formatters in the configs are written as tokens (literal text, or a directive with or without `{format}`) and rendered into patterns. `Logger` uses the parser only to decide `isError()`. No property is stated of the parser alone. The one documented contract it could be checked against is the `%%` escape, and that is broken (see "Not modelled").

### `Logger.tla`: loggers, appenders and the config listener

`Logger` EXTENDS `LogPattern`: a formatter is a pattern, and `IsError` is `LogFormatter::init`'s `m_error` on it.

| Variable | Code |
|---|---|
| `made` | `LoggerManager::m_loggers` (the root is always there) |
| `level`, `lfmt`, `apps` | per logger `m_level`, `m_formatter`, `m_appender` (each appender a record of type, `m_level`, `m_formatter`, `m_hasFormatter`) |
| `conf`, `new` | the value of the `logs` config var, and the value the listener installs |
| `lpc`, `li`, `lk` | the listener's position: which loop, which logger name (in `std::set` order), which appender |
| `upc`, `uname`, `ulvl` | the logging thread: in the macro, in `Logger::log` before the lock, or writing |
| `gone`, `uafter`, `last` | history: names whose removal has begun; whether the current call began after that; the outcome of the last call |

Actions:
- `Reconfigure` hands the listener old and new values. `Define` is the YAML conversion (log.cpp:370-426): a missing level is UNKNOW, an appender's level is never read (INFO), a missing appender formatter becomes the default pattern, and an unknown appender type is skipped.
- For each new define that differs from the old one: `ScanNew` (getLogger), `SetLevel`, `SetFormatter` (dropped when the pattern is erroneous; handed to appenders without their own), `Clear`, then `AddAppender` once per appender. Each is its own critical section, as in the code. `AddAppender` keeps the inverted `a.formatter.empty()` test (log.cpp:504).
- For each old define that is gone: `ScanOld` (getLogger), then the two steps of `RemovalStep`: `RLevel` (level 100) and `RClear` (clearAppenders).
- The logging thread: `Check` is the macro's `getLevel() <= level`; `LogCheck` is `Logger::log`'s `level > m_level`, a second, later read; `Write` goes, under the logger's mutex, to each appender whose level admits the message, or with no appenders to the root logger's `log()`.

The listener's own "on_logger_conf_changed" line (log.cpp:475) and the text of messages are left out.

### MC modules

- `MC_Scheduler.tla` fixes the threads, the fiber and the callable as model values.
- `MC_IOManager.tla` fixes threads, tasks and descriptors as model values. It also gives the sets of event kinds, peer readiness and task calls, and `Uses`: which task waits on which descriptor and kind.
- `MC_FdTable.tla` gives two callers with descriptors 40 and 100, past the initial 32 entries.
- `MC_Logger.tla` gives the loggers `n1` and `root`, and four `logs` values: n1 at `info` with `%m`; n1 at `WARN` with the erroneous `%x`, a file appender, an appender of unknown type and a stdout appender; n1 with root at no level; and nothing. It also gives the parser's tokens: the texts `:` (not a letter) and `x` (a letter); `%m` and `%d`, with and without `{}`; and a format holding `%x`.

## 3. Runs

| Run | Expect | What it shows |
|---|---|---|
| `sched_drain` | pass | 2 spawned workers plus the caller thread (use_caller), a fiber (which may throw), a callable, any affinity. TypeOK, NoLostTask, StopDrains, StopReturns, ScheduledTaskRuns, ImplementsTaskPool. |
| `sched_wake` | pass | use_caller with no spawned thread, so the caller runs everything inside `stop()` (including its early return). Fiber and callable are woken by tasks, themselves included, before or after parking. Same properties. |
| `sched_double_run` | violation | NoFiberOnTwoThreads: a fiber woken between `YieldToHold`'s store and `swapOut` is resumed on a second worker. |
| `sched_cb_throw` | violation | NoAssertionFailure: a callable throwing a non-`std::exception` aborts in `~Fiber`. |
| `sched_root_stale` | violation | RootSchedulerFiberLive: a spawned worker re-queues a READY fiber after the caller's idle fiber saw `stopping()`. `stop()` recreates the root fiber, whose run loop then swaps through the destroyed fiber that `t_scheduler_fiber` still names (scheduler.cpp:29, 109, 152). |
| `io_read` | pass | 2 workers, 2 tasks reading their own descriptors, delEvent/cancelEvent; the main thread starts the second task through a timer, possibly while both workers sleep in `epoll_wait`. TypeOK, KernelMatchesArmed, PendingMatchesArmed, NoLostTask, WaiterUnique, TimerTaskParked, StopWaitsForIO, ArmedReadyEventFires, TimerFires, ImplementsTaskPool, StopReturns. |
| `io_rw` | pass | `IOManager(1, true)`, the default: the main thread is the only worker and runs the reactor inside `stop()`. A reader and a writer on one descriptor (ADD, MOD, DEL, two events in one report), cancelAll, and tasks that sleep on a timer. Same properties. |
| `io_lost_wakeup` | violation | IdleWorkerTickled: the inverted tickle leaves new work behind a sleeping `epoll_wait`. |
| `io_stale_data` | violation | EpollDataIsFdContext: delEvent's MOD installs `&fd_ctx`, a stack address. |
| `io_stale_report` | violation | NoAssertionFailure: two workers, a reader and a writer on one descriptor. The writer's `addEvent` MOD requeues the ready descriptor, so both workers hold a report. The first fires READ and re-registers for WRITE. The second triggers READ from its stale report, and `triggerEvent`'s assertion aborts. |
| `log_config` | pass | Three config changes applied by the listener while a thread logs three messages. ConfigApplied; RemovedLoggerSilent (a mutant that clears the appenders before setting level 100 violates it). |
| `fd_resize` | violation | ArmedContextInTable: two `addEvent` calls both find the table too small. The one for descriptor 40 resizes to 60 after the one for 100 resized to 150. The table shrinks, and the armed context of descriptor 100 is no longer in it. |

For every property of a passing run, `PROJECT.json` names a mutant: a plausible bug in a mapped definition that TLC finds under that run. The mutant operators are defined in the modules just before the definitions they replace.

### Bounds, and why they are enough

**Scheduler:**
- Two workers, one fiber and one callable are enough for every race in the loop: two workers on one fiber, or a waker against a parker.
- `MaxYields` bounds the yields and registrations of a task: 1 in `sched_drain`, 3 in `sched_wake`, so that a task can park, be woken and park again.
- Three threads, one of them the caller, are enough for two spawned workers to race on the queue while the caller's loop ends and is restarted.
- `sched_drain` has 234k distinct states (about 2 minutes) and `sched_wake` 117k.
- `sched_wake` has no task that throws a non-`std::exception`. Such a task aborts the process (see `sched_cb_throw`), and the liveness properties are stated for a process that does not abort.

**Logging:**
- Two loggers, three config changes and three log calls (40k distinct states) reach: a removal followed by a re-add; a change of an existing logger's level, formatter and appenders; root configured and then removed; an erroneous formatter; and a log call in each window of the listener, including the root fallback between `clearAppenders` and `addAppender`.
- `log_config` has no fairness and checks no deadlock: once both bounds are used, nothing is left to do.

**IOManager:**
- Two tasks and one or two descriptors. One descriptor with both kinds exercises MOD in `addEvent` and in `idle()`.
- `MaxOps = 2` calls per task.
- `io_read` has 153k distinct states (about 2 minutes) and `io_rw` 6k.
- One timer per task is enough: `TimerTaskParked` and `TimerFires` are about one timer's callback against its fiber, and two tasks give two timers whose order is free.
- The passing runs avoid the three IOManager bugs that the violation runs show: stale data needs MOD after delEvent or cancelEvent, and the stale report needs two workers on a descriptor with both kinds. They check everything else.
- `io_rw` keeps one worker for that reason: the caller thread of the default `IOManager(1, true)`. With two spawned workers it reaches the abort of `io_stale_report` (204k distinct states); so does the caller thread with one spawned worker, since both run `idle()`.
- Hang-ups are left out of every run. `idle()` turns HUP into both kinds and triggers them unmasked, so a hang-up on a descriptor armed only for READ fails the same assertion. That is the other route to the `io_stale_report` bug, and a unit test with a hung-up peer shows it.

**Descriptor table:** two callers are the fewest that interleave between the read-locked test and the write-locked resize. Descriptors 40 and 100 are the smallest kind of pair past the initial 32 where the two resizes differ (60 and 150).

### Fairness

Weak fairness on each worker's steps: workers are OS threads, and `epoll_wait` returns within `MAX_TIMEOUT`, so a worker never stops taking steps.

Weak fairness on `Elapse`: time passes, so every pending deadline is reached. `TimerFires` depends on the cap on `epoll_wait`'s timeout. `tickle()` does not wake an idle worker when a timer is inserted at the front (IOManager.cpp:246, 356). With `epoll_wait(-1)` when no timer is pending (`WaitTimeoutNoCeiling`), the model deadlocks with a due timer.

Weak fairness also on the main thread inside `stop()`, for `Drive` and `Join`. It is an OS thread executing `stop()`'s loop, and a thread blocked in `join()` returns when every worker has exited.

There is no fairness for the main thread's `UserSchedule` or `Stop` (the program need not stop), or for peers (a descriptor need not become ready). For that reason the reactor's `StopReturns` is conditional: `stop()`, once called, returns in every behaviour in which the peers eventually make every descriptor ready.

## 4. Not modelled, and the plan

Modelled: the Scheduler with use_caller and its contract (TaskPool), the IOManager reactor with use_caller and the timer set composed in, the descriptor-context table, the log pattern parser, and the loggers with the config listener.

Left:

- **The `%%` escape in log patterns** (log.cpp:223-225): the code appends '%' but does not step over the second '%', which then starts a directive. The comment on line 221 says `%%` gives one '%'. No run checks the parser against it: a run showing the bug is not kept, because a unit test with the pattern `%%` shows it.
- **delEvent's dropped waiter** (IOManager.cpp:170): the fiber is never rescheduled. Spec §4.4 specifies this. §5 says cancellation reschedules waiters. `NoLostTask` counts such fibers as dropped rather than lost.
- **Callback waiters** (`addEvent` with `cb`).
- **The int conversion of the `epoll_wait` timeout** (IOManager.cpp:281): `(int)` of a time to the next timer of 2^31 ms or more is negative, and `epoll_wait` then blocks without a timeout. This is a conversion of one value that a unit test with `getNextTimer() = 2^31` shows, so the reactor model abstracts the timeout to next timer, cap or none. It is listed as a hazard in `PROJECT.json`.
- **The rest of TimerManager:** `timer.cpp` is not in the repository, so the modelled operations follow spec §4.3. Left out:
  - `cancel`, `refresh`, `reset`, `addConditionTimer` and recurring timers, which nothing in the repository calls;
  - deadline order within one `listExpiredCb` batch, which no reactor property tells apart;
  - how late a timer fires. That needs a clock. With the inverted tickle, a timer inserted at the front while the workers sleep fires only when `epoll_wait` times out, up to 5 s late. Spec §8 expects a 50 ms timer to fire well before that.
- **Malformed log patterns** (an unclosed `{`, unknown directives): no comment, test or spec states what they should produce.
- **Logging's disputed thresholds and formatters:** `Logger::log` (log.cpp:120) drops a message at exactly the logger's level, while the macro and the appenders admit it; a configured appender formatter is never installed (log.cpp:504, 102). The model keeps both as written. No property takes sides, because no test or spec text says what is meant (see the hazards in `PROJECT.json`).
- **delAppender, and direct calls of setLevel or addAppender:** nothing in the repository makes them.
- **Pure I/O and layout,** not models for TLC: file and stdout output, `reopen`, event formatting, and config, thread, hook and util.
