---------------------------- MODULE MC_IOManager ----------------------------
(* Instances of IOManager for TLC: model values for workers, tasks and     *)
(* descriptors, and the event kinds each run exercises.                    *)
EXTENDS IOManager

CONSTANTS t1, t2, x1, x2, x3, d1, d2

MCThreads1 == {t1}
MCThreads2 == {t1, t2}
MCTasks1 == {x1}
MCTasks2 == {x1, x2}
MCTasks3 == {x1, x2, x3}
MCFds1 == {d1}
MCFds2 == {d1, d2}
\* each task reads its own descriptor
\* one task reads one descriptor
OneReader == {<<x1, d1, "READ">>}
OwnFds == {<<x1, d1, "READ">>, <<x2, d2, "READ">>}
\* one task reads and the other writes the same descriptor
ReaderWriter == {<<x1, d1, "READ">>, <<x2, d1, "WRITE">>}
Read == {"READ"}
ReadWrite == {"READ", "WRITE"}
In == {"IN"}
InOut == {"IN", "OUT"}
InHup == {"IN", "HUP"}
DelCancel == {"del", "cancel"}
Del == {"del"}
CancelAllOnly == {"cancelAll"}
NoOps == {}
CancelAllSleep == {"cancelAll", "sleep"}
\* the main thread starts the second task through a timer
TimerX2 == {x2}
NoTimers == {}
=============================================================================
