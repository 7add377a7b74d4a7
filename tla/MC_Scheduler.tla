---------------------------- MODULE MC_Scheduler ----------------------------
(* Instantiation of Scheduler for TLC; the constant values are in the cfgs. *)
EXTENDS Scheduler

CONSTANTS t1, t2, t3, f1, c1

MCThreads3 == {t1, t2, t3}
MCThreads2 == {t1, t2}
MCThreads1 == {t1}
MCFibers == {f1}
MCCallables == {c1}
=============================================================================
