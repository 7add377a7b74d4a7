----------------------------- MODULE MC_FdTable -----------------------------
(* Two threads add an event on descriptors past the initial 32 entries: 40 *)
(* grows the table to 60, 100 grows it to 150.                             *)
EXTENDS FdTable

CONSTANTS c1, c2

TwoCallers == {c1, c2}
CallerFds == [c \in TwoCallers |-> IF c = c1 THEN 40 ELSE 100]
=============================================================================
