--------------------------- MODULE MCDagScheduler ---------------------------
(* Instances of DagScheduler for TLC. *)
EXTENDS DagScheduler

CONSTANTS c1, c2, c3, daily, lastDay, bad

\* c1 may schedule what both parsers take, c2 what only the scheduler's
\* takes, c3 what neither takes.
MCCronOf == [x \in Calls |-> CASE x = c1 -> daily [] x = c2 -> lastDay [] x = c3 -> bad]
=============================================================================
