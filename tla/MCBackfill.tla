----------------------------- MODULE MCBackfill -----------------------------
(* Instances of Backfill for TLC: days of two instants. *)
EXTENDS Backfill

CONSTANTS c1, c2, ta, tb

Pair  == [ids |-> <<ta, tb>>, edges |-> << <<1, 2>> >>]
Lone  == [ids |-> <<ta>>, edges |-> << >>]
Empty == [ids |-> << >>, edges |-> << >>]
Loop  == [ids |-> <<ta, tb>>, edges |-> << <<1, 2>>, <<2, 1>> >>]

MCAttempts == Calls \X Dates
MCRunOf    == [x \in MCAttempts |-> x[2]]
MCDags     == {Pair, Lone, Empty, Loop}

\* Two dates from midnight to midnight, two from noon to the next midnight
\* (the second is left out), two from noon to noon, and an inverted range.
MCRanges == {<<0, 2>>, <<1, 2>>, <<1, 3>>, <<2, 1>>}

\* The file is edited between the two calls: c1 has the lone task, c2 each of
\* the other dags.
MCInit == BackfillInit /\ dag[<<c1, 0>>] = Lone /\ dag[<<c2, 0>>] # Lone
MCSpec == MCInit /\ [][BackfillNext]_backfillVars /\ BackfillFairness
=============================================================================
