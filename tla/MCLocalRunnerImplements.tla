---------------------- MODULE MCLocalRunnerImplements ----------------------
(* Two attempts, each on a run id of its own, over one store, and a reader *)
(* that looks at one of the runs.                                          *)
EXTENDS LocalRunnerImplements, LineageReader

CONSTANTS a1, a2, r1, r2, ta, tb, tc

Join        == [ids |-> <<tc, ta, tb>>, edges |-> << <<2, 1>>, <<3, 1>> >>]
ForkAndLone == [ids |-> <<ta, tb, tc>>, edges |-> << <<1, 2>> >>]
Reversed    == [ids |-> <<tb, ta>>, edges |-> << <<2, 1>> >>]
Empty       == [ids |-> << >>, edges |-> << >>]
Loop        == [ids |-> <<ta, tb>>, edges |-> << <<1, 2>>, <<2, 1>> >>]

ApartRunOf == [x \in Attempts |-> IF x = a1 THEN r1 ELSE r2]
ApartDags  == {Join, ForkAndLone, Reversed, Empty, Loop}

\* The other run has a small dag, or the cycle that is turned away.
MCInit == Init /\ ReaderInit /\ dag[a2] \in {Reversed, Loop}
MCSpec == MCInit /\ [][ReaderNext]_<<vars, readerVars>>
=============================================================================
