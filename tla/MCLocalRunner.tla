--------------------------- MODULE MCLocalRunner ---------------------------
(* Instances of LocalRunner for TLC. *)
EXTENDS LocalRunner, TLC

CONSTANTS a1, a2, r1, r2, ta, tb, tc

Join        == [ids |-> <<tc, ta, tb>>, edges |-> << <<2, 1>>, <<3, 1>> >>]
ForkAndLone == [ids |-> <<ta, tb, tc>>, edges |-> << <<1, 2>> >>]
Reversed    == [ids |-> <<tb, ta>>, edges |-> << <<2, 1>> >>]
Twins       == [ids |-> <<ta, ta, tb>>, edges |-> << <<1, 3>> >>]
TwinPair    == [ids |-> <<ta, ta>>, edges |-> << >>]
Empty       == [ids |-> << >>, edges |-> << >>]
Loop        == [ids |-> <<ta, tb>>, edges |-> << <<1, 2>>, <<2, 1>> >>]

\* The attempts share a run id; no attempt carries r2.
OverlapRunOf == [x \in Attempts |-> r1]

OverlapDags == {Join, ForkAndLone, Twins, Empty, Loop}
RetryDags   == {Reversed, TwinPair}

AttemptSymmetry == Permutations(Attempts)
=============================================================================
