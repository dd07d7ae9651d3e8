--------------------------- MODULE MCForjarRunner ---------------------------
(* Two attempts over one store: a1 and a2 on one run id, or a1 and a3, which *)
(* has a run id of its own.  tx is never a resource.                         *)
EXTENDS ForjarRunnerImplements

CONSTANTS a1, a2, a3, r1, r2, ta, tb, tc, tx

Res(id, deps) == [id |-> id, depends_on |-> deps]

Join     == <<Res(tc, <<ta, tb>>), Res(ta, << >>), Res(tb, << >>)>>
Pair     == <<Res(ta, << >>), Res(tb, <<ta>>)>>
Dangling == <<Res(ta, <<tx>>), Res(tb, <<ta, tx>>)>>
Repeated == <<Res(ta, << >>), Res(tb, <<ta, ta>>)>>
Loop     == <<Res(ta, <<tb>>), Res(tb, <<ta>>)>>
NoRes    == << >>

MCRunOf == [x \in Attempts |-> IF x = a3 THEN r2 ELSE r1]

MCFiles == {Join, Pair, Dangling, Repeated, Loop, NoRes}

\* Of a2 and a3 one is called at most, so they may as well have one file; a3 is
\* called beside a run of Pair.
MCInit == Init /\ file[a2] = file[a3]
MCNext ==
  /\ Next
  /\ pc'[a3] # "idle" => pc'[a2] = "idle" /\ file[a1] = Pair

MCSpec     == MCInit /\ [][MCNext]_vars
MCFairSpec == MCSpec /\ Fairness
=============================================================================
