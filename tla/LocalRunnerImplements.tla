----------------------- MODULE LocalRunnerImplements -----------------------
(***************************************************************************)
(* LocalRunner implements DagRun, as the lineage store shows it: the       *)
(* status of a task is read from its row, not from the local variables of  *)
(* run().  It takes a run id used by one attempt and a dag with distinct   *)
(* task ids; in the other cases a row does not stand for one task of one   *)
(* run.                                                                    *)
(***************************************************************************)
EXTENDS LocalRunner

CONSTANT Self      \* the attempt looked at

ASSUME SelfAssumption ==
  /\ Self \in Attempts
  /\ \A a \in Attempts : RunOf[a] = RunOf[Self] => a = Self
  /\ \A g \in Dags : DistinctIds(g)

RowKey(n) == <<RunOf[Self], dag[Self].ids[n]>>

StatusInStore ==
  [n \in Nodes(dag[Self]) |->
     IF RowKey(n) \in DOMAIN taskRuns THEN taskRuns[RowKey(n)].state ELSE "Pending"]

Outcome == CASE pc[Self] = "ok" -> "ok"
             [] pc[Self] \in {"err", "crashed"} -> "err"
             [] OTHER -> "open"

Abstract == INSTANCE DagRun WITH
              dag <- dag[Self], status <- StatusInStore, outcome <- Outcome

ImplementsDagRun == Abstract!Spec
=============================================================================
