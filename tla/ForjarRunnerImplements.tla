----------------------- MODULE ForjarRunnerImplements -----------------------
(***************************************************************************)
(* ForjarRunner implements FileRun, as the lineage store shows it, when no *)
(* other attempt has the run id of the attempt looked at: else a row does  *)
(* not stand for a task of one run.                                        *)
(***************************************************************************)
EXTENDS ForjarRunner

CONSTANT Self      \* the attempt looked at

RowKey(id) == <<RunOf[Self], id>>

StatusInStore ==
  [id \in Range(TaskIdsOf(file[Self])) |->
     IF RowKey(id) \in DOMAIN taskRuns THEN taskRuns[RowKey(id)].state ELSE "Pending"]

Outcome == CASE pc[Self] = "ok" -> "ok"
             [] pc[Self] = "invalid" -> "refused"
             [] pc[Self] \in {"err", "crashed"} -> "err"
             [] OTHER -> "open"

Abstract == INSTANCE FileRun WITH
              tasks <- Range(TaskIdsOf(file[Self])), edges <- Range(EdgePairs[file[Self]]),
              status <- StatusInStore, outcome <- Outcome

\* The rows of the run change as FileRun says.
ImplementsFileRun == Abstract!Spec
=============================================================================
