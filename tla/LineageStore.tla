--------------------------- MODULE LineageStore ---------------------------
(***************************************************************************)
(* The lineage store of crates/dag-lineage: two SQLite tables, one row per *)
(* (run_id, task_id) and one per (run_id, upstream_id, downstream_id).     *)
(* Each method is one SQL statement, hence one atomic step; the modules of *)
(* the runners EXTEND this one and take these operators into their         *)
(* actions.                                                                *)
(*                                                                         *)
(* Of a timestamp the model keeps the attempt (the call of Runner::run)    *)
(* whose clock was read.  `by` is a history field: the attempt whose       *)
(* record_task_run call wrote the row last.  No guard reads it.            *)
(***************************************************************************)
EXTENDS DagCore, FiniteSets

CONSTANTS
  Runs,          \* run ids
  Attempts,      \* calls of Runner::run; several may carry one run id
  Null           \* SQL NULL

ASSUME NullAssumption == Null \notin Attempts

VARIABLES
  taskRuns,      \* task_runs: <<run_id, task_id>> -> row
  lineageEdges   \* lineage_edges: the set of its primary keys

storeVars == <<taskRuns, lineageEdges>>

TaskStates == {"Queued", "Running", "Succeeded", "Failed", "Skipped"}
Terminal   == {"Succeeded", "Failed", "Skipped"}
Outputs    == {"null", "value", "error"}      \* output_json

Row == [state       : TaskStates,
        started_at  : Attempts,
        finished_at : Attempts \cup {Null},
        output      : Outputs,
        by          : Attempts]

IdPairs == TaskIds \X TaskIds

StoreTypeOK ==
  /\ DOMAIN taskRuns \subseteq Runs \X TaskIds
  /\ taskRuns \in [DOMAIN taskRuns -> Row]
  /\ lineageEdges \subseteq Runs \X IdPairs

\* init_schema: CREATE TABLE IF NOT EXISTS on a fresh database.
InitSchema ==
  /\ taskRuns = [k \in {} |-> Null]
  /\ lineageEdges = {}

\* Mutant: ON CONFLICT DO NOTHING.
Upsert_DoNothing(key, rec) ==
  IF key \in DOMAIN taskRuns THEN taskRuns[key] ELSE rec

\* Mutant: finished_at = COALESCE(excluded.finished_at, finished_at).
Upsert_KeepsEnd(key, rec) ==
  IF key \in DOMAIN taskRuns
  THEN [rec EXCEPT !.started_at = taskRuns[key].started_at,
                   !.finished_at = IF @ = Null THEN taskRuns[key].finished_at ELSE @]
  ELSE rec

\* ON CONFLICT DO UPDATE names state, finished_at and output_json only: the
\* row keeps the started_at of its first insert.
Upsert(key, rec) ==
  IF key \in DOMAIN taskRuns
  THEN [rec EXCEPT !.started_at = taskRuns[key].started_at]
  ELSE rec

RecordTaskRun(run, task, rec) ==
  taskRuns' = [k \in DOMAIN taskRuns \cup {<<run, task>>} |->
                 IF k = <<run, task>> THEN Upsert(k, rec) ELSE taskRuns[k]]

\* INSERT OR IGNORE.
RecordEdge(run, edge) == lineageEdges' = lineageEdges \cup {<<run, edge>>}

\* Mutant: without WHERE run_id = ?.
EdgesForRun_AllRuns(run) == {e[2] : e \in lineageEdges}

EdgesForRun(run) == {e[2] : e \in {f \in lineageEdges : f[1] = run}}

EdgeCount(run) == Cardinality(EdgesForRun(run))

QueryUpstream(run, task) == {e[1] : e \in {f \in EdgesForRun(run) : f[2] = task}}

\* Mutant: the columns are those of query_upstream.
QueryDownstream_Swapped(run, task) == {e[1] : e \in {f \in EdgesForRun(run) : f[2] = task}}

QueryDownstream(run, task) == {e[2] : e \in {f \in EdgesForRun(run) : f[1] = task}}

\* The rows of a run, by task id.
TaskRunsForRun(run) ==
  [task \in {k[2] : k \in {key \in DOMAIN taskRuns : key[1] = run}} |-> taskRuns[<<run, task>>]]
=============================================================================
