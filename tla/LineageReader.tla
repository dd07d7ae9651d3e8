--------------------------- MODULE LineageReader ---------------------------
(***************************************************************************)
(* A reader of the lineage store that works while runs write to it:        *)
(* cmd_lineage of crates/dag-cli, render_mermaid and edge_count.  The      *)
(* graph and the neighbours of a task take two SQL statements each, with   *)
(* no transaction around them, so the runs go on in between.               *)
(*                                                                         *)
(* The reader makes one call, at any time; since it changes nothing, a     *)
(* second call would see what a first one made at that time sees.          *)
(* knownWriters and knownReports are history: what the store and the       *)
(* callers of run() had seen of the run when the call began.               *)
(***************************************************************************)
EXTENDS LocalRunner

CONSTANT Watched      \* the run id the reader asks about

ASSUME WatchedAssumption == Watched \in Runs

VARIABLES
  query,              \* what is asked
  task,               \* the task id it is about, if any
  rpc,                \* where the reader is
  first, second,      \* what the two statements gave
  knownWriters,       \* the attempts with a row in the run
  knownReports        \* the attempts that had returned a report

readerVars == <<query, task, rpc, first, second, knownWriters, knownReports>>

ReaderInit ==
  /\ query = "none" /\ task = Null /\ rpc = "idle"
  /\ first = {} /\ second = {}
  /\ knownWriters = {} /\ knownReports = {}

----------------------------------------------------------------------------

RowsWatched == TaskRunsForRun(Watched)

Ask(q, t, answer, next) ==
  /\ rpc = "idle"
  /\ query' = q /\ task' = t /\ first' = answer /\ rpc' = next
  /\ knownWriters' = {RowsWatched[u].by : u \in DOMAIN RowsWatched}
  /\ knownReports' = {a \in OnRun(Watched) : pc[a] = "ok"}
  /\ UNCHANGED second

AskMore(q, answer) ==
  /\ rpc = "more" /\ query = q
  /\ second' = answer /\ rpc' = "done"
  /\ UNCHANGED <<query, task, first, knownWriters, knownReports>>

Ends(edges) == UNION {{e[1], e[2]} : e \in edges}

\* render_mermaid: first the edges, then the tasks that have a row.
RenderEdges == Ask("mermaid", Null, EdgesForRun(Watched), "more")
RenderTasks == AskMore("mermaid", Ends(first) \cup DOMAIN RowsWatched)

\* cmd_lineage without --mermaid.
ReadUpstream(t) == Ask("lineage", t, QueryUpstream(Watched, t), "more")
ReadDownstream  == AskMore("lineage", QueryDownstream(Watched, task))

CountEdges == Ask("edge_count", Null, EdgeCount(Watched), "done")

\* The second statement fails: `?` drops what the first gave.
ReadFails ==
  /\ rpc = "more" /\ rpc' = "err"
  /\ UNCHANGED <<query, task, first, second, knownWriters, knownReports>>

Read ==
  \/ RenderEdges
  \/ RenderTasks
  \/ \E t \in TaskIds : ReadUpstream(t)
  \/ ReadDownstream
  \/ CountEdges
  \/ ReadFails

ReaderNext ==
  \/ Next /\ UNCHANGED readerVars
  \/ Read /\ UNCHANGED vars

ReaderSpec == Init /\ ReaderInit /\ [][ReaderNext]_<<vars, readerVars>>

----------------------------------------------------------------------------

Answered(q) == rpc = "done" /\ query = q

Declared == UNION {IdEdges(dag[a]) : a \in OnRun(Watched)}
Recorded == UNION {IdEdges(dag[a]) : a \in knownWriters}

\* The graph shows no edge and no task that the dags of the run do not have,
\* every edge of a run that had a row when the call began, and every task of
\* one that had reported: a graph drawn in the middle of a run may lack tasks,
\* but no edge between them (dag-lineage/src/lib.rs:280-311).
RenderIsTopology ==
  Answered("mermaid") =>
    /\ Recorded \subseteq first /\ first \subseteq Declared
    /\ Ends(first) \subseteq second
    /\ second \subseteq UNION {Ids(dag[a]) : a \in OnRun(Watched)}
    /\ \A a \in knownReports : Ids(dag[a]) \subseteq second

\* The neighbours of a task, read by two statements, are of the dag and are
\* all there once the run has a row; no task is on both sides of another, as
\* long as one dag was run under the id; and the count is then the number of
\* its dependencies (dag-rust-v1.yaml:35-42, edge_direction_correct).
NeighboursAreTopology ==
  /\ Answered("lineage") =>
       /\ \A u \in first  : <<u, task>> \in Declared
       /\ \A d \in second : <<task, d>> \in Declared
       /\ \A e \in Recorded : (e[2] = task => e[1] \in first) /\ (e[1] = task => e[2] \in second)
       /\ (\A a, b \in OnRun(Watched) : dag[a] = dag[b] /\ DistinctIds(dag[a])) => first \cap second = {}
  /\ Answered("edge_count") =>
       Cardinality(Recorded) <= first /\ first <= Cardinality(Declared)
=============================================================================
