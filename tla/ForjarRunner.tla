---------------------------- MODULE ForjarRunner ----------------------------
(***************************************************************************)
(* ForjarRunner::run of crates/dag-runner: it records the resources of a   *)
(* forjar.yaml as if they were tasks, asks the forjar binary whether the   *)
(* file is valid, and reports every resource as Succeeded.                 *)
(*                                                                         *)
(* As in LocalRunner, an attempt is one call of run(), attempts may share  *)
(* a run id, and the locals of run() are functions over Attempts.  The     *)
(* forjar process is external: a command cannot be spawned, exits with an  *)
(* error or exits with success, whatever the file.                         *)
(***************************************************************************)
EXTENDS LineageStore, SequencesExt

CONSTANTS
  RunOf,         \* the run id each attempt was given
  Files          \* forjar.yaml files: sequences of [id, depends_on]

ASSUME RunOfAssumption == RunOf \in [Attempts -> Runs]

\* The resources are the keys of a map.
ASSUME FilesAssumption == \A f \in Files :
  /\ f \in Seq([id : TaskIds, depends_on : Seq(TaskIds)])
  /\ IsInjective([i \in DOMAIN f |-> f[i].id])

VARIABLES
  file,          \* what yaml_path holds
  pc,            \* where run() is
  pos,           \* position of the loop run() is in
  topo_order,
  task_states,
  commands       \* the forjar commands run() got past, a history variable

localVars == <<file, pc, pos, topo_order, task_states, commands>>
vars      == <<storeVars, localVars>>

Ended    == {"ok", "err", "invalid", "crashed"}
PcValues == {"idle", "edges", "running", "failing", "valid", "recording"} \cup Ended

----------------------------------------------------------------------------
(* The file *)

TaskIdsOf(f) == [i \in DOMAIN f |-> f[i].id]

\* edge_pairs of each file, in the order in which they are collected.
EdgePairs == [f \in Files |->
  FlattenSeq([i \in DOMAIN f |->
    [j \in DOMAIN f[i].depends_on |-> <<f[i].depends_on[j], f[i].id>>]])]

\* The dag of topo_order_from_resources: a dependency is looked up by name.
IndexOf(f, id) == CHOOSE i \in DOMAIN f : f[i].id = id

ResourceDag(f, pairs) ==
  [ids   |-> TaskIdsOf(f),
   edges |-> [k \in DOMAIN pairs |->
                <<IndexOf(f, pairs[k][1]), IndexOf(f, pairs[k][2])>>]]

IsResource(f, id) == id \in Range(TaskIdsOf(f))
DepsKnown(f)      == \A e \in Range(EdgePairs[f]) : IsResource(f, e[1])

SortedIds(f, pairs) ==
  {[i \in DOMAIN f |-> f[o[i]].id] : o \in TopoOrders(ResourceDag(f, pairs))}

\* Mutant: a dependency that is not a resource is passed over.
TopoOrderIds_IgnoresUnknown == [f \in Files |->
  SortedIds(f, SelectSeq(EdgePairs[f], LAMBDA e : IsResource(f, e[1])))]

\* Mutant: the order of the file is taken for the topological one.
TopoOrderIds_FileOrder == [f \in Files |->
  IF DepsKnown(f) /\ IsInjective(EdgePairs[f]) THEN {TaskIdsOf(f)} ELSE {}]

\* The orders topo_order_from_resources may return for each file; none when
\* it fails on an unknown dependency, a repeated one or a cycle.
TopoOrderIds == [f \in Files |->
  IF DepsKnown(f) /\ IsInjective(EdgePairs[f]) THEN SortedIds(f, EdgePairs[f]) ELSE {}]

----------------------------------------------------------------------------

TypeOK ==
  /\ StoreTypeOK
  /\ file \in [Attempts -> Files]
  /\ pc \in [Attempts -> PcValues]
  /\ pos \in [Attempts -> Nat \ {0}]
  /\ \A a \in Attempts :
       pc[a] \notin {"edges", "err", "crashed"} => pos[a] <= Len(file[a]) + 1
  /\ DOMAIN topo_order = Attempts
  /\ \A a \in Attempts :
       topo_order[a] \in {<< >>} \cup Bijection(DOMAIN file[a], Range(TaskIdsOf(file[a])))
  /\ task_states \in [Attempts -> [TaskIds -> TaskStates \cup {"unset"}]]
  /\ commands \in [Attempts -> SUBSET {"version", "validate", "graph"}]

Init ==
  /\ InitSchema
  /\ file \in [Attempts -> Files]
  /\ pc = [a \in Attempts |-> "idle"]
  /\ pos = [a \in Attempts |-> 1]
  /\ topo_order = [a \in Attempts |-> << >>]
  /\ task_states = [a \in Attempts |-> [t \in TaskIds |-> "unset"]]
  /\ commands = [a \in Attempts |-> {}]

Goto(a, label) == pc' = [pc EXCEPT ![a] = label]
Advance(a)     == pos' = [pos EXCEPT ![a] = @ + 1]
Restart(a)     == pos' = [pos EXCEPT ![a] = 1]
Ran(a, cmds)   == commands' = [commands EXCEPT ![a] = @ \cup cmds]
More(a)        == pos[a] <= Len(file[a])

OnlyGoto(a, label) ==
  Goto(a, label) /\ UNCHANGED <<storeVars, file, pos, topo_order, task_states, commands>>

PersistState(a, id, state, output) ==
  RecordTaskRun(RunOf[a], id,
    [state |-> state, started_at |-> a,
     finished_at |-> IF state \in Terminal THEN a ELSE Null,
     output |-> output, by |-> a])

\* parse_yaml fails before the store is touched.
Reject(a) ==
  /\ pc[a] = "idle"
  /\ OnlyGoto(a, "err")

Begin(a) ==
  /\ pc[a] = "idle"
  /\ OnlyGoto(a, "edges")

RecordNextEdge(a) ==
  /\ pc[a] = "edges" /\ pos[a] <= Len(EdgePairs[file[a]])
  /\ RecordEdge(RunOf[a], EdgePairs[file[a]][pos[a]])
  /\ Advance(a)
  /\ UNCHANGED <<taskRuns, file, pc, topo_order, task_states, commands>>

\* Mutant: check_forjar_present is called when an edge is still to record.
CheckForjarPresent_EdgeMissed(a) ==
  /\ pc[a] = "edges" /\ pos[a] >= Len(EdgePairs[file[a]])
  /\ Goto(a, "running") /\ Restart(a) /\ Ran(a, {"version"})
  /\ UNCHANGED <<storeVars, file, topo_order, task_states>>

\* Mutant: the loop over the tasks starts where the one over the edges ended.
CheckForjarPresent_NoRestart(a) ==
  /\ pc[a] = "edges" /\ pos[a] > Len(EdgePairs[file[a]])
  /\ Goto(a, "running") /\ Ran(a, {"version"})
  /\ UNCHANGED <<storeVars, file, pos, topo_order, task_states>>

\* check_forjar_present succeeds.
CheckForjarPresent(a) ==
  /\ pc[a] = "edges" /\ pos[a] > Len(EdgePairs[file[a]])
  /\ Goto(a, "running") /\ Restart(a) /\ Ran(a, {"version"})
  /\ UNCHANGED <<storeVars, file, topo_order, task_states>>

\* Every task starts in Running, before forjar is asked.
MarkRunning(a) ==
  /\ pc[a] = "running" /\ More(a)
  /\ PersistState(a, file[a][pos[a]].id, "Running", "null")
  /\ Advance(a)
  /\ UNCHANGED <<lineageEdges, file, pc, topo_order, task_states, commands>>

\* Mutant: forjar is asked when a task is still to mark.
ValidateOk_Early(a) ==
  /\ pc[a] = "running" /\ pos[a] >= Len(file[a])
  /\ Goto(a, "valid") /\ Ran(a, {"validate"})
  /\ UNCHANGED <<storeVars, file, pos, topo_order, task_states>>

ValidateOk(a) ==
  /\ pc[a] = "running" /\ ~More(a)
  /\ Goto(a, "valid") /\ Ran(a, {"validate"})
  /\ UNCHANGED <<storeVars, file, pos, topo_order, task_states>>

ValidateFails(a) ==
  /\ pc[a] = "running" /\ ~More(a)
  /\ Goto(a, "failing") /\ Restart(a) /\ Ran(a, {"validate"})
  /\ UNCHANGED <<storeVars, file, topo_order, task_states>>

\* Mutant: the loop stays at its task.
MarkFailed_Stuck(a) ==
  /\ pc[a] = "failing" /\ More(a)
  /\ PersistState(a, file[a][pos[a]].id, "Failed", "null")
  /\ UNCHANGED <<lineageEdges, file, pc, pos, topo_order, task_states, commands>>

MarkFailed(a) ==
  /\ pc[a] = "failing" /\ More(a)
  /\ PersistState(a, file[a][pos[a]].id, "Failed", "null")
  /\ Advance(a)
  /\ UNCHANGED <<lineageEdges, file, pc, topo_order, task_states, commands>>

\* Mutant: the loop that marks the tasks Failed stops one task early.
Bail_Early(a) ==
  /\ pc[a] = "failing" /\ pos[a] >= Len(file[a])
  /\ OnlyGoto(a, "invalid")

\* Mutant: the rows are marked, and the run goes on.
Bail_GoOn(a) ==
  /\ pc[a] = "failing" /\ ~More(a)
  /\ OnlyGoto(a, "valid")

\* "forjar validate failed": an error too, told apart here by its label.
Bail(a) ==
  /\ pc[a] = "failing" /\ ~More(a)
  /\ OnlyGoto(a, "invalid")

\* The graph command was spawned, its exit status is not looked at, and
\* topo_order_from_resources returns Ok.
Sort(a) ==
  /\ pc[a] = "valid"
  /\ \E ids \in TopoOrderIds[file[a]] : topo_order' = [topo_order EXCEPT ![a] = ids]
  /\ Goto(a, "recording") /\ Restart(a) /\ Ran(a, {"graph"})
  /\ UNCHANGED <<storeVars, file, task_states>>

\* Mutant: the row is left to the next run.
MarkSucceeded_ReportOnly(a) ==
  /\ pc[a] = "recording" /\ More(a)
  /\ task_states' = [task_states EXCEPT ![a][topo_order[a][pos[a]]] = "Succeeded"]
  /\ Advance(a)
  /\ UNCHANGED <<storeVars, file, pc, topo_order, commands>>

MarkSucceeded(a) ==
  /\ pc[a] = "recording" /\ More(a)
  /\ PersistState(a, topo_order[a][pos[a]], "Succeeded", "value")
  /\ task_states' = [task_states EXCEPT ![a][topo_order[a][pos[a]]] = "Succeeded"]
  /\ Advance(a)
  /\ UNCHANGED <<lineageEdges, file, pc, topo_order, commands>>

ReturnOk(a) ==
  /\ pc[a] = "recording" /\ ~More(a)
  /\ OnlyGoto(a, "ok")

\* A statement of the store fails, a command cannot be spawned, --version
\* exits with an error, or the order cannot be computed.
ReturnErr(a) ==
  /\ \/ pc[a] \in {"edges", "running", "valid"}
     \/ pc[a] \in {"failing", "recording"} /\ More(a)
  /\ OnlyGoto(a, "err")

Crash(a) ==
  /\ pc[a] \notin {"idle"} \cup Ended
  /\ OnlyGoto(a, "crashed")

Step(a) ==
  \/ RecordNextEdge(a)
  \/ CheckForjarPresent(a)
  \/ MarkRunning(a)
  \/ ValidateOk(a)
  \/ ValidateFails(a)
  \/ MarkFailed(a)
  \/ Bail(a)
  \/ Sort(a)
  \/ MarkSucceeded(a)
  \/ ReturnOk(a)
  \/ ReturnErr(a)

Next == \E a \in Attempts : Reject(a) \/ Begin(a) \/ Step(a) \/ Crash(a)

Spec == Init /\ [][Next]_vars

\* The executor polls a started future, and forjar and the store answer.
Fairness == \A a \in Attempts : WF_vars(Step(a))
FairSpec == Spec /\ Fairness

----------------------------------------------------------------------------
(* Properties *)

Rivals(a) == {b \in Attempts \ {a} : RunOf[b] = RunOf[a]}
Alone(a)  == \A b \in Rivals(a) : pc[b] = "idle"

\* As in the lineage of LocalRunner: once an attempt has written a row, the
\* store has every edge of its file, and none that no file on the run id
\* declares (forjar.rs:149 "same shape the LocalRunner records").
LineageIsTopology ==
  /\ \A k \in DOMAIN taskRuns :
       Range(EdgePairs[file[taskRuns[k].by]]) \subseteq EdgesForRun(k[1])
  /\ \A l \in lineageEdges : \E a \in Attempts :
       RunOf[a] = l[1] /\ l[2] \in Range(EdgePairs[file[a]])

\* Of the rows one attempt wrote last, none is Failed beside one that is
\* Succeeded: forjar judges the file as a whole (forjar.rs:183), also when the
\* run died while it recorded.
OneVerdict ==
  \A k, l \in DOMAIN taskRuns :
    k[1] = l[1] /\ taskRuns[k].state = "Failed" /\ taskRuns[l].state = "Succeeded"
    => taskRuns[k].by # taskRuns[l].by

\* Where one attempt has used a run id, a reader who finds a task Succeeded
\* finds all its upstream tasks so, even if the run died while it recorded.
SucceededUpstreamFirst ==
  \A k \in DOMAIN taskRuns :
    taskRuns[k].state = "Succeeded" /\ Alone(taskRuns[k].by) =>
      \A u \in QueryUpstream(k[1], k[2]) :
        /\ <<k[1], u>> \in DOMAIN taskRuns
        /\ taskRuns[<<k[1], u>>].state = "Succeeded"

\* forjar.rs:184 "Mark every task Failed so the report shape is honest": when
\* run() ends because forjar refuses the file, each of its tasks has a row,
\* Failed unless another attempt on the run wrote it since.
RefusedIsSettled ==
  \A a \in Attempts : pc[a] = "invalid" => \A i \in DOMAIN file[a] :
    LET k == <<RunOf[a], file[a][i].id>> IN
    /\ k \in DOMAIN taskRuns
    /\ taskRuns[k].by = a => taskRuns[k].state = "Failed"

\* A report agrees with the store, as LocalRunner's does: each task of the
\* file is Succeeded in both, unless another attempt wrote its row since.
ReportIsDurable ==
  \A a \in Attempts : pc[a] = "ok" => \A i \in DOMAIN file[a] :
    LET id == file[a][i].id
        k  == <<RunOf[a], id>> IN
    /\ task_states[a][id] = "Succeeded"
    /\ id \in Range(topo_order[a])
    /\ k \in DOMAIN taskRuns
    /\ taskRuns[k].by = a => taskRuns[k].state = "Succeeded" /\ taskRuns[k].output = "value"
    /\ (\A b \in Rivals(a) : pc[b] \in {"idle", "ok", "invalid"}) =>
         taskRuns[k].state \in Terminal

\* Contract edge_direction_correct for the second runner.  The edges are
\* recorded before any dependency is checked, so a refused file leaves edges
\* from unknown tasks; a run that returned a report has none.
ReportedEdgesAreKnown ==
  \A a \in Attempts : pc[a] = "ok" /\ Alone(a) =>
    \A e \in EdgesForRun(RunOf[a]) :
      /\ e[1] # e[2]
      /\ \A t \in {e[1], e[2]} : <<RunOf[a], t>> \in DOMAIN taskRuns

\* When the graph command cannot be spawned or no order is found, every row
\* stays Running (forjar.rs:197-212).  A call made once all attempts on the run
\* id are over, in whatever way, and that has a verdict itself, leaves none of
\* their rows among the tasks of its file.
RetryRepairs ==
  \A a \in Attempts :
    []( pc[a] = "idle" /\ (\A b \in Rivals(a) : pc[b] \in Ended)
        => [](pc[a] \in {"ok", "invalid"} => \A i \in DOMAIN file[a] :
                 LET row == taskRuns[<<RunOf[a], file[a][i].id>>] IN
                 row.by = a /\ row.state \in {"Succeeded", "Failed"}) )

\* A run that is called ends.
Terminates == \A a \in Attempts : pc[a] # "idle" ~> pc[a] \in Ended

(* A statement of the documentation that the code does not meet *)

\* forjar.rs:19-23: the runner "asks forjar to plan + apply", and reports the
\* result of each resource.
SucceededWasApplied ==
  \A k \in DOMAIN taskRuns :
    taskRuns[k].state = "Succeeded" => "apply" \in commands[taskRuns[k].by]
=============================================================================
