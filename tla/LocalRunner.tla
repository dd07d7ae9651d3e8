---------------------------- MODULE LocalRunner ----------------------------
(***************************************************************************)
(* LocalRunner::run of crates/dag-runner: it walks a dag in topological    *)
(* order, one task at a time, and records every step in the lineage store. *)
(*                                                                         *)
(* An attempt is one call of run().  Attempts are concurrent (tokio tasks, *)
(* scheduler ticks, other processes on the same database file), and        *)
(* nothing stops two of them from carrying the same run id.  The local     *)
(* variables of run() are functions over Attempts; those of an attempt     *)
(* that has ended or crashed keep their last value, which no action reads. *)
(*                                                                         *)
(* An await of the store and the assignment to a local variable after it   *)
(* are one step: no other attempt reads the local, and a crash between the *)
(* two leaves the same store as a crash after both.                        *)
(***************************************************************************)
EXTENDS LineageStore

CONSTANTS
  RunOf,         \* the run id each attempt was given
  Dags           \* the dags a runner may hold, cyclic ones included

ASSUME RunOfAssumption == RunOf \in [Attempts -> Runs]
ASSUME DagsAssumption  == \A g \in Dags : IsDag(g)

VARIABLES
  dag,           \* LocalRunner.dag
  pc,            \* where run() is
  order,         \* the topological order, once computed
  pos,           \* position of the loop run() is in
  failure_seen,
  task_states,
  task_outputs,
  ctx            \* the ids with a value in Context.state

localVars == <<dag, pc, order, pos, failure_seen, task_states, task_outputs, ctx>>
vars      == <<storeVars, localVars>>

Ended    == {"ok", "err", "crashed"}
InTask   == {"exec", "saveOk", "saveErr"}      \* a task is being executed
PcValues == {"idle", "edges", "walk"} \cup InTask \cup Ended

\* The node the walk is at, and its task id.
Node(a)   == order[a][pos[a]]
TaskId(a) == dag[a].ids[Node(a)]
More(a)   == pos[a] <= Len(dag[a].ids)

TypeOK ==
  /\ StoreTypeOK
  /\ dag \in [Attempts -> Dags]
  /\ pc \in [Attempts -> PcValues]
  /\ DOMAIN order = Attempts
  /\ \A a \in Attempts : order[a] \in {<< >>} \cup TopoOrders(dag[a])
  /\ pos \in [Attempts -> Nat \ {0}]
  /\ failure_seen \in [Attempts -> BOOLEAN]
  /\ task_states \in [Attempts -> [TaskIds -> TaskStates \cup {"unset"}]]
  /\ task_outputs \in [Attempts -> [TaskIds -> Outputs]]
  /\ ctx \in [Attempts -> SUBSET TaskIds]

Init ==
  /\ InitSchema
  /\ dag \in [Attempts -> Dags]
  /\ pc = [a \in Attempts |-> "idle"]
  /\ order = [a \in Attempts |-> << >>]
  /\ pos = [a \in Attempts |-> 1]
  /\ failure_seen = [a \in Attempts |-> FALSE]
  /\ task_states = [a \in Attempts |-> [t \in TaskIds |-> "unset"]]
  /\ task_outputs = [a \in Attempts |-> [t \in TaskIds |-> "null"]]
  /\ ctx = [a \in Attempts |-> {}]

----------------------------------------------------------------------------

Goto(a, label) == pc' = [pc EXCEPT ![a] = label]
Advance(a)     == pos' = [pos EXCEPT ![a] = @ + 1]

\* finished_at is set on a terminal state, to the same clock as started_at.
FinishedAt(a, state) == IF state \in Terminal THEN a ELSE Null

\* Mutant: task_states.entry(task_id).or_insert(state).
PersistState_KeepsFirst(a, state, output) ==
  /\ RecordTaskRun(RunOf[a], TaskId(a),
       [state |-> state, started_at |-> a, finished_at |-> FinishedAt(a, state),
        output |-> output, by |-> a])
  /\ task_states' = [task_states EXCEPT ![a][TaskId(a)] =
                       IF @ = "unset" THEN state ELSE @]

\* persist_state, then the insert into task_states that follows each call.
PersistState(a, state, output) ==
  /\ RecordTaskRun(RunOf[a], TaskId(a),
       [state |-> state, started_at |-> a, finished_at |-> FinishedAt(a, state),
        output |-> output, by |-> a])
  /\ task_states' = [task_states EXCEPT ![a][TaskId(a)] = state]

\* A cycle: run() returns before it touches the store.
Reject(a) ==
  /\ pc[a] = "idle"
  /\ ~(CycleCheckOk(dag[a]) /\ TopoSortOk(dag[a]))
  /\ Goto(a, "err")
  /\ UNCHANGED <<storeVars, dag, order, pos, failure_seen, task_states,
                 task_outputs, ctx>>

\* Mutant: the nodes are walked in any order.
Begin_AnyOrder(a) ==
  /\ pc[a] = "idle"
  /\ CycleCheckOk(dag[a])
  /\ \E o \in Bijection(Nodes(dag[a]), Nodes(dag[a])) : order' = [order EXCEPT ![a] = o]
  /\ Goto(a, "edges")
  /\ UNCHANGED <<storeVars, dag, pos, failure_seen, task_states, task_outputs, ctx>>

Begin(a) ==
  /\ pc[a] = "idle"
  /\ CycleCheckOk(dag[a])
  /\ \E o \in TopoOrders(dag[a]) : order' = [order EXCEPT ![a] = o]
  /\ Goto(a, "edges")
  /\ UNCHANGED <<storeVars, dag, pos, failure_seen, task_states, task_outputs, ctx>>

\* One iteration of the loop that records the edges.
RecordNextEdge(a) ==
  /\ pc[a] = "edges"
  /\ pos[a] <= Len(dag[a].edges)
  /\ RecordEdge(RunOf[a], IdEdge(dag[a], dag[a].edges[pos[a]]))
  /\ Advance(a)
  /\ UNCHANGED <<taskRuns, dag, pc, order, failure_seen, task_states,
                 task_outputs, ctx>>

\* Mutant: the loop over the edges stops one edge early.
StartWalk_EdgeMissed(a) ==
  /\ pc[a] = "edges"
  /\ pos[a] >= Len(dag[a].edges)
  /\ pos' = [pos EXCEPT ![a] = 1]
  /\ Goto(a, "walk")
  /\ UNCHANGED <<storeVars, dag, order, failure_seen, task_states, task_outputs, ctx>>

\* The loop is over: create_dir_all, and the walk starts.
StartWalk(a) ==
  /\ pc[a] = "edges"
  /\ pos[a] > Len(dag[a].edges)
  /\ pos' = [pos EXCEPT ![a] = 1]
  /\ Goto(a, "walk")
  /\ UNCHANGED <<storeVars, dag, order, failure_seen, task_states, task_outputs, ctx>>

\* The body of the walk, up to the call of execute.
SkipTask(a) ==
  /\ pc[a] = "walk" /\ More(a) /\ failure_seen[a]
  /\ PersistState(a, "Skipped", "null")
  /\ Advance(a)
  /\ UNCHANGED <<lineageEdges, dag, pc, order, failure_seen, task_outputs, ctx>>

\* Mutant: the failure is not looked at before a task is started.
StartTask_IgnoresFailure(a) ==
  /\ pc[a] = "walk" /\ More(a)
  /\ PersistState(a, "Running", "null")
  /\ Goto(a, "exec")
  /\ UNCHANGED <<lineageEdges, dag, order, pos, failure_seen, task_outputs, ctx>>

StartTask(a) ==
  /\ pc[a] = "walk" /\ More(a) /\ ~failure_seen[a]
  /\ PersistState(a, "Running", "null")
  /\ Goto(a, "exec")
  /\ UNCHANGED <<lineageEdges, dag, order, pos, failure_seen, task_outputs, ctx>>

\* Context::put of values under these ids.
Put(a, ids) == ctx' = [ctx EXCEPT ![a] = @ \cup ids]

\* Mutant: the value is not put into the context.
ExecuteOk_Unpublished(a) ==
  /\ pc[a] = "exec"
  /\ task_outputs' = [task_outputs EXCEPT ![a][TaskId(a)] = "value"]
  /\ Goto(a, "saveOk")
  /\ UNCHANGED <<storeVars, dag, order, pos, failure_seen, task_states, ctx>>

\* Task::execute returns Ok: the value is published and kept for the report.
ExecuteOk(a) ==
  /\ pc[a] = "exec"
  /\ Put(a, {TaskId(a)})
  /\ task_outputs' = [task_outputs EXCEPT ![a][TaskId(a)] = "value"]
  /\ Goto(a, "saveOk")
  /\ UNCHANGED <<storeVars, dag, order, pos, failure_seen, task_states>>

\* Task::execute returns Err.  The trait lets the body put its own value into
\* the context before that.
ExecuteErr(a) ==
  /\ pc[a] = "exec"
  /\ \E published \in SUBSET {TaskId(a)} : Put(a, published)
  /\ Goto(a, "saveErr")
  /\ UNCHANGED <<storeVars, dag, order, pos, failure_seen, task_states, task_outputs>>

\* Mutant: the walk does not move on, and the task is executed again.
PersistSucceeded_Again(a) ==
  /\ pc[a] = "saveOk"
  /\ PersistState(a, "Succeeded", "value")
  /\ Goto(a, "walk")
  /\ UNCHANGED <<lineageEdges, dag, order, pos, failure_seen, task_outputs, ctx>>

PersistSucceeded(a) ==
  /\ pc[a] = "saveOk"
  /\ PersistState(a, "Succeeded", "value")
  /\ Advance(a)
  /\ Goto(a, "walk")
  /\ UNCHANGED <<lineageEdges, dag, order, failure_seen, task_outputs, ctx>>

\* Mutant: the failure is not noted, and the walk goes on.
PersistFailed_Unnoted(a) ==
  /\ pc[a] = "saveErr"
  /\ PersistState(a, "Failed", "error")
  /\ task_outputs' = [task_outputs EXCEPT ![a][TaskId(a)] = "error"]
  /\ Advance(a)
  /\ Goto(a, "walk")
  /\ UNCHANGED <<lineageEdges, dag, order, failure_seen, ctx>>

\* Mutant: the failure is in the report only, not in the store.
PersistFailed_ReportOnly(a) ==
  /\ pc[a] = "saveErr"
  /\ task_states' = [task_states EXCEPT ![a][TaskId(a)] = "Failed"]
  /\ task_outputs' = [task_outputs EXCEPT ![a][TaskId(a)] = "error"]
  /\ failure_seen' = [failure_seen EXCEPT ![a] = TRUE]
  /\ Advance(a)
  /\ Goto(a, "walk")
  /\ UNCHANGED <<storeVars, dag, order, ctx>>

PersistFailed(a) ==
  /\ pc[a] = "saveErr"
  /\ PersistState(a, "Failed", "error")
  /\ task_outputs' = [task_outputs EXCEPT ![a][TaskId(a)] = "error"]
  /\ failure_seen' = [failure_seen EXCEPT ![a] = TRUE]
  /\ Advance(a)
  /\ Goto(a, "walk")
  /\ UNCHANGED <<lineageEdges, dag, order, ctx>>

\* Mutant: the first failure ends the walk, the rest is not visited.
ReturnOk_AtFailure(a) ==
  /\ pc[a] = "walk" /\ (~More(a) \/ failure_seen[a])
  /\ Goto(a, "ok")
  /\ UNCHANGED <<storeVars, dag, order, pos, failure_seen, task_states,
                 task_outputs, ctx>>

\* Ok(RunReport): the report is task_states, task_outputs and the order.
ReturnOk(a) ==
  /\ pc[a] = "walk" /\ ~More(a)
  /\ Goto(a, "ok")
  /\ UNCHANGED <<storeVars, dag, order, pos, failure_seen, task_states,
                 task_outputs, ctx>>

\* A statement of the store or create_dir_all fails: `?` drops everything.
ReturnErr(a) ==
  /\ \/ pc[a] \in {"edges", "saveOk", "saveErr"}
     \/ pc[a] = "walk" /\ More(a)
  /\ Goto(a, "err")
  /\ UNCHANGED <<storeVars, dag, order, pos, failure_seen, task_states,
                 task_outputs, ctx>>

\* The process dies, the future is dropped or the task body panics.
Crash(a) ==
  /\ pc[a] \notin {"idle"} \cup Ended
  /\ Goto(a, "crashed")
  /\ UNCHANGED <<storeVars, dag, order, pos, failure_seen, task_states,
                 task_outputs, ctx>>

\* What run() does once called; Reject and Begin are the call itself.
Step(a) ==
  \/ RecordNextEdge(a)
  \/ StartWalk(a)
  \/ SkipTask(a)
  \/ StartTask(a)
  \/ ExecuteOk(a)
  \/ ExecuteErr(a)
  \/ PersistSucceeded(a)
  \/ PersistFailed(a)
  \/ ReturnOk(a)
  \/ ReturnErr(a)

Next == \E a \in Attempts : Reject(a) \/ Begin(a) \/ Step(a) \/ Crash(a)

Spec == Init /\ [][Next]_vars

\* The executor keeps polling a future it has started, and a task body and
\* the store return.  Nobody has to call run(), and nothing has to crash.
Fairness == \A a \in Attempts : WF_vars(Step(a))
FairSpec == Spec /\ Fairness

----------------------------------------------------------------------------
(* Vocabulary of the properties *)

IdAt(a, i)    == dag[a].ids[order[a][i]]
StateAt(a, i) == task_states[a][IdAt(a, i)]

OnRun(run) == {a \in Attempts : RunOf[a] = run}
Rivals(a)  == OnRun(RunOf[a]) \ {a}

\* RunReport::all_succeeded, on the report that a returned.
AllSucceeded(a) ==
  /\ Ids(dag[a]) # {}
  /\ \A t \in Ids(dag[a]) : task_states[a][t] = "Succeeded"

(* Safety *)

\* A task body finds a value in the context for each of its upstream tasks,
\* in every dag, duplicate ids included (local.rs:115-118).
UpstreamsPublished ==
  \A a \in Attempts : pc[a] \in InTask => ParentIds(dag[a], Node(a)) \subseteq ctx[a]

\* Once an attempt has written a task row, the store has every edge of its
\* dag, and it never has an edge that no attempt on the run declares: the
\* lineage shows the whole topology even when the run fails half way
\* (local.rs:69-71).
LineageIsTopology ==
  /\ \A k \in DOMAIN taskRuns :
       IdEdges(dag[taskRuns[k].by]) \subseteq EdgesForRun(k[1])
  /\ \A run \in Runs :
       EdgesForRun(run) \subseteq UNION {IdEdges(dag[a]) : a \in OnRun(run)}

\* The rows an attempt has left as Running are the task it is in, or was in
\* when it died: at most one, and none once it has returned a report.
RunningRowIsInFlight ==
  \A k \in DOMAIN taskRuns :
    taskRuns[k].state = "Running" =>
      LET a == taskRuns[k].by IN
      /\ pc[a] \in InTask \cup {"err", "crashed"}
      /\ k = <<RunOf[a], TaskId(a)>>

\* A row written by a re-run carries nothing of the attempt before it: the
\* end and the output are there exactly when the last writer set them.
RowIsOfLastWriter ==
  \A k \in DOMAIN taskRuns : LET row == taskRuns[k] IN
    /\ k[1] = RunOf[row.by]
    /\ row.finished_at = IF row.state \in Terminal THEN row.by ELSE Null
    /\ row.output # "null" <=> row.state \in {"Succeeded", "Failed"}

\* Fail-fast: along the order the states are Succeeded ones, then at most one
\* Failed, then Skipped ones only, and nothing is skipped without a failure.
FailFastIn(a) ==
  \A j \in DOMAIN order[a] :
    /\ StateAt(a, j) = "Skipped" =>
         \E i \in DOMAIN order[a] : i < j /\ StateAt(a, i) = "Failed"
    /\ StateAt(a, j) # "unset" => \A i \in DOMAIN order[a] : i < j =>
         \/ StateAt(a, i) = "Succeeded"
         \/ StateAt(a, i) \in {"Failed", "Skipped"} /\ StateAt(a, j) = "Skipped"

FailFast == \A a \in Attempts : DistinctIds(dag[a]) => FailFastIn(a)

\* What a reader of the store sees of a run with one attempt, even one that
\* died: a task that was started has all its upstream rows Succeeded.
UpstreamRowsSucceeded ==
  \A k \in DOMAIN taskRuns : LET a == taskRuns[k].by IN
    /\ DistinctIds(dag[a])
    /\ \A b \in Rivals(a) : pc[b] = "idle"
    /\ taskRuns[k].state \in {"Running", "Succeeded", "Failed"}
    => \A u \in QueryUpstream(k[1], k[2]) :
         /\ <<k[1], u>> \in DOMAIN taskRuns
         /\ taskRuns[<<k[1], u>>].state = "Succeeded"

\* A report agrees with the store: each of its tasks has a row, the row says
\* what the report says unless another attempt on the run wrote it since, and
\* it is final unless such an attempt is under way or died.  Only the output of
\* a skipped task may differ: a node with its id may have run before it.
ReportIsDurable ==
  \A a \in Attempts : pc[a] = "ok" => \A t \in Ids(dag[a]) :
    LET k == <<RunOf[a], t>> IN
    /\ k \in DOMAIN taskRuns
    /\ taskRuns[k].by = a => taskRuns[k].state = task_states[a][t]
    /\ taskRuns[k].by = a =>
         taskRuns[k].output = task_outputs[a][t] \/ taskRuns[k].state = "Skipped"
    /\ (\A b \in Rivals(a) : pc[b] \in {"idle", "ok"}) => taskRuns[k].state \in Terminal

\* all_succeeded() is true of a report exactly when no execute call failed and
\* the dag has a node: it is false of the report of an empty dag, and no node
\* that shares an id with a failed one hides the failure
\* (dag-runner/src/lib.rs:47-55).
ReportTellsFailure ==
  \A a \in Attempts : pc[a] = "ok" =>
    (AllSucceeded(a) <=> ~failure_seen[a] /\ NodeCount(dag[a]) > 0)

\* An attempt never rewrites a row that it has brought to a terminal state.
TerminalRowsKept ==
  \A k \in DOMAIN taskRuns :
    /\ taskRuns[k].state \in Terminal
    /\ DistinctIds(dag[taskRuns[k].by])
    /\ taskRuns'[k].by = taskRuns[k].by
    => taskRuns'[k] = taskRuns[k]

TerminalIsFinal == [][TerminalRowsKept]_vars

\* A retry on the run id of attempts that are all over (crashed ones among
\* them) leaves no row of theirs among the tasks of its report.
RetryRepairs ==
  \A a \in Attempts :
    []( pc[a] = "idle" /\ (\A b \in Rivals(a) : pc[b] \in Ended)
        => [](pc[a] = "ok" => \A t \in Ids(dag[a]) :
                 taskRuns[<<RunOf[a], t>>].by = a) )

(* Liveness *)

\* A run that is called ends, whatever its dag.
Terminates == \A a \in Attempts : pc[a] # "idle" ~> pc[a] \in Ended

\* After a failure the attempt either ends with an error or crashes, or it
\* brings every task of its dag to a terminal state.
FailureSettlesAll ==
  \A a \in Attempts :
    failure_seen[a] ~> \/ pc[a] \in {"err", "crashed"}
                       \/ \A t \in Ids(dag[a]) : task_states[a][t] \in Terminal

(* Statements of the documentation that the code does not meet *)

\* state.rs:23 "Skipped because an upstream task failed".
SkippedHasFailedUpstream ==
  \A a \in Attempts : DistinctIds(dag[a]) => \A n \in Nodes(dag[a]) :
    task_states[a][dag[a].ids[n]] = "Skipped" =>
      \E m \in Ancestors(dag[a], n) : task_states[a][dag[a].ids[m]] = "Failed"

\* dag-lineage/src/lib.rs:38 "One recorded task execution": the two ends of a
\* finished row are those of one execution.
RowIsOneExecution ==
  \A k \in DOMAIN taskRuns :
    taskRuns[k].finished_at # Null => taskRuns[k].started_at = taskRuns[k].finished_at
=============================================================================
