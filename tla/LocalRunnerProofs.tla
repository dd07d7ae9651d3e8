-------------------------- MODULE LocalRunnerProofs --------------------------
(***************************************************************************)
(* Safety of LocalRunner, for every set of attempts, run ids, task ids and *)
(* dags: any number of attempts may overlap on one run id.                 *)
(***************************************************************************)
EXTENDS LocalRunner, DagCoreProofs

----------------------------------------------------------------------------
(* The inductive invariant, in the order in which its parts are proved *)

Walking == {"walk"} \cup InTask

\* What the program counter says of the local variables.
ControlOf(a) ==
  /\ pc[a] \in {"edges", "ok"} \cup Walking => order[a] \in TopoOrders(dag[a])
  /\ pc[a] \in {"idle", "edges"} =>
       ~failure_seen[a] /\ \A t \in TaskIds : task_states[a][t] = "unset"
  /\ pc[a] = "idle" => pos[a] = 1
  /\ pc[a] \in InTask => More(a) /\ ~failure_seen[a]
  /\ pc[a] = "walk" => pos[a] <= Len(dag[a].ids) + 1
  /\ pc[a] = "ok" => pos[a] = Len(dag[a].ids) + 1

ControlOK == \A a \in Attempts : ControlOf(a)

\* Before a failure, each task walked past has its value in the context.
PublishedOf(a) ==
  /\ pc[a] \in Walking /\ ~failure_seen[a] =>
       \A i \in Nodes(dag[a]) : i < pos[a] => IdAt(a, i) \in ctx[a]
  /\ pc[a] = "saveOk" => TaskId(a) \in ctx[a]

Published == \A a \in Attempts : PublishedOf(a)

\* What task_states holds, in every dag.  An id that several nodes share
\* holds the state of the node walked last.
StatesOf(a) ==
  /\ \A t \in TaskIds : task_states[a][t] = "Running" =>
       pc[a] \in InTask \cup {"err", "crashed"} /\ t = TaskId(a)
  /\ pc[a] \in Walking /\ ~failure_seen[a] =>
       \A i \in Nodes(dag[a]) : i < pos[a] =>
         \/ StateAt(a, i) = "Succeeded"
         \/ pc[a] \in InTask /\ IdAt(a, i) = TaskId(a)
  /\ pc[a] \in {"walk", "ok"} /\ failure_seen[a] =>
       /\ \A i \in Nodes(dag[a]) : i < pos[a] => StateAt(a, i) \in Terminal
       /\ \E i \in Nodes(dag[a]) :
            i < pos[a] /\ StateAt(a, i) \in {"Failed", "Skipped"}
  /\ pc[a] = "ok" /\ ~failure_seen[a] =>
       \A i \in Nodes(dag[a]) : StateAt(a, i) = "Succeeded"

StatesOK == \A a \in Attempts : StatesOf(a)

\* With distinct ids, an attempt has touched the tasks before position p only,
\* besides the one at p that it may have started: they all succeeded, or one
\* failed and those between it and p were skipped.
ShapeAt(a, p) ==
  /\ \A i \in Nodes(dag[a]) : i > p => StateAt(a, i) = "unset"
  /\ \A i \in Nodes(dag[a]) : i = p =>
       StateAt(a, i) = "unset" \/ (~failure_seen[a] /\ StateAt(a, i) = "Running")
  /\ ~failure_seen[a] =>
       \A i \in Nodes(dag[a]) : i < p => StateAt(a, i) = "Succeeded"
  /\ failure_seen[a] => \E f \in Nodes(dag[a]) :
       /\ f < p /\ StateAt(a, f) = "Failed"
       /\ \A i \in Nodes(dag[a]) : i < f => StateAt(a, i) = "Succeeded"
       /\ \A i \in Nodes(dag[a]) : f < i /\ i < p => StateAt(a, i) = "Skipped"

\* Such a position exists, for a dead attempt too; while it walks, it is pos.
ShapeOf(a) ==
  DistinctIds(dag[a]) /\ order[a] \in TopoOrders(dag[a]) =>
    \E p \in 1..(Len(dag[a].ids) + 1) :
      ShapeAt(a, p) /\ (pc[a] \in {"ok"} \cup Walking => p = pos[a])

ShapeOK == \A a \in Attempts : ShapeOf(a)

\* A row holds what its last writer remembers of the task, and each task an
\* attempt remembers has a row.
StoreMatchesMemory ==
  /\ \A k \in DOMAIN taskRuns :
       /\ k[1] = RunOf[taskRuns[k].by]
       /\ taskRuns[k].state = task_states[taskRuns[k].by][k[2]]
  /\ \A a \in Attempts : \A t \in TaskIds :
       task_states[a][t] # "unset" => <<RunOf[a], t>> \in DOMAIN taskRuns

EdgeRecorded(a, e) == <<RunOf[a], IdEdge(dag[a], e)>> \in lineageEdges

\* The edges an attempt has recorded: all those it has looped over, and all
\* of its dag once it has walked or has written a row.
EdgesOf(a) ==
  /\ pc[a] = "edges" => \A i \in DOMAIN dag[a].edges :
       i < pos[a] => EdgeRecorded(a, dag[a].edges[i])
  /\ \/ pc[a] \in Walking
     \/ \E t \in TaskIds : task_states[a][t] # "unset"
     => \A e \in EdgeSet(dag[a]) : EdgeRecorded(a, e)

EdgesOK ==
  /\ \A a \in Attempts : EdgesOf(a)
  /\ \A l \in lineageEdges :
       \E a \in Attempts : l[1] = RunOf[a] /\ l[2] \in IdEdges(dag[a])

----------------------------------------------------------------------------
(* Facts used throughout *)

LEMMA OrderFacts ==
  ASSUME NEW g, IsDag(g), NEW o \in TopoOrders(g)
  PROVE  /\ o \in [Nodes(g) -> Nodes(g)]
         /\ IsInjective(o)
         /\ \A n \in Nodes(g) : \E i \in Nodes(g) : o[i] = n
         /\ \A i, j \in Nodes(g) : <<o[i], o[j]>> \in EdgeSet(g) => i < j
BY DEF TopoOrders, IsTopoOrder, Bijection, Injection, Surjection

LEMMA DagOfAttempt ==
  ASSUME TypeOK, NEW a \in Attempts
  PROVE  /\ IsDag(dag[a])
         /\ Len(dag[a].ids) \in Nat
         /\ Nodes(dag[a]) = 1..Len(dag[a].ids)
         /\ dag[a].ids \in [Nodes(dag[a]) -> TaskIds]
BY DagsAssumption, NodesOfDag DEF TypeOK, NodeCount

\* While tasks are left, the walk is at a node of the dag.
LEMMA NodeOfWalk ==
  ASSUME TypeOK, ControlOK, NEW a \in Attempts, pc[a] \in Walking, More(a)
  PROVE  /\ pos[a] \in Nodes(dag[a])
         /\ Node(a) \in Nodes(dag[a])
         /\ TaskId(a) \in TaskIds
<1>1. pos[a] \in Nodes(dag[a])
  BY DagOfAttempt DEF TypeOK, More
<1>2. Node(a) \in Nodes(dag[a])
  BY <1>1, OrderFacts, DagOfAttempt DEF ControlOK, ControlOf, Node
<1> QED  BY <1>1, <1>2, DagOfAttempt DEF TaskId

\* The step of an attempt changes the local variables of no other.
LEMMA OthersUnchanged ==
  ASSUME TypeOK, NEW a \in Attempts, Reject(a) \/ Begin(a) \/ Step(a) \/ Crash(a),
         NEW b \in Attempts \ {a}
  PROVE  /\ dag' = dag
         /\ pc'[b] = pc[b] /\ order'[b] = order[b] /\ pos'[b] = pos[b]
         /\ failure_seen'[b] = failure_seen[b]
         /\ task_states'[b] = task_states[b]
         /\ task_outputs'[b] = task_outputs[b]
         /\ ctx'[b] = ctx[b]
BY DEF TypeOK, Reject, Begin, Step, RecordNextEdge, StartWalk, SkipTask, StartTask,
       ExecuteOk, ExecuteErr, Put, PersistSucceeded, PersistFailed, ReturnOk, ReturnErr,
       Crash, Goto, Advance, PersistState

----------------------------------------------------------------------------
(* Types and control *)

LEMMA PersistStateType ==
  ASSUME TypeOK, ControlOK, NEW a \in Attempts, pc[a] \in Walking, More(a),
         NEW state \in TaskStates, NEW output \in Outputs,
         PersistState(a, state, output)
  PROVE  /\ DOMAIN taskRuns' \subseteq Runs \X TaskIds
         /\ taskRuns' \in [DOMAIN taskRuns' -> Row]
         /\ task_states' \in [Attempts -> [TaskIds -> TaskStates \cup {"unset"}]]
<1> DEFINE key == <<RunOf[a], TaskId(a)>>
           rec == [state |-> state, started_at |-> a,
                   finished_at |-> FinishedAt(a, state), output |-> output, by |-> a]
<1>1. TaskId(a) \in TaskIds /\ RunOf[a] \in Runs
  BY NodeOfWalk, RunOfAssumption
<1>2. rec \in Row
  BY DEF Row, FinishedAt
<1>3. \A k \in DOMAIN taskRuns : taskRuns[k] \in Row
  BY DEF TypeOK, StoreTypeOK
<1>4. \A k : Upsert(k, rec) \in Row
  BY <1>2, <1>3 DEF Upsert, Row
<1>5. taskRuns' = [k \in DOMAIN taskRuns \cup {key} |->
                     IF k = key THEN Upsert(k, rec) ELSE taskRuns[k]]
  BY DEF PersistState, RecordTaskRun
<1>6. /\ DOMAIN taskRuns' \subseteq Runs \X TaskIds
      /\ taskRuns' \in [DOMAIN taskRuns' -> Row]
  BY <1>1, <1>3, <1>4, <1>5 DEF TypeOK, StoreTypeOK
<1>7. task_states' \in [Attempts -> [TaskIds -> TaskStates \cup {"unset"}]]
  BY <1>1 DEF PersistState, TypeOK
<1> QED  BY <1>6, <1>7

LEMMA IdEdgeType ==
  ASSUME TypeOK, NEW a \in Attempts, NEW e \in EdgeSet(dag[a])
  PROVE  IdEdge(dag[a], e) \in IdPairs
<1>1. e \in Nodes(dag[a]) \X Nodes(dag[a])
  BY DagOfAttempt, NodesOfDag
<1> QED  BY <1>1, DagOfAttempt DEF IdEdge, IdPairs

LEMMA InitTypes == Init => TypeOK /\ ControlOK
<1> SUFFICES ASSUME Init PROVE TypeOK /\ ControlOK
  OBVIOUS
<1>1. StoreTypeOK
  BY DEF Init, InitSchema, StoreTypeOK
<1>2. TypeOK
  BY <1>1 DEF Init, TypeOK, PcValues, InTask, Ended, Outputs
<1>3. ControlOK
  BY DEF Init, ControlOK, ControlOf, Walking, InTask
<1> QED  BY <1>2, <1>3

LEMMA NextTypes == TypeOK /\ ControlOK /\ [Next]_vars => TypeOK'
<1> SUFFICES ASSUME TypeOK, ControlOK, [Next]_vars PROVE TypeOK'
  OBVIOUS
<1>0. CASE UNCHANGED vars
  BY <1>0 DEF vars, storeVars, localVars, TypeOK, StoreTypeOK
<1> SUFFICES ASSUME NEW a \in Attempts,
                    Reject(a) \/ Begin(a) \/ Step(a) \/ Crash(a)
             PROVE  TypeOK'
  BY <1>0 DEF Next
<1> USE DEF Goto, Advance
<1>1. CASE Reject(a)
  BY <1>1 DEF Reject, TypeOK, StoreTypeOK, storeVars, PcValues, Ended
<1>2. CASE Begin(a)
  BY <1>2 DEF Begin, TypeOK, StoreTypeOK, storeVars, PcValues, TopoOrders
<1>3. CASE RecordNextEdge(a)
  <2>1. dag[a].edges[pos[a]] \in EdgeSet(dag[a])
    BY <1>3, DagOfAttempt DEF RecordNextEdge, EdgeSet, Range, IsDag, TypeOK
  <2>2. IdEdge(dag[a], dag[a].edges[pos[a]]) \in IdPairs
    BY <2>1, IdEdgeType
  <2>3. lineageEdges' \subseteq Runs \X IdPairs
    <3>1. lineageEdges \subseteq Runs \X IdPairs
      BY DEF TypeOK, StoreTypeOK
    <3>2. lineageEdges' = lineageEdges \cup
                           {<<RunOf[a], IdEdge(dag[a], dag[a].edges[pos[a]])>>}
      BY <1>3 DEF RecordNextEdge, RecordEdge
    <3> QED  BY <2>2, <3>1, <3>2, RunOfAssumption
  <2> QED  BY <1>3, <2>3 DEF RecordNextEdge, TypeOK, StoreTypeOK
<1>4. CASE StartWalk(a)
  BY <1>4 DEF StartWalk, TypeOK, StoreTypeOK, storeVars, PcValues
<1>5. CASE SkipTask(a)
  <2>1. PersistState(a, "Skipped", "null") /\ pc[a] \in Walking /\ More(a)
    BY <1>5 DEF SkipTask, Walking
  <2> QED  BY <1>5, <2>1, PersistStateType
              DEF SkipTask, TypeOK, StoreTypeOK, TaskStates, Outputs
<1>6. CASE StartTask(a)
  <2>1. PersistState(a, "Running", "null") /\ pc[a] \in Walking /\ More(a)
    BY <1>6 DEF StartTask, Walking
  <2> QED  BY <1>6, <2>1, PersistStateType
              DEF StartTask, TypeOK, StoreTypeOK, TaskStates, Outputs, PcValues, InTask
<1>7. CASE ExecuteOk(a)
  <2>1. TaskId(a) \in TaskIds
    BY <1>7, NodeOfWalk DEF ExecuteOk, Put, Walking, InTask, ControlOK, ControlOf
  <2> QED  BY <1>7, <2>1 DEF ExecuteOk, Put, TypeOK, StoreTypeOK, storeVars, Outputs, PcValues, InTask
<1>8. CASE ExecuteErr(a)
  <2>1. TaskId(a) \in TaskIds
    BY <1>8, NodeOfWalk DEF ExecuteErr, Put, Walking, InTask, ControlOK, ControlOf
  <2> QED  BY <1>8, <2>1 DEF ExecuteErr, Put, TypeOK, StoreTypeOK, storeVars, PcValues, InTask
<1>9. CASE PersistSucceeded(a)
  <2>1. PersistState(a, "Succeeded", "value") /\ pc[a] \in Walking /\ More(a)
    BY <1>9 DEF PersistSucceeded, Walking, InTask, ControlOK, ControlOf
  <2> QED  BY <1>9, <2>1, PersistStateType
              DEF PersistSucceeded, TypeOK, StoreTypeOK, TaskStates, Outputs, PcValues
<1>10. CASE PersistFailed(a)
  <2>1. PersistState(a, "Failed", "error") /\ pc[a] \in Walking /\ More(a)
    BY <1>10 DEF PersistFailed, Walking, InTask, ControlOK, ControlOf
  <2>2. TaskId(a) \in TaskIds
    BY <2>1, NodeOfWalk
  <2> QED  BY <1>10, <2>1, <2>2, PersistStateType
              DEF PersistFailed, TypeOK, StoreTypeOK, TaskStates, Outputs, PcValues
<1>11. CASE ReturnOk(a)
  BY <1>11 DEF ReturnOk, TypeOK, StoreTypeOK, storeVars, PcValues, Ended
<1>12. CASE ReturnErr(a)
  BY <1>12 DEF ReturnErr, TypeOK, StoreTypeOK, storeVars, PcValues, Ended
<1>13. CASE Crash(a)
  BY <1>13 DEF Crash, TypeOK, StoreTypeOK, storeVars, PcValues, Ended
<1> QED  BY <1>1, <1>2, <1>3, <1>4, <1>5, <1>6, <1>7, <1>8, <1>9, <1>10,
            <1>11, <1>12, <1>13 DEF Step

LEMMA NextControl == TypeOK /\ ControlOK /\ [Next]_vars => ControlOK'
<1> SUFFICES ASSUME TypeOK, ControlOK, [Next]_vars PROVE ControlOK'
  OBVIOUS
<1>0. CASE UNCHANGED vars
  BY <1>0 DEF vars, localVars, ControlOK, ControlOf, More
<1> SUFFICES ASSUME NEW a \in Attempts,
                    Reject(a) \/ Begin(a) \/ Step(a) \/ Crash(a),
                    NEW b \in Attempts
             PROVE  ControlOf(b)'
  BY <1>0 DEF Next, ControlOK
<1>1. CASE b # a
  BY <1>1, OthersUnchanged DEF ControlOK, ControlOf, More
<1> SUFFICES ControlOf(a)'
  BY <1>1
<1>2. ControlOf(a) /\ dag' = dag
  BY DEF ControlOK, Reject, Begin, Step, RecordNextEdge, StartWalk, SkipTask,
         StartTask, ExecuteOk, ExecuteErr, Put, PersistSucceeded, PersistFailed,
         ReturnOk, ReturnErr, Crash
<1> USE <1>2 DEF ControlOf, Walking, InTask, Goto, Advance, More, TypeOK
<1>3. CASE Reject(a)
  BY <1>3 DEF Reject
<1>4. CASE Begin(a)
  BY <1>4 DEF Begin
<1>5. CASE RecordNextEdge(a)
  BY <1>5 DEF RecordNextEdge
<1>6. CASE StartWalk(a)
  BY <1>6, DagOfAttempt DEF StartWalk
<1>7. CASE SkipTask(a)
  BY <1>7, DagOfAttempt DEF SkipTask
<1>8. CASE StartTask(a)
  BY <1>8 DEF StartTask
<1>9. CASE ExecuteOk(a)
  BY <1>9 DEF ExecuteOk, Put
<1>10. CASE ExecuteErr(a)
  BY <1>10 DEF ExecuteErr, Put
<1>11. CASE PersistSucceeded(a)
  BY <1>11, DagOfAttempt DEF PersistSucceeded
<1>12. CASE PersistFailed(a)
  BY <1>12, DagOfAttempt DEF PersistFailed
<1>13. CASE ReturnOk(a)
  BY <1>13, DagOfAttempt DEF ReturnOk
<1>14. CASE ReturnErr(a)
  BY <1>14 DEF ReturnErr
<1>15. CASE Crash(a)
  BY <1>15 DEF Crash
<1> QED  BY <1>3, <1>4, <1>5, <1>6, <1>7, <1>8, <1>9, <1>10, <1>11, <1>12,
            <1>13, <1>14, <1>15 DEF Step

\* Each variable keeps its type: among others, an attempt under way holds a
\* topological order of its dag, and the store holds rows and edges of known
\* runs and tasks only.
THEOREM TypeCorrect == Spec => [](TypeOK /\ ControlOK)
<1>1. Init => TypeOK /\ ControlOK
  BY InitTypes
<1>2. TypeOK /\ ControlOK /\ [Next]_vars => (TypeOK /\ ControlOK)'
  BY NextTypes, NextControl
<1> QED  BY <1>1, <1>2, PTL DEF Spec

----------------------------------------------------------------------------
(* Writes of task rows *)

\* What PersistState leaves in task_states and in the store.
LEMMA PersistStateMemory ==
  ASSUME TypeOK, ControlOK, NEW a \in Attempts, pc[a] \in Walking, More(a),
         NEW state, NEW output, PersistState(a, state, output)
  PROVE  /\ TaskId(a) \in TaskIds
         /\ \A t \in TaskIds :
              task_states'[a][t] = IF t = TaskId(a) THEN state ELSE task_states[a][t]
         /\ \A b \in Attempts \ {a} : task_states'[b] = task_states[b]
<1>1. TaskId(a) \in TaskIds
  BY NodeOfWalk
<1> QED  BY <1>1 DEF PersistState, TypeOK

LEMMA PersistStateStore ==
  ASSUME NEW a \in Attempts, NEW state, NEW output, PersistState(a, state, output),
         NEW key, key = <<RunOf[a], TaskId(a)>>
  PROVE  /\ DOMAIN taskRuns' = DOMAIN taskRuns \cup {key}
         /\ taskRuns'[key].state = state
         /\ taskRuns'[key].output = output
         /\ taskRuns'[key].by = a
         /\ taskRuns'[key].finished_at = FinishedAt(a, state)
         /\ \A k \in DOMAIN taskRuns \ {key} : taskRuns'[k] = taskRuns[k]
<1> DEFINE rec == [state |-> state, started_at |-> a,
                   finished_at |-> FinishedAt(a, state), output |-> output, by |-> a]
<1>1. taskRuns' = [k \in DOMAIN taskRuns \cup {key} |->
                     IF k = key THEN Upsert(k, rec) ELSE taskRuns[k]]
  BY DEF PersistState, RecordTaskRun
<1>2. taskRuns'[key] = Upsert(key, rec)
  BY <1>1
<1>3. \A x : LET row == [rec EXCEPT !.started_at = x] IN
        /\ row.state = state /\ row.output = output /\ row.by = a
        /\ row.finished_at = FinishedAt(a, state)
  OBVIOUS
<1>4. /\ taskRuns'[key].state = state /\ taskRuns'[key].output = output
      /\ taskRuns'[key].by = a
      /\ taskRuns'[key].finished_at = FinishedAt(a, state)
  BY <1>2, <1>3 DEF Upsert
<1> QED  BY <1>1, <1>4

Writes == {<<"Skipped", "null">>, <<"Running", "null">>,
           <<"Succeeded", "value">>, <<"Failed", "error">>}

\* A step writes at most one row, that of the task the attempt is at.
LEMMA StepWrites ==
  ASSUME ControlOK, NEW a \in Attempts, Reject(a) \/ Begin(a) \/ Step(a) \/ Crash(a)
  PROVE  \/ UNCHANGED <<taskRuns, task_states>>
         \/ /\ pc[a] \in Walking /\ More(a)
            /\ \E w \in Writes : PersistState(a, w[1], w[2])
<1> USE DEF ControlOK, ControlOf, Walking, InTask, Writes, storeVars
<1>1. CASE SkipTask(a)
  BY <1>1, <<"Skipped", "null">> \in Writes DEF SkipTask
<1>2. CASE StartTask(a)
  BY <1>2, <<"Running", "null">> \in Writes DEF StartTask
<1>3. CASE PersistSucceeded(a)
  BY <1>3, <<"Succeeded", "value">> \in Writes DEF PersistSucceeded
<1>4. CASE PersistFailed(a)
  BY <1>4, <<"Failed", "error">> \in Writes DEF PersistFailed
<1> QED  BY <1>1, <1>2, <1>3, <1>4
            DEF Step, Reject, Begin, RecordNextEdge, StartWalk, ExecuteOk,
                ExecuteErr, Put, ReturnOk, ReturnErr, Crash

----------------------------------------------------------------------------
(* Values in the context *)

LEMMA InitPublished == Init => Published
BY DEF Init, Published, PublishedOf, Walking, InTask

LEMMA NextPublished ==
  TypeOK /\ ControlOK /\ Published /\ [Next]_vars => Published'
<1> SUFFICES ASSUME TypeOK, ControlOK, Published, [Next]_vars PROVE Published'
  OBVIOUS
<1>0. CASE UNCHANGED vars
  BY <1>0 DEF vars, localVars, Published, PublishedOf, IdAt, TaskId, Node
<1> SUFFICES ASSUME NEW a \in Attempts,
                    Reject(a) \/ Begin(a) \/ Step(a) \/ Crash(a),
                    NEW b \in Attempts
             PROVE  PublishedOf(b)'
  BY <1>0 DEF Next, Published
<1>1. CASE b # a
  BY <1>1, OthersUnchanged DEF Published, PublishedOf, IdAt, TaskId, Node
<1> SUFFICES PublishedOf(a)'
  BY <1>1
<1>2. PublishedOf(a) /\ ControlOf(a)
  BY DEF Published, ControlOK
<1>3. Nodes(dag[a]) = 1..Len(dag[a].ids) /\ Len(dag[a].ids) \in Nat
  BY DagOfAttempt
<1> USE DEF PublishedOf, ControlOf, Walking, InTask, Goto, Advance, IdAt, TaskId, Node, TypeOK
<1>4. CASE Reject(a)
  BY <1>4 DEF Reject
<1>5. CASE Begin(a)
  BY <1>5 DEF Begin
<1>6. CASE RecordNextEdge(a)
  BY <1>6 DEF RecordNextEdge
<1>7. CASE StartWalk(a)
  BY <1>7, <1>3 DEF StartWalk
<1>8. CASE SkipTask(a)
  BY <1>8 DEF SkipTask
<1>9. CASE StartTask(a)
  BY <1>9, <1>2 DEF StartTask
<1>10. CASE ExecuteOk(a)
  BY <1>10, <1>2 DEF ExecuteOk, Put
<1>11. CASE ExecuteErr(a)
  BY <1>11, <1>2 DEF ExecuteErr, Put
<1>12. CASE PersistSucceeded(a)
  BY <1>12, <1>2, <1>3 DEF PersistSucceeded
<1>13. CASE PersistFailed(a)
  BY <1>13 DEF PersistFailed
<1>14. CASE ReturnOk(a)
  BY <1>14 DEF ReturnOk
<1>15. CASE ReturnErr(a)
  BY <1>15 DEF ReturnErr
<1>16. CASE Crash(a)
  BY <1>16 DEF Crash
<1> QED  BY <1>4, <1>5, <1>6, <1>7, <1>8, <1>9, <1>10, <1>11, <1>12, <1>13,
            <1>14, <1>15, <1>16 DEF Step

LEMMA PublishedUpstreams == TypeOK /\ ControlOK /\ Published => UpstreamsPublished
<1> SUFFICES ASSUME TypeOK, ControlOK, Published,
                    NEW a \in Attempts, pc[a] \in InTask,
                    NEW m \in Parents(dag[a], Node(a))
             PROVE  dag[a].ids[m] \in ctx[a]
  BY DEF UpstreamsPublished, ParentIds
<1>1. /\ More(a) /\ ~failure_seen[a] /\ pc[a] \in Walking
      /\ order[a] \in TopoOrders(dag[a])
  BY DEF ControlOK, ControlOf, Walking
<1>2. pos[a] \in Nodes(dag[a]) /\ m \in Nodes(dag[a])
      /\ <<m, order[a][pos[a]]>> \in EdgeSet(dag[a])
  BY <1>1, NodeOfWalk DEF Parents, Node
<1>3. PICK i \in Nodes(dag[a]) : order[a][i] = m
  BY <1>1, <1>2, OrderFacts, DagOfAttempt
<1>4. i < pos[a]
  BY <1>1, <1>2, <1>3, OrderFacts, DagOfAttempt
<1> QED  BY <1>1, <1>3, <1>4 DEF Published, PublishedOf, IdAt

\* A task body finds the value of each upstream task in the context, in every
\* dag, whatever order toposort picks and whatever other attempts do
\* (local.rs:115-118, task.rs:91-103).
THEOREM UpstreamsArePublished == Spec => []UpstreamsPublished
<1>1. Init => Published
  BY InitPublished
<1>2. TypeOK /\ ControlOK /\ Published /\ [Next]_vars => Published'
  BY NextPublished
<1>3. TypeOK /\ ControlOK /\ Published => UpstreamsPublished
  BY PublishedUpstreams
<1> QED  BY <1>1, <1>2, <1>3, TypeCorrect, PTL DEF Spec

----------------------------------------------------------------------------
(* Task states *)

LEMMA InitStates == Init => StatesOK
BY DEF Init, StatesOK, StatesOf, Walking, InTask

\* Facts about the step of a, once and for all, where PersistState is part
\* of the step: what it leaves at each position of the walk.
LEMMA StateAtAfterWrite ==
  ASSUME TypeOK, ControlOK, NEW a \in Attempts, pc[a] \in Walking, More(a),
         NEW state, NEW output, PersistState(a, state, output),
         order' = order, dag' = dag, NEW i \in Nodes(dag[a])
  PROVE  /\ StateAt(a, i)' = IF IdAt(a, i) = TaskId(a) THEN state ELSE StateAt(a, i)
         /\ IdAt(a, i)' = IdAt(a, i) /\ IdAt(a, i) \in TaskIds
         /\ IdAt(a, pos[a]) = TaskId(a)
<1>1. order[a] \in TopoOrders(dag[a])
  BY DEF ControlOK, ControlOf
<1>2. IdAt(a, i) \in TaskIds
  BY <1>1, OrderFacts, DagOfAttempt DEF IdAt
<1>3. IdAt(a, i)' = IdAt(a, i)
  BY DEF IdAt
<1>4. task_states'[a][IdAt(a, i)] =
        IF IdAt(a, i) = TaskId(a) THEN state ELSE task_states[a][IdAt(a, i)]
  BY <1>2, PersistStateMemory
<1> QED  BY <1>2, <1>3, <1>4 DEF StateAt, IdAt, TaskId, Node

LEMMA NextStates ==
  TypeOK /\ ControlOK /\ StatesOK /\ [Next]_vars => StatesOK'
<1> SUFFICES ASSUME TypeOK, ControlOK, StatesOK, [Next]_vars PROVE StatesOK'
  OBVIOUS
<1>0. CASE UNCHANGED vars
  BY <1>0 DEF vars, localVars, StatesOK, StatesOf, StateAt, IdAt, TaskId, Node
<1> SUFFICES ASSUME NEW a \in Attempts,
                    Reject(a) \/ Begin(a) \/ Step(a) \/ Crash(a),
                    NEW b \in Attempts
             PROVE  StatesOf(b)'
  BY <1>0 DEF Next, StatesOK
<1>1. CASE b # a
  BY <1>1, OthersUnchanged DEF StatesOK, StatesOf, StateAt, IdAt, TaskId, Node
<1> SUFFICES StatesOf(a)'
  BY <1>1
<1>2. StatesOf(a) /\ ControlOf(a)
  BY DEF StatesOK, ControlOK
<1>3. Nodes(dag[a]) = 1..Len(dag[a].ids) /\ Len(dag[a].ids) \in Nat
  BY DagOfAttempt
<1>4. pos[a] \in Nat \ {0} /\ failure_seen[a] \in BOOLEAN
  BY DEF TypeOK
<1>5. CASE Reject(a) \/ Begin(a) \/ RecordNextEdge(a) \/ StartWalk(a) \/ ReturnOk(a)
           \/ ReturnErr(a) \/ Crash(a) \/ ExecuteOk(a) \/ ExecuteErr(a)
  <2>1. dag' = dag /\ task_states' = task_states /\ failure_seen' = failure_seen
    BY <1>5 DEF Reject, Begin, RecordNextEdge, StartWalk, ReturnOk, ReturnErr, Crash,
                ExecuteOk, ExecuteErr, Put, storeVars
  <2>2. CASE Reject(a) \/ Begin(a) \/ RecordNextEdge(a)
    BY <1>2, <2>1, <2>2 DEF Reject, Begin, RecordNextEdge, Goto, Advance, StatesOf,
                            ControlOf, Walking, InTask, TypeOK
  <2>3. CASE StartWalk(a)
    BY <1>2, <1>3, <2>1, <2>3 DEF StartWalk, Goto, StatesOf, ControlOf, Walking, InTask, TypeOK
  <2>4. CASE ReturnOk(a)
    BY <1>2, <1>3, <1>4, <2>1, <2>4
       DEF ReturnOk, Goto, More, StatesOf, ControlOf, Walking, InTask, TypeOK,
           StateAt, IdAt, TaskId, Node
  <2>5. CASE ReturnErr(a) \/ Crash(a)
    BY <1>2, <2>1, <2>5 DEF ReturnErr, Crash, Goto, StatesOf, Walking, InTask, Ended, TypeOK,
                            TaskId, Node
  <2>6. CASE ExecuteOk(a) \/ ExecuteErr(a)
    BY <1>2, <2>1, <2>6 DEF ExecuteOk, ExecuteErr, Put, Goto, StatesOf, Walking, InTask, TypeOK,
                            StateAt, IdAt, TaskId, Node
  <2> QED  BY <1>5, <2>2, <2>3, <2>4, <2>5, <2>6
<1>6. CASE SkipTask(a)
  <2>1. /\ pc[a] = "walk" /\ pc[a] \in Walking /\ More(a) /\ failure_seen[a]
        /\ PersistState(a, "Skipped", "null")
        /\ dag' = dag /\ order' = order /\ pc' = pc /\ failure_seen' = failure_seen
        /\ pos'[a] = pos[a] + 1
    BY <1>6 DEF SkipTask, Advance, Walking, TypeOK
  <2>2. pos[a] \in Nodes(dag[a])
    BY <2>1, NodeOfWalk
  <2>3. \A i \in Nodes(dag[a]) :
          StateAt(a, i)' = IF IdAt(a, i) = TaskId(a) THEN "Skipped" ELSE StateAt(a, i)
    BY <2>1, StateAtAfterWrite
  <2>4. \A i \in Nodes(dag[a]) : i = pos[a] => StateAt(a, i)' = "Skipped"
    BY <2>1, <2>3, StateAtAfterWrite
  <2>5. \A i \in Nodes(dag[a]) : i < pos[a] + 1 => StateAt(a, i)' \in Terminal
    <3> TAKE i \in Nodes(dag[a])
    <3> HAVE i < pos[a] + 1
    <3>1. CASE i = pos[a]
      BY <2>4, <3>1 DEF Terminal
    <3>2. CASE i < pos[a]
      BY <1>2, <2>1, <2>3, <3>2 DEF StatesOf, Terminal
    <3> QED  BY <1>3, <1>4, <3>1, <3>2
  <2>6. \A t \in TaskIds : task_states'[a][t] # "Running"
    BY <1>2, <2>1, PersistStateMemory DEF StatesOf, InTask
  <2> QED  BY <1>4, <2>1, <2>2, <2>4, <2>5, <2>6 DEF StatesOf
<1>7. CASE StartTask(a)
  <2>1. /\ pc[a] = "walk" /\ pc[a] \in Walking /\ More(a) /\ ~failure_seen[a]
        /\ PersistState(a, "Running", "null")
        /\ dag' = dag /\ order' = order /\ pos' = pos /\ failure_seen' = failure_seen
        /\ pc'[a] = "exec"
    BY <1>7 DEF StartTask, Goto, Walking, TypeOK
  <2>2. \A i \in Nodes(dag[a]) :
          /\ StateAt(a, i)' = IF IdAt(a, i) = TaskId(a) THEN "Running" ELSE StateAt(a, i)
          /\ IdAt(a, i)' = IdAt(a, i)
    BY <2>1, StateAtAfterWrite
  <2>3. TaskId(a)' = TaskId(a)
    BY <2>1 DEF TaskId, Node
  <2>4. \A t \in TaskIds : task_states'[a][t] = "Running" => t = TaskId(a)
    BY <1>2, <2>1, PersistStateMemory DEF StatesOf, InTask
  <2>5. \A i \in Nodes(dag[a]) : i < pos[a] => StateAt(a, i) = "Succeeded"
    BY <1>2, <2>1 DEF StatesOf, InTask
  <2> QED  BY <2>1, <2>2, <2>3, <2>4, <2>5 DEF StatesOf, InTask
<1>8. CASE PersistSucceeded(a)
  <2>1. /\ pc[a] \in InTask /\ pc[a] \in Walking /\ More(a) /\ ~failure_seen[a]
        /\ PersistState(a, "Succeeded", "value")
        /\ dag' = dag /\ order' = order /\ failure_seen' = failure_seen
        /\ pc'[a] = "walk" /\ pos'[a] = pos[a] + 1
    BY <1>2, <1>8 DEF PersistSucceeded, ControlOf, Goto, Advance, Walking, InTask, TypeOK
  <2>2. pos[a] \in Nodes(dag[a])
    BY <2>1, NodeOfWalk
  <2>3. \A i \in Nodes(dag[a]) :
          StateAt(a, i)' = IF IdAt(a, i) = TaskId(a) THEN "Succeeded" ELSE StateAt(a, i)
    BY <2>1, StateAtAfterWrite
  <2>4. \A i \in Nodes(dag[a]) : i = pos[a] => StateAt(a, i)' = "Succeeded"
    BY <2>1, <2>3, StateAtAfterWrite
  <2>5. \A i \in Nodes(dag[a]) : i < pos[a] + 1 => StateAt(a, i)' = "Succeeded"
    <3> TAKE i \in Nodes(dag[a])
    <3> HAVE i < pos[a] + 1
    <3>1. CASE i = pos[a]
      BY <2>4, <3>1
    <3>2. CASE i < pos[a]
      BY <1>2, <2>1, <2>3, <3>2 DEF StatesOf
    <3> QED  BY <1>3, <1>4, <3>1, <3>2
  <2>6. \A t \in TaskIds : task_states'[a][t] # "Running"
    BY <1>2, <2>1, PersistStateMemory DEF StatesOf
  <2> QED  BY <2>1, <2>5, <2>6 DEF StatesOf
<1>9. CASE PersistFailed(a)
  <2>1. /\ pc[a] \in InTask /\ pc[a] \in Walking /\ More(a) /\ ~failure_seen[a]
        /\ PersistState(a, "Failed", "error")
        /\ dag' = dag /\ order' = order /\ failure_seen'[a] = TRUE
        /\ pc'[a] = "walk" /\ pos'[a] = pos[a] + 1
    BY <1>2, <1>9 DEF PersistFailed, ControlOf, Goto, Advance, Walking, InTask, TypeOK
  <2>2. pos[a] \in Nodes(dag[a])
    BY <2>1, NodeOfWalk
  <2>3. \A i \in Nodes(dag[a]) :
          StateAt(a, i)' = IF IdAt(a, i) = TaskId(a) THEN "Failed" ELSE StateAt(a, i)
    BY <2>1, StateAtAfterWrite
  <2>4. \A i \in Nodes(dag[a]) : i = pos[a] => StateAt(a, i)' = "Failed"
    BY <2>1, <2>3, StateAtAfterWrite
  <2>5. \A i \in Nodes(dag[a]) : i < pos[a] + 1 => StateAt(a, i)' \in Terminal
    <3> TAKE i \in Nodes(dag[a])
    <3> HAVE i < pos[a] + 1
    <3>1. CASE i = pos[a]
      BY <2>4, <3>1 DEF Terminal
    <3>2. CASE i < pos[a]
      BY <1>2, <2>1, <2>3, <3>2 DEF StatesOf, Terminal
    <3> QED  BY <1>3, <1>4, <3>1, <3>2
  <2>6. \A t \in TaskIds : task_states'[a][t] # "Running"
    BY <1>2, <2>1, PersistStateMemory DEF StatesOf
  <2> QED  BY <1>4, <2>1, <2>2, <2>4, <2>5, <2>6 DEF StatesOf
<1> QED  BY <1>5, <1>6, <1>7, <1>8, <1>9 DEF Step

LEMMA StatesCorrect == Spec => []StatesOK
<1>1. Init => StatesOK
  BY InitStates
<1>2. TypeOK /\ ControlOK /\ StatesOK /\ [Next]_vars => StatesOK'
  BY NextStates
<1> QED  BY <1>1, <1>2, TypeCorrect, PTL DEF Spec

LEMMA StatesTellFailure == TypeOK /\ ControlOK /\ StatesOK => ReportTellsFailure
<1> SUFFICES ASSUME TypeOK, ControlOK, StatesOK, NEW a \in Attempts, pc[a] = "ok"
             PROVE  AllSucceeded(a) <=> ~failure_seen[a] /\ NodeCount(dag[a]) > 0
  BY DEF ReportTellsFailure
<1>1. /\ order[a] \in TopoOrders(dag[a]) /\ pos[a] = Len(dag[a].ids) + 1
      /\ failure_seen[a] \in BOOLEAN /\ StatesOf(a)
  BY DEF ControlOK, ControlOf, TypeOK, StatesOK
<1>2. /\ Nodes(dag[a]) = 1..NodeCount(dag[a]) /\ NodeCount(dag[a]) \in Nat
      /\ NodeCount(dag[a]) = Len(dag[a].ids)
      /\ \A t : t \in Ids(dag[a]) <=> \E n \in Nodes(dag[a]) : t = dag[a].ids[n]
  BY DagOfAttempt DEF NodeCount, Ids, Range, Nodes
<1>3. /\ \A n \in Nodes(dag[a]) : \E i \in Nodes(dag[a]) : order[a][i] = n
      /\ \A i \in Nodes(dag[a]) : order[a][i] \in Nodes(dag[a])
  BY <1>1, OrderFacts, DagOfAttempt
<1>4. \A t : t \in Ids(dag[a]) <=> \E i \in Nodes(dag[a]) : t = IdAt(a, i)
  <2> TAKE t
  <2>1. ASSUME NEW n \in Nodes(dag[a]), t = dag[a].ids[n]
        PROVE  \E i \in Nodes(dag[a]) : t = IdAt(a, i)
    <3>1. PICK i \in Nodes(dag[a]) : order[a][i] = n
      BY <1>3
    <3> QED  BY <2>1, <3>1 DEF IdAt
  <2>2. ASSUME NEW i \in Nodes(dag[a]), t = IdAt(a, i)
        PROVE  \E n \in Nodes(dag[a]) : t = dag[a].ids[n]
    BY <1>3, <2>2 DEF IdAt
  <2> QED  BY <1>2, <2>1, <2>2
<1>5. CASE failure_seen[a]
  <2>1. PICK i \in Nodes(dag[a]) : StateAt(a, i) \in {"Failed", "Skipped"}
    BY <1>1, <1>5 DEF StatesOf
  <2>2. IdAt(a, i) \in Ids(dag[a]) /\ task_states[a][IdAt(a, i)] # "Succeeded"
    BY <1>4, <2>1 DEF StateAt
  <2> QED  BY <1>5, <2>2 DEF AllSucceeded
<1>6. CASE ~failure_seen[a]
  <2>1. \A t \in Ids(dag[a]) : task_states[a][t] = "Succeeded"
    BY <1>1, <1>4, <1>6 DEF StatesOf, StateAt
  <2>2. Ids(dag[a]) # {} <=> NodeCount(dag[a]) > 0
    <3>1. Nodes(dag[a]) # {} <=> NodeCount(dag[a]) > 0
      BY <1>2
    <3>2. Ids(dag[a]) # {} <=> Nodes(dag[a]) # {}
      BY <1>2, Zenon
    <3> QED  BY <3>1, <3>2
  <2> QED  BY <1>6, <2>1, <2>2 DEF AllSucceeded
<1> QED  BY <1>1, <1>5, <1>6

\* RunReport::all_succeeded is true exactly of the reports of runs without a
\* failed execute call, in every dag with a task, also where two nodes share
\* an id and the map of the report has one entry for both
\* (dag-runner/src/lib.rs:47-55).
THEOREM ReportsTellFailure == Spec => []ReportTellsFailure
BY StatesTellFailure, StatesCorrect, TypeCorrect, PTL

----------------------------------------------------------------------------
(* Rows *)

LEMMA InitRows == Init => StoreMatchesMemory /\ RowIsOfLastWriter
BY DEF Init, InitSchema, StoreMatchesMemory, RowIsOfLastWriter

LEMMA RowsUnchanged ==
  ASSUME StoreMatchesMemory, RowIsOfLastWriter, UNCHANGED <<taskRuns, task_states>>
  PROVE  StoreMatchesMemory' /\ RowIsOfLastWriter'
BY DEF StoreMatchesMemory, RowIsOfLastWriter

LEMMA NextRows ==
  /\ TypeOK /\ ControlOK /\ StoreMatchesMemory /\ RowIsOfLastWriter
  /\ [Next]_vars
  => StoreMatchesMemory' /\ RowIsOfLastWriter'
<1> SUFFICES ASSUME TypeOK, ControlOK, StoreMatchesMemory, RowIsOfLastWriter,
                    [Next]_vars
             PROVE  StoreMatchesMemory' /\ RowIsOfLastWriter'
  OBVIOUS
<1>0. CASE UNCHANGED vars
  BY <1>0, RowsUnchanged DEF vars, storeVars, localVars
<1> SUFFICES ASSUME NEW a \in Attempts,
                    Reject(a) \/ Begin(a) \/ Step(a) \/ Crash(a)
             PROVE  StoreMatchesMemory' /\ RowIsOfLastWriter'
  BY <1>0 DEF Next
<1>1. CASE UNCHANGED <<taskRuns, task_states>>
  BY <1>1, RowsUnchanged
<1>2. ASSUME pc[a] \in Walking, More(a), NEW w \in Writes, PersistState(a, w[1], w[2])
      PROVE  StoreMatchesMemory' /\ RowIsOfLastWriter'
  <2> DEFINE state  == w[1]
             output == w[2]
             key    == <<RunOf[a], TaskId(a)>>
  <2>1. /\ TaskId(a) \in TaskIds
        /\ \A t \in TaskIds :
             task_states'[a][t] = IF t = TaskId(a) THEN state ELSE task_states[a][t]
        /\ \A b \in Attempts \ {a} : task_states'[b] = task_states[b]
    BY <1>2, PersistStateMemory
  <2>2. /\ DOMAIN taskRuns' = DOMAIN taskRuns \cup {key}
        /\ taskRuns'[key].state = state
        /\ taskRuns'[key].output = output
        /\ taskRuns'[key].by = a
        /\ taskRuns'[key].finished_at = FinishedAt(a, state)
        /\ \A k \in DOMAIN taskRuns \ {key} : taskRuns'[k] = taskRuns[k]
    BY <1>2, PersistStateStore
  <2>3. state \in TaskStates
    BY DEF Writes, TaskStates
  <2>4. \A k \in DOMAIN taskRuns :
          /\ taskRuns[k].by \in Attempts /\ k[2] \in TaskIds
          /\ k = <<k[1], k[2]>>
    BY DEF TypeOK, StoreTypeOK, Row
  <2> HIDE DEF state, output
  <2>5. ASSUME NEW k \in DOMAIN taskRuns \ {key}
        PROVE  task_states'[taskRuns[k].by][k[2]] = task_states[taskRuns[k].by][k[2]]
    <3>1. CASE taskRuns[k].by # a
      BY <2>1, <2>4, <3>1
    <3>2. CASE taskRuns[k].by = a
      <4>1. k[1] = RunOf[a]
        BY <3>2 DEF StoreMatchesMemory
      <4>2. k[2] # TaskId(a)
        BY <2>4, <4>1
      <4> QED  BY <2>1, <2>4, <3>2, <4>2
    <3> QED  BY <3>1, <3>2
  <2>6. StoreMatchesMemory'
    <3>1. ASSUME NEW k \in DOMAIN taskRuns'
          PROVE  /\ k[1] = RunOf[taskRuns'[k].by]
                 /\ taskRuns'[k].state = task_states'[taskRuns'[k].by][k[2]]
      <4>1. CASE k = key
        BY <2>1, <2>2, <4>1
      <4>2. CASE k # key
        BY <2>2, <2>5, <4>2 DEF StoreMatchesMemory
      <4> QED  BY <4>1, <4>2
    <3>2. ASSUME NEW b \in Attempts, NEW t \in TaskIds, task_states'[b][t] # "unset"
          PROVE  <<RunOf[b], t>> \in DOMAIN taskRuns'
      BY <2>1, <2>2, <3>2 DEF StoreMatchesMemory
    <3> QED  BY <3>1, <3>2 DEF StoreMatchesMemory
  <2>7. RowIsOfLastWriter'
    <3>1. /\ FinishedAt(a, state) = IF state \in Terminal THEN a ELSE Null
          /\ output # "null" <=> state \in {"Succeeded", "Failed"}
      BY DEF FinishedAt, Writes, state, output
    <3> SUFFICES ASSUME NEW k \in DOMAIN taskRuns'
                 PROVE  LET row == taskRuns'[k] IN
                        /\ k[1] = RunOf[row.by]
                        /\ row.finished_at = IF row.state \in Terminal THEN row.by ELSE Null
                        /\ row.output # "null" <=> row.state \in {"Succeeded", "Failed"}
      BY DEF RowIsOfLastWriter
    <3>2. CASE k = key
      BY <2>2, <3>1, <3>2
    <3>3. CASE k # key
      BY <2>2, <3>3 DEF RowIsOfLastWriter
    <3> QED  BY <3>2, <3>3
  <2> QED  BY <2>6, <2>7
<1> QED  BY <1>1, <1>2, StepWrites

LEMMA RowsCorrect == Spec => [](StoreMatchesMemory /\ RowIsOfLastWriter)
<1>1. Init => StoreMatchesMemory /\ RowIsOfLastWriter
  BY InitRows
<1>2. /\ TypeOK /\ ControlOK /\ StoreMatchesMemory /\ RowIsOfLastWriter
      /\ [Next]_vars
      => (StoreMatchesMemory /\ RowIsOfLastWriter)'
  BY NextRows
<1> QED  BY <1>1, <1>2, TypeCorrect, PTL DEF Spec

\* A row that a re-run or an overlapping attempt has written holds the end and
\* the output of that write, never those of the attempt before it
\* (dag-lineage/src/lib.rs:135-156, local.rs:158-178).
THEOREM RowsAreOfLastWriter == Spec => []RowIsOfLastWriter
BY RowsCorrect, PTL

LEMMA RunningRows == TypeOK /\ StatesOK /\ StoreMatchesMemory => RunningRowIsInFlight
<1> SUFFICES ASSUME TypeOK, StatesOK, StoreMatchesMemory,
                    NEW k \in DOMAIN taskRuns, taskRuns[k].state = "Running",
                    NEW a, a = taskRuns[k].by
             PROVE  /\ pc[a] \in InTask \cup {"err", "crashed"}
                    /\ k = <<RunOf[a], TaskId(a)>>
  BY DEF RunningRowIsInFlight
<1>1. a \in Attempts /\ k[2] \in TaskIds /\ k = <<k[1], k[2]>>
  BY DEF TypeOK, StoreTypeOK, Row
<1>2. k[1] = RunOf[a] /\ task_states[a][k[2]] = "Running"
  BY DEF StoreMatchesMemory
<1> QED  BY <1>1, <1>2 DEF StatesOK, StatesOf

\* The rows an attempt leaves as Running are at most the one task it was in
\* when it failed or died, and none if it returned a report, however many
\* attempts share the run id (local.rs:110-136).
THEOREM RunningRowsAreInFlight == Spec => []RunningRowIsInFlight
BY RunningRows, StatesCorrect, RowsCorrect, TypeCorrect, PTL

----------------------------------------------------------------------------
(* The shape of a walk over distinct ids *)

LEMMA DistinctPositions ==
  ASSUME TypeOK, NEW a \in Attempts, DistinctIds(dag[a]),
         order[a] \in TopoOrders(dag[a]),
         NEW i \in Nodes(dag[a]), NEW j \in Nodes(dag[a]), IdAt(a, i) = IdAt(a, j)
  PROVE  i = j
<1>1. /\ order[a][i] \in Nodes(dag[a]) /\ order[a][j] \in Nodes(dag[a])
      /\ order[a][i] = order[a][j] => i = j
  BY OrderFacts, DagOfAttempt DEF IsInjective
<1>2. dag[a].ids[order[a][i]] = dag[a].ids[order[a][j]] => order[a][i] = order[a][j]
  BY <1>1 DEF DistinctIds, IsInjective, Nodes
<1> QED  BY <1>1, <1>2 DEF IdAt

\* With distinct ids, a write changes the state at one position.
LEMMA ShapeAfterWrite ==
  ASSUME TypeOK, ControlOK, NEW a \in Attempts, pc[a] \in Walking, More(a),
         NEW state, NEW output, PersistState(a, state, output),
         order' = order, dag' = dag, DistinctIds(dag[a])
  PROVE  \A i \in Nodes(dag[a]) :
           StateAt(a, i)' = IF i = pos[a] THEN state ELSE StateAt(a, i)
<1> TAKE i \in Nodes(dag[a])
<1>1. order[a] \in TopoOrders(dag[a]) /\ pos[a] \in Nodes(dag[a])
  BY NodeOfWalk DEF ControlOK, ControlOf
<1>2. IdAt(a, i) = IdAt(a, pos[a]) => i = pos[a]
  BY <1>1, DistinctPositions
<1>3. i = pos[a] => IdAt(a, i) = TaskId(a)
  BY DEF IdAt, TaskId, Node
<1>4. IdAt(a, pos[a]) = TaskId(a)
  BY DEF IdAt, TaskId, Node
<1> QED  BY <1>2, <1>3, <1>4, StateAtAfterWrite

LEMMA InitShape == Init => ShapeOK
<1> SUFFICES ASSUME Init, NEW a \in Attempts, order[a] \in TopoOrders(dag[a])
             PROVE  \E p \in 1..(Len(dag[a].ids) + 1) :
                      ShapeAt(a, p) /\ (pc[a] \in {"ok"} \cup Walking => p = pos[a])
  BY DEF ShapeOK, ShapeOf
<1>1. TypeOK
  BY InitTypes
<1>2. \A i \in Nodes(dag[a]) : IdAt(a, i) \in TaskIds
  BY <1>1, OrderFacts, DagOfAttempt DEF IdAt
<1>3. \A i \in Nodes(dag[a]) : StateAt(a, i) = "unset"
  BY <1>2 DEF Init, StateAt
<1>4. ShapeAt(a, 1) /\ pos[a] = 1
  BY <1>1, <1>3, DagOfAttempt DEF ShapeAt, Init
<1> QED  BY <1>1, <1>4, DagOfAttempt

LEMMA NextShape == TypeOK /\ ControlOK /\ ShapeOK /\ [Next]_vars => ShapeOK'
<1> SUFFICES ASSUME TypeOK, ControlOK, ShapeOK, [Next]_vars PROVE ShapeOK'
  OBVIOUS
<1>0. CASE UNCHANGED vars
  BY <1>0 DEF vars, localVars, ShapeOK, ShapeOf, ShapeAt, StateAt, IdAt
<1> SUFFICES ASSUME NEW a \in Attempts,
                    Reject(a) \/ Begin(a) \/ Step(a) \/ Crash(a),
                    NEW b \in Attempts
             PROVE  ShapeOf(b)'
  BY <1>0 DEF Next, ShapeOK
<1>1. CASE b # a
  <2>1. /\ dag' = dag /\ pc'[b] = pc[b] /\ order'[b] = order[b] /\ pos'[b] = pos[b]
        /\ failure_seen'[b] = failure_seen[b] /\ task_states'[b] = task_states[b]
    BY <1>1, OthersUnchanged
  <2>2. \A i : StateAt(b, i)' = StateAt(b, i)
    BY <2>1 DEF StateAt, IdAt
  <2>3. \A p : ShapeAt(b, p) => ShapeAt(b, p)'
    BY <2>1, <2>2 DEF ShapeAt
  <2> QED  BY <2>1, <2>3 DEF ShapeOK, ShapeOf
<1>2. dag' = dag
  BY DEF Reject, Begin, Step, RecordNextEdge, StartWalk, SkipTask, StartTask,
         ExecuteOk, ExecuteErr, Put, PersistSucceeded, PersistFailed, ReturnOk, ReturnErr, Crash
<1> DEFINE Top == Len(dag[a].ids) + 1
           Goal == \E p \in 1..Top : ShapeAt(a, p)' /\
                     (pc'[a] \in {"ok"} \cup Walking => p = pos'[a])
<1> SUFFICES ASSUME DistinctIds(dag[a]), order'[a] \in TopoOrders(dag[a])
             PROVE  Goal
  BY <1>1, <1>2 DEF ShapeOf
<1>3. Nodes(dag[a]) = 1..Len(dag[a].ids) /\ Len(dag[a].ids) \in Nat
  BY DagOfAttempt
<1>4. /\ pos[a] \in Nat \ {0} /\ failure_seen[a] \in BOOLEAN
      /\ ControlOf(a) /\ ShapeOf(a)
  BY DEF TypeOK, ControlOK, ShapeOK
<1>5. CASE Begin(a) \/ StartWalk(a)
  <2>1. /\ ~failure_seen'[a]
        /\ \A t \in TaskIds : task_states'[a][t] = "unset"
        /\ pc'[a] \in {"ok"} \cup Walking => pos'[a] = 1
    BY <1>4, <1>5 DEF Begin, StartWalk, Goto, ControlOf, Walking, InTask, TypeOK
  <2>2. \A i \in Nodes(dag[a]) : IdAt(a, i)' \in TaskIds
    BY <1>2, OrderFacts, DagOfAttempt DEF IdAt
  <2>3. \A i \in Nodes(dag[a]) : StateAt(a, i)' = "unset"
    BY <2>1, <2>2 DEF StateAt
  <2>4. ShapeAt(a, 1)'
    BY <1>2, <1>3, <2>1, <2>3 DEF ShapeAt
  <2> QED  BY <1>3, <2>1, <2>4
<1>6. CASE Reject(a) \/ RecordNextEdge(a) \/ ReturnOk(a) \/ ReturnErr(a) \/ Crash(a)
           \/ ExecuteOk(a) \/ ExecuteErr(a)
  <2>1. /\ order' = order /\ task_states' = task_states /\ failure_seen' = failure_seen
        /\ pc'[a] \in {"ok"} \cup Walking =>
             pc[a] \in {"ok"} \cup Walking /\ pos'[a] = pos[a]
    BY <1>4, <1>6 DEF Reject, RecordNextEdge, ReturnOk, ReturnErr, Crash, ExecuteOk,
         ExecuteErr, Put, Goto, Walking, InTask, Ended, TypeOK
  <2>2. PICK p \in 1..Top : ShapeAt(a, p) /\ (pc[a] \in {"ok"} \cup Walking => p = pos[a])
    BY <1>4, <2>1 DEF ShapeOf
  <2>3. ShapeAt(a, p)'
    BY <1>2, <2>1, <2>2 DEF ShapeAt, StateAt, IdAt
  <2> QED  BY <2>1, <2>2, <2>3
<1>7. CASE SkipTask(a)
  <2>1. /\ pc[a] = "walk" /\ pc[a] \in Walking /\ More(a) /\ failure_seen[a]
        /\ PersistState(a, "Skipped", "null")
        /\ order' = order /\ failure_seen' = failure_seen /\ pos'[a] = pos[a] + 1
    BY <1>7 DEF SkipTask, Advance, Walking, TypeOK
  <2>2. ShapeAt(a, pos[a]) /\ pos[a] \in Nodes(dag[a])
    BY <1>4, <2>1, NodeOfWalk DEF ShapeOf
  <2>3. \A i \in Nodes(dag[a]) :
          StateAt(a, i)' = IF i = pos[a] THEN "Skipped" ELSE StateAt(a, i)
    BY <1>2, <2>1, ShapeAfterWrite
  <2>4. PICK f \in Nodes(dag[a]) :
          /\ f < pos[a] /\ StateAt(a, f) = "Failed"
          /\ \A i \in Nodes(dag[a]) : i < f => StateAt(a, i) = "Succeeded"
          /\ \A i \in Nodes(dag[a]) : f < i /\ i < pos[a] => StateAt(a, i) = "Skipped"
    BY <2>1, <2>2 DEF ShapeAt
  <2>5. \A p : p = pos[a] + 1 => ShapeAt(a, p)'
    <3>1. \A i \in Nodes(dag[a]) : i >= pos[a] + 1 => StateAt(a, i)' = "unset"
      BY <1>3, <1>4, <2>2, <2>3 DEF ShapeAt
    <3>2. /\ f < pos[a] + 1 /\ StateAt(a, f)' = "Failed"
          /\ \A i \in Nodes(dag[a]) : i < f => StateAt(a, i)' = "Succeeded"
          /\ \A i \in Nodes(dag[a]) : f < i /\ i < pos[a] + 1 => StateAt(a, i)' = "Skipped"
      BY <1>3, <1>4, <2>3, <2>4
    <3> QED  BY <1>2, <1>3, <1>4, <2>1, <3>1, <3>2 DEF ShapeAt
  <2> QED  BY <1>3, <1>4, <2>1, <2>2, <2>5
<1>8. CASE StartTask(a)
  <2>1. /\ pc[a] = "walk" /\ pc[a] \in Walking /\ More(a) /\ ~failure_seen[a]
        /\ PersistState(a, "Running", "null")
        /\ order' = order /\ failure_seen' = failure_seen /\ pos' = pos
    BY <1>8 DEF StartTask, Walking
  <2>2. ShapeAt(a, pos[a]) /\ pos[a] \in Nodes(dag[a])
    BY <1>4, <2>1, NodeOfWalk DEF ShapeOf
  <2>3. \A i \in Nodes(dag[a]) :
          StateAt(a, i)' = IF i = pos[a] THEN "Running" ELSE StateAt(a, i)
    BY <1>2, <2>1, ShapeAfterWrite
  <2>4. \A p : p = pos[a] => ShapeAt(a, p)'
    BY <1>2, <1>3, <1>4, <2>1, <2>2, <2>3 DEF ShapeAt
  <2> QED  BY <1>3, <1>4, <2>1, <2>2, <2>4
<1>9. CASE PersistSucceeded(a)
  <2>1. /\ pc[a] \in InTask /\ pc[a] \in Walking /\ More(a) /\ ~failure_seen[a]
        /\ PersistState(a, "Succeeded", "value")
        /\ order' = order /\ failure_seen' = failure_seen /\ pos'[a] = pos[a] + 1
    BY <1>4, <1>9 DEF PersistSucceeded, ControlOf, Advance, Walking, InTask, TypeOK
  <2>2. ShapeAt(a, pos[a]) /\ pos[a] \in Nodes(dag[a])
    BY <1>4, <2>1, NodeOfWalk DEF ShapeOf
  <2>3. \A i \in Nodes(dag[a]) :
          StateAt(a, i)' = IF i = pos[a] THEN "Succeeded" ELSE StateAt(a, i)
    BY <1>2, <2>1, ShapeAfterWrite
  <2>4. \A p : p = pos[a] + 1 => ShapeAt(a, p)'
    BY <1>2, <1>3, <1>4, <2>1, <2>2, <2>3 DEF ShapeAt
  <2> QED  BY <1>3, <1>4, <2>1, <2>2, <2>4
<1>10. CASE PersistFailed(a)
  <2>1. /\ pc[a] \in InTask /\ pc[a] \in Walking /\ More(a) /\ ~failure_seen[a]
        /\ PersistState(a, "Failed", "error")
        /\ order' = order /\ failure_seen'[a] = TRUE /\ pos'[a] = pos[a] + 1
    BY <1>4, <1>10 DEF PersistFailed, ControlOf, Advance, Walking, InTask, TypeOK
  <2>2. ShapeAt(a, pos[a]) /\ pos[a] \in Nodes(dag[a])
    BY <1>4, <2>1, NodeOfWalk DEF ShapeOf
  <2>3. \A i \in Nodes(dag[a]) :
          StateAt(a, i)' = IF i = pos[a] THEN "Failed" ELSE StateAt(a, i)
    BY <1>2, <2>1, ShapeAfterWrite
  <2>4. \A p : p = pos[a] + 1 => ShapeAt(a, p)'
    <3>1. \A i \in Nodes(dag[a]) : i >= pos[a] + 1 => StateAt(a, i)' = "unset"
      BY <1>3, <1>4, <2>2, <2>3 DEF ShapeAt
    <3>2. \A f : f = pos[a] =>
          /\ f < pos[a] + 1 /\ StateAt(a, f)' = "Failed"
          /\ \A i \in Nodes(dag[a]) : i < f => StateAt(a, i)' = "Succeeded"
          /\ \A i \in Nodes(dag[a]) : f < i /\ i < pos[a] + 1 => StateAt(a, i)' = "Skipped"
      BY <1>3, <1>4, <2>1, <2>2, <2>3 DEF ShapeAt
    <3> QED  BY <1>2, <1>3, <1>4, <2>1, <2>2, <3>1, <3>2 DEF ShapeAt
  <2> QED  BY <1>3, <1>4, <2>1, <2>2, <2>4
<1> QED  BY <1>5, <1>6, <1>7, <1>8, <1>9, <1>10 DEF Step

LEMMA ShapesCorrect == Spec => []ShapeOK
<1>1. Init => ShapeOK
  BY InitShape
<1>2. TypeOK /\ ControlOK /\ ShapeOK /\ [Next]_vars => ShapeOK'
  BY NextShape
<1> QED  BY <1>1, <1>2, TypeCorrect, PTL DEF Spec

LEMMA ShapeFailsFast == TypeOK /\ ShapeOK => FailFast
<1> SUFFICES ASSUME TypeOK, ShapeOK, NEW a \in Attempts, DistinctIds(dag[a]),
                    NEW j \in DOMAIN order[a]
             PROVE  /\ StateAt(a, j) = "Skipped" =>
                         \E i \in DOMAIN order[a] : i < j /\ StateAt(a, i) = "Failed"
                    /\ StateAt(a, j) # "unset" => \A i \in DOMAIN order[a] : i < j =>
                         \/ StateAt(a, i) = "Succeeded"
                         \/ StateAt(a, i) \in {"Failed", "Skipped"} /\ StateAt(a, j) = "Skipped"
  BY DEF FailFast, FailFastIn
<1>1. order[a] \in TopoOrders(dag[a])
  BY DEF TypeOK
<1>2. /\ DOMAIN order[a] = Nodes(dag[a]) /\ Nodes(dag[a]) = 1..Len(dag[a].ids)
      /\ Len(dag[a].ids) \in Nat
  BY <1>1, OrderFacts, DagOfAttempt
<1>3. PICK p \in 1..(Len(dag[a].ids) + 1) : ShapeAt(a, p)
  BY <1>1 DEF ShapeOK, ShapeOf
<1>4. CASE failure_seen[a]
  BY <1>2, <1>3, <1>4 DEF ShapeAt
<1>5. CASE ~failure_seen[a]
  BY <1>2, <1>3, <1>5 DEF ShapeAt
<1> QED  BY <1>4, <1>5

\* Along the order of any attempt whose ids are distinct, dead ones included,
\* the states are Succeeded, then at most one Failed, then Skipped
\* (local.rs:103-108 and 124-139).
THEOREM FailsFast == Spec => []FailFast
BY ShapeFailsFast, ShapesCorrect, TypeCorrect, PTL

LEMMA StepKeepsTerminalRows ==
  TypeOK /\ ControlOK /\ ShapeOK /\ StoreMatchesMemory /\ [Next]_vars
  => [TerminalRowsKept]_vars
<1> SUFFICES ASSUME TypeOK, ControlOK, ShapeOK, StoreMatchesMemory, Next
             PROVE  TerminalRowsKept
  OBVIOUS
<1> SUFFICES ASSUME NEW k \in DOMAIN taskRuns, taskRuns[k].state \in Terminal,
                    DistinctIds(dag[taskRuns[k].by]),
                    taskRuns'[k].by = taskRuns[k].by
             PROVE  taskRuns'[k] = taskRuns[k]
  BY DEF TerminalRowsKept
<1>1. PICK a \in Attempts : Reject(a) \/ Begin(a) \/ Step(a) \/ Crash(a)
  BY DEF Next
<1>2. CASE UNCHANGED <<taskRuns, task_states>>
  BY <1>2
<1>3. ASSUME pc[a] \in Walking, More(a), NEW w \in Writes, PersistState(a, w[1], w[2])
      PROVE  taskRuns'[k] = taskRuns[k]
  <2> DEFINE key == <<RunOf[a], TaskId(a)>>
  <2>1. /\ DOMAIN taskRuns' = DOMAIN taskRuns \cup {key}
        /\ taskRuns'[key].state = w[1]
        /\ taskRuns'[key].output = w[2]
        /\ taskRuns'[key].by = a
        /\ taskRuns'[key].finished_at = FinishedAt(a, w[1])
        /\ \A l \in DOMAIN taskRuns \ {key} : taskRuns'[l] = taskRuns[l]
    BY <1>3, PersistStateStore
  <2>2. CASE k # key
    BY <2>1, <2>2
  <2>3. CASE k = key
    <3>1. DistinctIds(dag[a]) /\ task_states[a][TaskId(a)] \in Terminal
      BY <2>1, <2>3 DEF StoreMatchesMemory
    <3>2. order[a] \in TopoOrders(dag[a]) /\ pos[a] \in Nodes(dag[a])
      BY <1>3, NodeOfWalk DEF ControlOK, ControlOf
    <3>3. ShapeAt(a, pos[a])
      BY <1>3, <3>1, <3>2 DEF ShapeOK, ShapeOf
    <3>4. StateAt(a, pos[a]) \in {"unset", "Running"}
      BY <3>2, <3>3 DEF ShapeAt
    <3>5. StateAt(a, pos[a]) = task_states[a][TaskId(a)]
      BY DEF StateAt, IdAt, TaskId, Node
    <3> QED  BY <3>1, <3>4, <3>5 DEF Terminal
  <2> QED  BY <2>2, <2>3
<1> QED  BY <1>1, <1>2, <1>3, StepWrites

\* A row that an attempt has brought to a terminal state is changed by a step
\* of another attempt only, when ids are distinct (local.rs:98-141).
THEOREM TerminalStatesAreFinal == Spec => TerminalIsFinal
<1>1. TypeOK /\ ControlOK /\ ShapeOK /\ StoreMatchesMemory /\ [Next]_vars
      => [TerminalRowsKept]_vars
  BY StepKeepsTerminalRows
<1> QED  BY <1>1, TypeCorrect, ShapesCorrect, RowsCorrect, PTL DEF Spec, TerminalIsFinal

----------------------------------------------------------------------------
(* Edges *)

LEMMA InitEdges == Init => EdgesOK
BY DEF Init, InitSchema, EdgesOK, EdgesOf, Walking, InTask

LEMMA NextEdges == TypeOK /\ ControlOK /\ EdgesOK /\ [Next]_vars => EdgesOK'
<1> SUFFICES ASSUME TypeOK, ControlOK, EdgesOK, [Next]_vars PROVE EdgesOK'
  OBVIOUS
<1>0. CASE UNCHANGED vars
  BY <1>0 DEF vars, storeVars, localVars, EdgesOK, EdgesOf, EdgeRecorded
<1> SUFFICES ASSUME NEW a \in Attempts,
                    Reject(a) \/ Begin(a) \/ Step(a) \/ Crash(a)
             PROVE  EdgesOK'
  BY <1>0 DEF Next
<1> DEFINE next == <<RunOf[a], IdEdge(dag[a], dag[a].edges[pos[a]])>>
<1>1. \/ lineageEdges' = lineageEdges
      \/ RecordNextEdge(a) /\ lineageEdges' = lineageEdges \cup {next}
  BY DEF Reject, Begin, Step, RecordNextEdge, RecordEdge, StartWalk, SkipTask,
         StartTask, ExecuteOk, ExecuteErr, Put, PersistSucceeded, PersistFailed,
         ReturnOk, ReturnErr, Crash, storeVars
<1>2. dag' = dag
  BY DEF Reject, Begin, Step, RecordNextEdge, StartWalk, SkipTask,
         StartTask, ExecuteOk, ExecuteErr, Put, PersistSucceeded, PersistFailed,
         ReturnOk, ReturnErr, Crash
<1>3. \A b, e : EdgeRecorded(b, e) => EdgeRecorded(b, e)'
  BY <1>1, <1>2 DEF EdgeRecorded
<1>4. ASSUME NEW l \in lineageEdges'
      PROVE  \E b \in Attempts : l[1] = RunOf[b] /\ l[2] \in IdEdges(dag'[b])
  <2>1. CASE l \in lineageEdges
    BY <1>2, <2>1 DEF EdgesOK
  <2>2. CASE RecordNextEdge(a) /\ l = next
    <3>1. dag[a].edges[pos[a]] \in EdgeSet(dag[a])
      BY <2>2, DagOfAttempt DEF RecordNextEdge, EdgeSet, Range, IsDag, TypeOK
    <3> QED  BY <1>2, <2>2, <3>1 DEF IdEdges
  <2> QED  BY <1>1, <2>1, <2>2
<1>5. ASSUME NEW b \in Attempts \ {a} PROVE EdgesOf(b)'
  BY <1>2, <1>3, OthersUnchanged DEF EdgesOK, EdgesOf
<1>6. EdgesOf(a)'
  <2>1. EdgesOf(a) /\ ControlOf(a)
    BY DEF EdgesOK, ControlOK
  <2>2. CASE pc[a] \in Walking
    <3>1. \A e \in EdgeSet(dag[a]) : EdgeRecorded(a, e)
      BY <2>1, <2>2 DEF EdgesOf
    <3>2. pc'[a] # "edges"
      BY <2>2 DEF Reject, Begin, Step, RecordNextEdge, StartWalk, SkipTask,
           StartTask, ExecuteOk, ExecuteErr, Put, PersistSucceeded, PersistFailed,
           ReturnOk, ReturnErr, Crash, Goto, Walking, InTask, Ended, TypeOK
    <3> QED  BY <1>2, <1>3, <3>1, <3>2 DEF EdgesOf
  <2>3. CASE pc[a] \notin Walking
    <3>1. task_states' = task_states
      BY <2>1, <2>3 DEF Reject, Begin, Step, RecordNextEdge, StartWalk, SkipTask,
           StartTask, ExecuteOk, ExecuteErr, Put, PersistSucceeded, PersistFailed,
           ReturnOk, ReturnErr, Crash, Walking, InTask
    <3>2. DOMAIN dag[a].edges \subseteq Nat \ {0} /\ Len(dag[a].edges) \in Nat
          /\ DOMAIN dag[a].edges = 1..Len(dag[a].edges)
      BY DagOfAttempt DEF IsDag
    <3>3. CASE Begin(a)
      <4>1. /\ pos'[a] = 1 /\ pc'[a] = "edges"
            /\ \A t \in TaskIds : task_states[a][t] = "unset"
        BY <2>1, <3>3 DEF Begin, ControlOf, Goto, TypeOK
      <4> QED  BY <1>2, <3>1, <3>2, <4>1 DEF EdgesOf, Walking, InTask
    <3>4. CASE RecordNextEdge(a)
      <4>1. /\ pos'[a] = pos[a] + 1 /\ pos[a] \in Nat
            /\ pc'[a] = "edges" /\ pc[a] = "edges"
            /\ \A t \in TaskIds : task_states[a][t] = "unset"
        BY <2>1, <3>4 DEF RecordNextEdge, ControlOf, Advance, TypeOK
      <4>2. \A e : e = dag[a].edges[pos[a]] => EdgeRecorded(a, e)'
        BY <1>1, <1>2, <3>4 DEF RecordNextEdge, RecordEdge, EdgeRecorded
      <4>3. \A i \in DOMAIN dag[a].edges :
              i < pos[a] + 1 => EdgeRecorded(a, dag[a].edges[i])'
        <5> TAKE i \in DOMAIN dag[a].edges
        <5> HAVE i < pos[a] + 1
        <5>1. CASE i = pos[a]
          BY <1>2, <4>2, <5>1
        <5>2. CASE i < pos[a]
          BY <1>2, <1>3, <2>1, <4>1, <5>2 DEF EdgesOf
        <5> QED  BY <3>2, <4>1, <5>1, <5>2
      <4> QED  BY <1>2, <3>1, <4>1, <4>3 DEF EdgesOf, Walking, InTask
    <3>5. CASE StartWalk(a)
      <4>1. pc[a] = "edges" /\ pos[a] > Len(dag[a].edges) /\ pc'[a] = "walk"
            /\ pos[a] \in Nat
        BY <3>5 DEF StartWalk, Goto, TypeOK
      <4>2. \A i \in DOMAIN dag[a].edges : EdgeRecorded(a, dag[a].edges[i])
        BY <2>1, <3>2, <4>1 DEF EdgesOf
      <4>3. \A e \in EdgeSet(dag[a]) : EdgeRecorded(a, e)
        BY <4>2 DEF EdgeSet, Range
      <4> QED  BY <1>2, <1>3, <4>1, <4>3 DEF EdgesOf
    <3>6. CASE ~Begin(a) /\ ~RecordNextEdge(a) /\ ~StartWalk(a)
      <4>1. pc'[a] \in Ended
        BY <2>3, <3>6 DEF Reject, Step, SkipTask, StartTask, ExecuteOk, ExecuteErr, Put,
             PersistSucceeded, PersistFailed, ReturnOk, ReturnErr, Crash, Goto,
             Walking, InTask, Ended, TypeOK
      <4> QED  BY <1>2, <1>3, <2>1, <3>1, <4>1 DEF EdgesOf, Walking, InTask, Ended
    <3> QED  BY <3>3, <3>4, <3>5, <3>6
  <2> QED  BY <2>2, <2>3
<1> QED  BY <1>4, <1>5, <1>6 DEF EdgesOK

LEMMA EdgesCorrect == Spec => []EdgesOK
<1>1. Init => EdgesOK
  BY InitEdges
<1>2. TypeOK /\ ControlOK /\ EdgesOK /\ [Next]_vars => EdgesOK'
  BY NextEdges
<1> QED  BY <1>1, <1>2, TypeCorrect, PTL DEF Spec

LEMMA RecordedEdges ==
  TypeOK /\ StoreMatchesMemory /\ EdgesOK => LineageIsTopology
<1> SUFFICES ASSUME TypeOK, StoreMatchesMemory, EdgesOK PROVE LineageIsTopology
  OBVIOUS
<1>1. ASSUME NEW k \in DOMAIN taskRuns
      PROVE  IdEdges(dag[taskRuns[k].by]) \subseteq EdgesForRun(k[1])
  <2> DEFINE a == taskRuns[k].by
  <2>1. a \in Attempts /\ k[2] \in TaskIds /\ taskRuns[k].state \in TaskStates
    BY DEF TypeOK, StoreTypeOK, Row
  <2>2. k[1] = RunOf[a] /\ task_states[a][k[2]] = taskRuns[k].state
    BY DEF StoreMatchesMemory
  <2>3. \A e \in EdgeSet(dag[a]) : EdgeRecorded(a, e)
    BY <2>1, <2>2 DEF EdgesOK, EdgesOf, TaskStates
  <2> HIDE DEF a
  <2>4. \A e \in EdgeSet(dag[a]) : IdEdge(dag[a], e) \in EdgesForRun(k[1])
    <3> TAKE e \in EdgeSet(dag[a])
    <3> DEFINE l == <<k[1], IdEdge(dag[a], e)>>
    <3>1. l \in lineageEdges
      BY <2>2, <2>3 DEF EdgeRecorded
    <3>2. l[1] = k[1] /\ l[2] = IdEdge(dag[a], e)
      OBVIOUS
    <3> HIDE DEF l
    <3> QED  BY <3>1, <3>2, Zenon DEF EdgesForRun
  <2> QED  BY <2>4 DEF IdEdges, a
<1>2. ASSUME NEW run \in Runs, NEW e \in EdgesForRun(run)
      PROVE  e \in UNION {IdEdges(dag[a]) : a \in OnRun(run)}
  <2>1. PICK l \in lineageEdges : l[1] = run /\ l[2] = e
    BY DEF EdgesForRun
  <2>2. PICK a \in Attempts : l[1] = RunOf[a] /\ l[2] \in IdEdges(dag[a])
    BY DEF EdgesOK
  <2> QED  BY <2>1, <2>2 DEF OnRun
<1> QED  BY <1>1, <1>2 DEF LineageIsTopology

\* Whatever happens to the walk, the lineage of a run that has a task row has
\* every edge of the dag walked, and it has no edge that no attempt on the run
\* declares (local.rs:69-84).
THEOREM LineageIsTheTopology == Spec => []LineageIsTopology
BY RecordedEdges, RowsCorrect, EdgesCorrect, TypeCorrect, PTL

\* The types alone, as the runs check them.
COROLLARY TypesAreKept == Spec => []TypeOK
BY TypeCorrect, PTL

----------------------------------------------------------------------------
(* What a reader of the store may conclude from a report and from the rows *)
(* of a run                                                                *)

\* The output of a row goes with its state, which is never Queued.
OutputFor(state) ==
  CASE state = "Succeeded"                 -> "value"
    [] state = "Failed"                    -> "error"
    [] state \notin {"Succeeded", "Failed"} -> "null"

RowOutputsOK == \A k \in DOMAIN taskRuns :
  /\ taskRuns[k].state # "Queued"
  /\ taskRuns[k].output = OutputFor(taskRuns[k].state)

\* So does the output in the report, in every dag: the state of an id is
\* Running while one of its nodes is executed, whatever it was before.
OutputsOf(a) ==
  /\ pc[a] \in InTask => task_states[a][TaskId(a)] = "Running"
  /\ pc[a] = "saveOk" => task_outputs[a][TaskId(a)] = "value"
  /\ \A t \in TaskIds : task_states[a][t] \in {"Succeeded", "Failed"} =>
       task_outputs[a][t] = OutputFor(task_states[a][t])

OutputsOK == RowOutputsOK /\ \A a \in Attempts : OutputsOf(a)

Begun(a) == pc[a] # "idle" /\ order[a] \in TopoOrders(dag[a])

\* An attempt with a row has begun, also when it is dead, and its rows are of
\* its dag; an edge was recorded by an attempt that had begun.
OwnersOK ==
  /\ \A a \in Attempts : \A t \in TaskIds : task_states[a][t] # "unset" =>
       Begun(a) /\ t \in Ids(dag[a])
  /\ \A l \in lineageEdges : \E a \in Attempts :
       Begun(a) /\ l[1] = RunOf[a] /\ l[2] \in IdEdges(dag[a])

----------------------------------------------------------------------------
(* Outputs *)

LEMMA InitOutputs == Init => OutputsOK
BY DEF Init, InitSchema, OutputsOK, RowOutputsOK, OutputsOf, InTask

LEMMA NextRowOutputs ==
  ASSUME ControlOK, RowOutputsOK, [Next]_vars
  PROVE  RowOutputsOK'
<1>0. CASE UNCHANGED vars
  BY <1>0 DEF vars, storeVars, RowOutputsOK
<1> SUFFICES ASSUME NEW a \in Attempts, Reject(a) \/ Begin(a) \/ Step(a) \/ Crash(a)
             PROVE  RowOutputsOK'
  BY <1>0 DEF Next
<1>1. CASE UNCHANGED <<taskRuns, task_states>>
  BY <1>1 DEF RowOutputsOK
<1>2. ASSUME NEW w \in Writes, PersistState(a, w[1], w[2])
      PROVE  RowOutputsOK'
  <2> DEFINE key == <<RunOf[a], TaskId(a)>>
  <2>1. w[2] = OutputFor(w[1]) /\ w[1] # "Queued"
    BY DEF Writes, OutputFor
  <2>2. /\ DOMAIN taskRuns' = DOMAIN taskRuns \cup {key}
        /\ taskRuns'[key].state = w[1] /\ taskRuns'[key].output = w[2]
        /\ \A k \in DOMAIN taskRuns \ {key} : taskRuns'[k] = taskRuns[k]
    BY <1>2, PersistStateStore
  <2> SUFFICES ASSUME NEW k \in DOMAIN taskRuns'
               PROVE  /\ taskRuns'[k].state # "Queued"
                      /\ taskRuns'[k].output = OutputFor(taskRuns'[k].state)
    BY DEF RowOutputsOK, OutputFor
  <2>3. CASE k = key
    BY <2>1, <2>2, <2>3
  <2>4. CASE k # key
    BY <2>2, <2>4 DEF RowOutputsOK
  <2> QED  BY <2>3, <2>4
<1> QED  BY <1>1, <1>2, StepWrites

\* The step of another attempt.
LEMMA OutputsOfOthers ==
  ASSUME TypeOK, NEW a \in Attempts, Reject(a) \/ Begin(a) \/ Step(a) \/ Crash(a),
         NEW b \in Attempts \ {a}, OutputsOf(b)
  PROVE  OutputsOf(b)'
<1>1. /\ dag' = dag /\ pc'[b] = pc[b] /\ order'[b] = order[b] /\ pos'[b] = pos[b]
      /\ task_states'[b] = task_states[b] /\ task_outputs'[b] = task_outputs[b]
  BY OthersUnchanged
<1>2. TaskId(b)' = TaskId(b)
  BY <1>1 DEF TaskId, Node
<1> QED  BY <1>1, <1>2 DEF OutputsOf, OutputFor

LEMMA NextOutputsOf ==
  ASSUME TypeOK, ControlOK, NEW a \in Attempts, OutputsOf(a),
         Reject(a) \/ Begin(a) \/ Step(a) \/ Crash(a)
  PROVE  OutputsOf(a)'
<1> USE DEF InTask
<1>1. CASE Reject(a) \/ Begin(a) \/ RecordNextEdge(a) \/ StartWalk(a) \/ ReturnOk(a)
           \/ ReturnErr(a) \/ Crash(a)
  <2>1. /\ pc'[a] \notin InTask
        /\ task_states' = task_states /\ task_outputs' = task_outputs
    BY <1>1 DEF Reject, Begin, RecordNextEdge, StartWalk, ReturnOk, ReturnErr, Crash,
                Goto, TypeOK
  <2> QED  BY <2>1 DEF OutputsOf, OutputFor
<1>2. CASE SkipTask(a) \/ StartTask(a)
  <2>1. PICK state \in {"Skipped", "Running"} :
          /\ PersistState(a, state, "null")
          /\ pc'[a] \in {"walk", "exec"}
          /\ pc'[a] = "exec" => state = "Running" /\ pos' = pos
          /\ pc[a] = "walk" /\ More(a) /\ order' = order /\ dag' = dag
          /\ task_outputs' = task_outputs
    BY <1>2 DEF SkipTask, StartTask, Goto, TypeOK
  <2>2. /\ TaskId(a) \in TaskIds
        /\ \A t \in TaskIds :
             task_states'[a][t] = IF t = TaskId(a) THEN state ELSE task_states[a][t]
    BY <2>1, PersistStateMemory DEF Walking
  <2>3. pc'[a] = "exec" => TaskId(a)' = TaskId(a)
    BY <2>1 DEF TaskId, Node
  <2> QED  BY <2>1, <2>2, <2>3 DEF OutputsOf, OutputFor
<1>3. CASE ExecuteOk(a) \/ ExecuteErr(a)
  <2>1. /\ pc[a] = "exec" /\ pc'[a] \in {"saveOk", "saveErr"}
        /\ task_states' = task_states
        /\ order' = order /\ dag' = dag /\ pos' = pos
    BY <1>3 DEF ExecuteOk, ExecuteErr, Goto, TypeOK
  <2>2. TaskId(a)' = TaskId(a) /\ TaskId(a) \in TaskIds
    BY <2>1, NodeOfWalk DEF TaskId, Node, ControlOK, ControlOf, Walking
  <2>3. /\ \A t \in TaskIds : t # TaskId(a) => task_outputs'[a][t] = task_outputs[a][t]
        /\ pc'[a] = "saveOk" => task_outputs'[a][TaskId(a)] = "value"
    BY <1>3, <2>2 DEF ExecuteOk, ExecuteErr, Goto, TypeOK
  <2> QED  BY <2>1, <2>2, <2>3 DEF OutputsOf, OutputFor
<1>4. CASE PersistSucceeded(a) \/ PersistFailed(a)
  <2>1. PICK state \in {"Succeeded", "Failed"} :
          /\ PersistState(a, state, OutputFor(state))
          /\ pc[a] \in InTask /\ pc'[a] = "walk" /\ order' = order /\ dag' = dag
          /\ state = "Succeeded" => pc[a] = "saveOk" /\ task_outputs' = task_outputs
          /\ state = "Failed" =>
               task_outputs' = [task_outputs EXCEPT ![a][TaskId(a)] = "error"]
    BY <1>4 DEF PersistSucceeded, PersistFailed, Goto, TypeOK, OutputFor
  <2>2. /\ TaskId(a) \in TaskIds
        /\ \A t \in TaskIds :
             task_states'[a][t] = IF t = TaskId(a) THEN state ELSE task_states[a][t]
    BY <2>1, PersistStateMemory DEF Walking, ControlOK, ControlOf
  <2>3. /\ task_outputs'[a][TaskId(a)] = OutputFor(state)
        /\ \A t \in TaskIds : t # TaskId(a) => task_outputs'[a][t] = task_outputs[a][t]
    BY <2>1, <2>2 DEF OutputsOf, OutputFor, TypeOK
  <2> QED  BY <2>1, <2>2, <2>3 DEF OutputsOf, OutputFor
<1> QED  BY <1>1, <1>2, <1>3, <1>4 DEF Step

LEMMA NextOutputs == TypeOK /\ ControlOK /\ OutputsOK /\ [Next]_vars => OutputsOK'
<1> SUFFICES ASSUME TypeOK, ControlOK, OutputsOK, [Next]_vars PROVE OutputsOK'
  OBVIOUS
<1>1. RowOutputsOK'
  BY NextRowOutputs DEF OutputsOK
<1>2. ASSUME NEW b \in Attempts PROVE OutputsOf(b)'
  <2>1. CASE UNCHANGED vars
    BY <2>1 DEF vars, localVars, OutputsOK, OutputsOf, OutputFor, TaskId, Node
  <2>2. ASSUME NEW a \in Attempts, Reject(a) \/ Begin(a) \/ Step(a) \/ Crash(a)
        PROVE  OutputsOf(b)'
    BY <2>2, OutputsOfOthers, NextOutputsOf DEF OutputsOK
  <2> QED  BY <2>1, <2>2 DEF Next
<1> QED  BY <1>1, <1>2 DEF OutputsOK

LEMMA OutputsCorrect == Spec => []OutputsOK
BY InitOutputs, NextOutputs, TypeCorrect, PTL DEF Spec

----------------------------------------------------------------------------
(* Reports *)

\* The ids of the dag are those along the order.
LEMMA IdsAlongOrder ==
  ASSUME TypeOK, NEW a \in Attempts, order[a] \in TopoOrders(dag[a]), NEW t \in Ids(dag[a])
  PROVE  \E i \in Nodes(dag[a]) : t = IdAt(a, i)
<1>1. PICK n \in Nodes(dag[a]) : t = dag[a].ids[n]
  BY DEF Ids, Range, Nodes
<1>2. PICK i \in Nodes(dag[a]) : order[a][i] = n
  BY OrderFacts, DagOfAttempt
<1> QED  BY <1>1, <1>2 DEF IdAt

\* A report has a terminal state for each task.
LEMMA ReportIsFinal ==
  ASSUME TypeOK, ControlOK, StatesOK, NEW a \in Attempts, pc[a] = "ok", NEW t \in Ids(dag[a])
  PROVE  t \in TaskIds /\ task_states[a][t] \in Terminal
<1>1. /\ order[a] \in TopoOrders(dag[a]) /\ pos[a] = Len(dag[a].ids) + 1
      /\ StatesOf(a) /\ failure_seen[a] \in BOOLEAN
  BY DEF ControlOK, ControlOf, StatesOK, TypeOK
<1>2. PICK i \in Nodes(dag[a]) : t = IdAt(a, i)
  BY <1>1, IdsAlongOrder
<1>3. i < pos[a] /\ t \in TaskIds
  <2>1. /\ Nodes(dag[a]) = 1..Len(dag[a].ids) /\ Len(dag[a].ids) \in Nat
        /\ dag[a].ids \in [Nodes(dag[a]) -> TaskIds]
    BY DagOfAttempt
  <2>2. order[a] \in [Nodes(dag[a]) -> Nodes(dag[a])]
    BY <1>1, OrderFacts, DagOfAttempt
  <2>3. t \in TaskIds
    BY <1>2, <2>1, <2>2 DEF IdAt
  <2>4. i < pos[a]
    BY <1>1, <2>1
  <2> QED  BY <2>3, <2>4
<1>4. StateAt(a, i) \in Terminal
  BY <1>1, <1>3 DEF StatesOf, Terminal
<1> QED  BY <1>2, <1>3, <1>4 DEF StateAt

LEMMA ReportsMatchStore ==
  /\ TypeOK /\ ControlOK /\ StatesOK /\ StoreMatchesMemory /\ OutputsOK
  => ReportIsDurable
<1> SUFFICES ASSUME TypeOK, ControlOK, StatesOK, StoreMatchesMemory, OutputsOK,
                    NEW a \in Attempts, pc[a] = "ok", NEW t \in Ids(dag[a]),
                    NEW k, k = <<RunOf[a], t>>
             PROVE  /\ k \in DOMAIN taskRuns
                    /\ taskRuns[k].by = a => taskRuns[k].state = task_states[a][t]
                    /\ taskRuns[k].by = a =>
                         taskRuns[k].output = task_outputs[a][t] \/ taskRuns[k].state = "Skipped"
                    /\ (\A b \in Rivals(a) : pc[b] \in {"idle", "ok"}) => taskRuns[k].state \in Terminal
  BY DEF ReportIsDurable
<1>1. t \in TaskIds /\ task_states[a][t] \in Terminal
  BY ReportIsFinal
<1>2. k \in DOMAIN taskRuns
  BY <1>1 DEF StoreMatchesMemory, Terminal
<1>3. taskRuns[k].by = a => taskRuns[k].state = task_states[a][t]
  BY <1>2 DEF StoreMatchesMemory
<1>4. taskRuns[k].by = a =>
        taskRuns[k].output = task_outputs[a][t] \/ taskRuns[k].state = "Skipped"
  <2>1. taskRuns[k].output = OutputFor(taskRuns[k].state)
    BY <1>2 DEF OutputsOK, RowOutputsOK
  <2>2. task_states[a][t] \in {"Succeeded", "Failed"} =>
          task_outputs[a][t] = OutputFor(task_states[a][t])
    BY <1>1 DEF OutputsOK, OutputsOf
  <2> QED  BY <1>1, <1>3, <2>1, <2>2 DEF Terminal
<1>5. ASSUME \A b \in Rivals(a) : pc[b] \in {"idle", "ok"}
      PROVE  taskRuns[k].state \in Terminal
  <2>1. PICK b \in Attempts : b = taskRuns[k].by
    BY <1>2 DEF TypeOK, StoreTypeOK, Row
  <2>2. RunOf[b] = RunOf[a] /\ taskRuns[k].state = task_states[b][t]
        /\ taskRuns[k].state \in TaskStates
    BY <1>2, <2>1 DEF StoreMatchesMemory, TypeOK, StoreTypeOK, Row
  <2>3. pc[b] = "ok"
    <3>1. pc[b] \in {"idle", "ok"}
      BY <1>5, <2>2 DEF Rivals, OnRun
    <3>2. pc[b] = "idle" => task_states[b][t] = "unset"
      BY <1>1 DEF ControlOK, ControlOf
    <3> QED  BY <2>2, <3>1, <3>2 DEF TaskStates
  <2>4. taskRuns[k].state # "Running" /\ taskRuns[k].state # "Queued"
    BY <1>1, <1>2, <2>2, <2>3 DEF StatesOK, StatesOf, InTask, OutputsOK, RowOutputsOK
  <2> QED  BY <2>2, <2>4 DEF TaskStates, Terminal
<1> QED  BY <1>2, <1>3, <1>4, <1>5

\* A report agrees with the store on the state and the output of each task,
\* until another attempt on the run writes the row (local.rs:122-153).
THEOREM ReportsAreDurable == Spec => []ReportIsDurable
BY ReportsMatchStore, OutputsCorrect, StatesCorrect, RowsCorrect, TypeCorrect, PTL

----------------------------------------------------------------------------
(* The rows of a run, read without a report *)

LEMMA InitOwners == Init => OwnersOK
BY DEF Init, InitSchema, OwnersOK

\* Dags stay, and who has begun has begun for good.
LEMMA BegunIsKept ==
  ASSUME TypeOK, ControlOK, [Next]_vars
  PROVE  dag' = dag /\ \A a \in Attempts : Begun(a) => Begun(a)'
<1>1. CASE UNCHANGED vars
  BY <1>1 DEF vars, localVars, Begun
<1>2. ASSUME NEW a \in Attempts, Reject(a) \/ Begin(a) \/ Step(a) \/ Crash(a)
      PROVE  dag' = dag /\ \A b \in Attempts : Begun(b) => Begun(b)'
  <2>1. dag' = dag /\ (pc[a] # "idle" => pc'[a] # "idle" /\ order' = order)
    BY <1>2 DEF Reject, Begin, Step, RecordNextEdge, StartWalk, SkipTask, StartTask, ExecuteOk,
         ExecuteErr, PersistSucceeded, PersistFailed, ReturnOk, ReturnErr, Crash, Goto, TypeOK
  <2>2. \A b \in Attempts \ {a} : pc'[b] = pc[b] /\ order'[b] = order[b]
    BY <1>2, OthersUnchanged
  <2> QED  BY <2>1, <2>2 DEF Begun
<1> QED  BY <1>1, <1>2 DEF Next

LEMMA NextOwners == TypeOK /\ ControlOK /\ OwnersOK /\ [Next]_vars => OwnersOK'
<1> SUFFICES ASSUME TypeOK, ControlOK, OwnersOK, [Next]_vars PROVE OwnersOK'
  OBVIOUS
<1>0. CASE UNCHANGED vars
  BY <1>0 DEF vars, storeVars, localVars, OwnersOK, Begun
<1> SUFFICES ASSUME NEW a \in Attempts, Reject(a) \/ Begin(a) \/ Step(a) \/ Crash(a)
             PROVE  OwnersOK'
  BY <1>0 DEF Next
<1>1. dag' = dag /\ \A b \in Attempts : Begun(b) => Begun(b)'
  BY BegunIsKept
<1>2. ASSUME NEW b \in Attempts, NEW t \in TaskIds, task_states'[b][t] # "unset"
      PROVE  Begun(b)' /\ t \in Ids(dag[b])
  <2>1. CASE task_states'[b][t] = task_states[b][t]
    BY <1>1, <1>2, <2>1 DEF OwnersOK
  <2>2. CASE task_states'[b][t] # task_states[b][t]
    <3>1. b = a /\ task_states' # task_states
      BY <2>2, OthersUnchanged
    <3>2. pc[a] \in Walking /\ More(a) /\ \E w \in Writes : PersistState(a, w[1], w[2])
      BY <3>1, StepWrites
    <3>3. t = TaskId(a)
      BY <2>2, <3>1, <3>2, PersistStateMemory
    <3>4. Node(a) \in Nodes(dag[a])
      BY <3>2, NodeOfWalk
    <3>5. t \in Ids(dag[a])
      BY <3>3, <3>4 DEF TaskId, Ids, Range, Nodes
    <3>6. Begun(a)
      BY <3>2 DEF Begun, ControlOK, ControlOf, Walking, InTask
    <3> QED  BY <1>1, <3>1, <3>5, <3>6
  <2> QED  BY <2>1, <2>2
<1>3. ASSUME NEW l \in lineageEdges'
      PROVE  \E b \in Attempts : Begun(b)' /\ l[1] = RunOf[b] /\ l[2] \in IdEdges(dag[b])
  <2>1. CASE l \in lineageEdges
    BY <1>1, <2>1 DEF OwnersOK
  <2>2. CASE l \notin lineageEdges
    <3>1. RecordNextEdge(a)
      BY <2>2 DEF Reject, Begin, Step, StartWalk, SkipTask, StartTask, ExecuteOk, storeVars,
         ExecuteErr, PersistSucceeded, PersistFailed, ReturnOk, ReturnErr, Crash
    <3> DEFINE e == dag[a].edges[pos[a]]
    <3>2. l = <<RunOf[a], IdEdge(dag[a], e)>> /\ pc[a] = "edges" /\ pos[a] <= Len(dag[a].edges)
      BY <2>2, <3>1 DEF RecordNextEdge, RecordEdge
    <3>3. e \in EdgeSet(dag[a])
      BY <3>2, DagOfAttempt DEF EdgeSet, Range, IsDag, TypeOK
    <3>4. IdEdge(dag[a], e) \in IdEdges(dag[a])
      BY <3>3 DEF IdEdges
    <3>5. Begun(a)
      BY <3>2 DEF Begun, ControlOK, ControlOf
    <3> HIDE DEF e
    <3> QED  BY <1>1, <3>2, <3>4, <3>5
  <2> QED  BY <2>1, <2>2
<1> QED  BY <1>1, <1>2, <1>3 DEF OwnersOK

LEMMA OwnersCorrect == Spec => []OwnersOK
BY InitOwners, NextOwners, TypeCorrect, PTL DEF Spec

\* With distinct ids, the two ends of an edge are at two positions of the
\* order, upstream first.
LEMMA EdgePositions ==
  ASSUME TypeOK, NEW a \in Attempts, DistinctIds(dag[a]), order[a] \in TopoOrders(dag[a]),
         NEW u, NEW t, <<u, t>> \in IdEdges(dag[a])
  PROVE  /\ u \in TaskIds
         /\ \E i, j \in Nodes(dag[a]) : i < j /\ u = IdAt(a, i) /\ t = IdAt(a, j)
<1>1. PICK e \in EdgeSet(dag[a]) : IdEdge(dag[a], e) = <<u, t>>
  BY DEF IdEdges
<1>2. e \in Nodes(dag[a]) \X Nodes(dag[a])
  BY DagOfAttempt, NodesOfDag
<1>3. e = <<e[1], e[2]>> /\ u = dag[a].ids[e[1]] /\ t = dag[a].ids[e[2]]
  BY <1>1, <1>2 DEF IdEdge
<1>4. PICK i \in Nodes(dag[a]), j \in Nodes(dag[a]) : order[a][i] = e[1] /\ order[a][j] = e[2]
  BY <1>2, OrderFacts, DagOfAttempt
<1>5. i < j
  BY <1>3, <1>4, OrderFacts, DagOfAttempt
<1>6. u \in TaskIds
  BY <1>2, <1>3, DagOfAttempt
<1> QED  BY <1>3, <1>4, <1>5, <1>6 DEF IdAt

LEMMA LoneRowsInOrder ==
  /\ TypeOK /\ ControlOK /\ ShapeOK /\ StoreMatchesMemory /\ OwnersOK
  => UpstreamRowsSucceeded
<1> SUFFICES ASSUME TypeOK, ControlOK, ShapeOK, StoreMatchesMemory, OwnersOK,
                    NEW k \in DOMAIN taskRuns, NEW a, a = taskRuns[k].by,
                    DistinctIds(dag[a]),
                    \A b \in Rivals(a) : pc[b] = "idle",
                    taskRuns[k].state \in {"Running", "Succeeded", "Failed"},
                    NEW u \in QueryUpstream(k[1], k[2])
             PROVE  /\ <<k[1], u>> \in DOMAIN taskRuns
                    /\ taskRuns[<<k[1], u>>].state = "Succeeded"
  BY DEF UpstreamRowsSucceeded
<1>1. /\ a \in Attempts /\ k[2] \in TaskIds
      /\ k[1] = RunOf[a] /\ task_states[a][k[2]] = taskRuns[k].state
  BY DEF TypeOK, StoreTypeOK, Row, StoreMatchesMemory
<1>2. order[a] \in TopoOrders(dag[a])
  BY <1>1 DEF OwnersOK, Begun
<1>3. <<u, k[2]>> \in IdEdges(dag[a])
  <2>1. PICK f \in EdgesForRun(k[1]) : f[2] = k[2] /\ f[1] = u
    BY DEF QueryUpstream
  <2>2. PICK l \in lineageEdges : l[1] = k[1] /\ l[2] = f
    BY <2>1 DEF EdgesForRun
  <2>3. PICK b \in Attempts : pc[b] # "idle" /\ l[1] = RunOf[b] /\ l[2] \in IdEdges(dag[b])
    BY <2>2 DEF OwnersOK, Begun
  <2>4. b = a
    BY <1>1, <2>2, <2>3 DEF Rivals, OnRun
  <2>5. f \in IdPairs
    BY <2>2 DEF TypeOK, StoreTypeOK
  <2> QED  BY <2>1, <2>2, <2>3, <2>4, <2>5 DEF IdPairs
<1>4. PICK i \in Nodes(dag[a]), j \in Nodes(dag[a]) :
        i < j /\ u = IdAt(a, i) /\ k[2] = IdAt(a, j)
  BY <1>1, <1>2, <1>3, EdgePositions
<1>5. u \in TaskIds
  BY <1>1, <1>2, <1>3, EdgePositions
<1>6. task_states[a][u] = "Succeeded"
  <2>1. FailFastIn(a)
    BY <1>1, ShapeFailsFast DEF FailFast
  <2>2. DOMAIN order[a] = Nodes(dag[a])
    BY <1>1, <1>2, OrderFacts, DagOfAttempt
  <2> QED  BY <1>1, <1>4, <2>1, <2>2 DEF FailFastIn, StateAt
<1>7. <<k[1], u>> \in DOMAIN taskRuns
  BY <1>1, <1>5, <1>6 DEF StoreMatchesMemory
<1>8. taskRuns[<<k[1], u>>].by = a
  <2> DEFINE b == taskRuns[<<k[1], u>>].by
  <2>1. b \in Attempts /\ RunOf[b] = RunOf[a] /\ task_states[b][u] # "unset"
    <3> DEFINE r == <<k[1], u>>
    <3>1. r[1] = k[1] /\ r[2] = u /\ r \in DOMAIN taskRuns
      BY <1>7
    <3> HIDE DEF r
    <3>2. taskRuns[r] \in Row
      BY <3>1 DEF TypeOK, StoreTypeOK
    <3>3. taskRuns[r].by \in Attempts /\ taskRuns[r].state # "unset"
      BY <3>2 DEF Row, TaskStates
    <3>4. r[1] = RunOf[taskRuns[r].by] /\ taskRuns[r].state = task_states[taskRuns[r].by][r[2]]
      BY <3>1 DEF StoreMatchesMemory
    <3>5. b = taskRuns[r].by
      BY DEF r
    <3> HIDE DEF b
    <3> QED  BY <1>1, <3>1, <3>3, <3>4, <3>5
  <2>2. pc[b] # "idle"
    BY <1>5, <2>1 DEF ControlOK, ControlOf
  <2> HIDE DEF b
  <2> QED  BY <2>1, <2>2 DEF Rivals, OnRun, b
<1> QED  BY <1>6, <1>7, <1>8 DEF StoreMatchesMemory

\* Of a run that one attempt used, dead or not, the store alone tells that the
\* upstream tasks of every task that was started have succeeded (local.rs:98-125).
THEOREM UpstreamRowsAreSucceeded == Spec => []UpstreamRowsSucceeded
BY LoneRowsInOrder, OwnersCorrect, ShapesCorrect, RowsCorrect, TypeCorrect, PTL

----------------------------------------------------------------------------
(* Failures and the edges of the dag *)

\* The nodes walked up to a position are closed upstream, so that the ancestors
\* of a node come before it in every topological order.
LEMMA AncestorsComeFirst ==
  ASSUME NEW g, IsDag(g), NEW o \in TopoOrders(g), NEW j \in Nodes(g),
         NEW m \in Ancestors(g, o[j])
  PROVE  \E i \in Nodes(g) : i < j /\ o[i] = m
<1> DEFINE S == {o[i] : i \in {k \in Nodes(g) : k <= j}}
<1>1. /\ o \in [Nodes(g) -> Nodes(g)]
      /\ \A n \in Nodes(g) : \E i \in Nodes(g) : o[i] = n
      /\ \A i, k \in Nodes(g) : <<o[i], o[k]>> \in EdgeSet(g) => i < k
      /\ Nodes(g) \subseteq Nat
  BY OrderFacts, NodesOfDag
<1>2. S \in SUBSET Nodes(g) /\ o[j] \in S
  BY <1>1
<1>3. ClosedUpstream(g, S)
  <2> SUFFICES ASSUME NEW i \in Nodes(g), i <= j, NEW n \in Parents(g, o[i])
               PROVE  n \in S
    BY DEF ClosedUpstream
  <2>1. PICK k \in Nodes(g) : o[k] = n
    BY <1>1 DEF Parents
  <2>2. k < i
    BY <1>1, <2>1 DEF Parents
  <2> QED  BY <1>1, <2>1, <2>2
<1>4. m \in S /\ m # o[j]
  BY <1>2, <1>3 DEF Ancestors
<1> QED  BY <1>1, <1>4

StateOfNode(a, n) == task_states[a][dag[a].ids[n]]

\* Fail-fast along the edges of the dag, and not only along the order: what was
\* started had all its ancestors Succeeded, and below a task that failed or was
\* skipped a report has skipped tasks only.
FailureIsInherited ==
  \A a \in Attempts : DistinctIds(dag[a]) =>
    \A n \in Nodes(dag[a]) : \A m \in Ancestors(dag[a], n) :
      /\ StateOfNode(a, n) \in {"Running", "Succeeded", "Failed"} =>
           StateOfNode(a, m) = "Succeeded"
      /\ pc[a] = "ok" /\ StateOfNode(a, m) \in {"Failed", "Skipped"} =>
           StateOfNode(a, n) = "Skipped"

\* "Downstream tasks land in Skipped" (README.md:55), at any distance from the
\* failure, and nothing downstream of it was started in a run that died either.
THEOREM FailuresAreInherited == Spec => []FailureIsInherited
<1>1. ASSUME TypeOK, ControlOK, StatesOK, OwnersOK, FailFast,
             NEW a \in Attempts, DistinctIds(dag[a]),
             NEW n \in Nodes(dag[a]), NEW m \in Ancestors(dag[a], n)
      PROVE  /\ StateOfNode(a, n) \in {"Running", "Succeeded", "Failed"} =>
                  StateOfNode(a, m) = "Succeeded"
             /\ pc[a] = "ok" /\ StateOfNode(a, m) \in {"Failed", "Skipped"} =>
                  StateOfNode(a, n) = "Skipped"
  <2>1. dag[a].ids[n] \in Ids(dag[a]) /\ dag[a].ids[n] \in TaskIds
    BY <1>1, DagOfAttempt DEF Ids, Range, Nodes
  <2>2. pc[a] = "ok" => StateOfNode(a, n) \in Terminal
    BY <1>1, <2>1, ReportIsFinal DEF StateOfNode
  <2>3. ASSUME StateOfNode(a, n) \in {"Running", "Succeeded", "Failed"}
        PROVE  StateOfNode(a, m) = "Succeeded"
    <3>1. order[a] \in TopoOrders(dag[a])
      BY <1>1, <2>1, <2>3 DEF OwnersOK, Begun, StateOfNode
    <3>2. PICK j \in Nodes(dag[a]) : order[a][j] = n
      BY <1>1, <3>1, OrderFacts, DagOfAttempt
    <3>3. PICK i \in Nodes(dag[a]) : i < j /\ order[a][i] = m
      <4>1. IsDag(dag[a]) /\ m \in Ancestors(dag[a], order[a][j])
        BY <1>1, <3>2, DagOfAttempt
      <4> QED  BY <3>1, <4>1, AncestorsComeFirst
    <3>4. StateAt(a, j) = StateOfNode(a, n) /\ StateAt(a, i) = StateOfNode(a, m)
      BY <3>2, <3>3 DEF StateAt, IdAt, StateOfNode
    <3>5. DOMAIN order[a] = Nodes(dag[a])
      BY <1>1, <3>1, OrderFacts, DagOfAttempt
    <3> QED  BY <1>1, <2>3, <3>3, <3>4, <3>5 DEF FailFast, FailFastIn
  <2> QED  BY <2>2, <2>3 DEF Terminal
<1>2. TypeOK /\ ControlOK /\ StatesOK /\ OwnersOK /\ FailFast => FailureIsInherited
  BY <1>1 DEF FailureIsInherited
<1> QED  BY <1>2, FailsFast, OwnersCorrect, StatesCorrect, TypeCorrect, PTL

----------------------------------------------------------------------------
(* The length of a run *)

\* The most steps left to an attempt at this label and position, with so many
\* edges and nodes: one for each edge, three for each task, which is started,
\* executed and recorded, and three for the rest.
StepsFrom(label, i, edges, nodes) ==
  CASE label = "idle"                -> edges + 3 * nodes + 3
    [] label = "edges"               -> (edges - i) + 3 * nodes + 3
    [] label = "walk"                -> 3 * (nodes + 1 - i) + 1
    [] label = "exec"                -> 3 * (nodes + 1 - i)
    [] label \in {"saveOk", "saveErr"} -> 3 * (nodes + 1 - i) - 1
    [] label \in Ended               -> 0

StepsLeft(a) == StepsFrom(pc[a], pos[a], Len(dag[a].edges), Len(dag[a].ids))

\* The loop over the edges stays within them.
EdgeLoopOK == \A a \in Attempts : pc[a] = "edges" => pos[a] <= Len(dag[a].edges) + 1

LEMMA StepsFromLabel ==
  ASSUME NEW i, NEW e, NEW n
  PROVE  /\ StepsFrom("idle", i, e, n) = e + 3 * n + 3
         /\ StepsFrom("edges", i, e, n) = (e - i) + 3 * n + 3
         /\ StepsFrom("walk", i, e, n) = 3 * (n + 1 - i) + 1
         /\ StepsFrom("exec", i, e, n) = 3 * (n + 1 - i)
         /\ StepsFrom("saveOk", i, e, n) = 3 * (n + 1 - i) - 1
         /\ StepsFrom("saveErr", i, e, n) = 3 * (n + 1 - i) - 1
         /\ StepsFrom("ok", i, e, n) = 0
         /\ StepsFrom("err", i, e, n) = 0
         /\ StepsFrom("crashed", i, e, n) = 0
BY DEF StepsFrom, Ended

\* What bounds the positions of an attempt.
LEMMA LengthFacts ==
  ASSUME TypeOK, ControlOK, EdgeLoopOK, NEW a \in Attempts
  PROVE  /\ Len(dag[a].ids) \in Nat /\ Len(dag[a].edges) \in Nat
         /\ pos[a] \in Nat /\ pos[a] # 0 /\ pc[a] \in PcValues
         /\ pc[a] = "idle" => pos[a] = 1
         /\ pc[a] = "edges" => pos[a] <= Len(dag[a].edges) + 1
         /\ pc[a] = "walk" => pos[a] <= Len(dag[a].ids) + 1
         /\ pc[a] \in InTask => pos[a] <= Len(dag[a].ids)
<1>1. Len(dag[a].ids) \in Nat /\ IsDag(dag[a])
  BY DagOfAttempt
<1>2. Len(dag[a].edges) \in Nat
  BY <1>1 DEF IsDag
<1> QED  BY <1>1, <1>2 DEF TypeOK, ControlOK, ControlOf, EdgeLoopOK, More

LEMMA NextEdgeLoop == TypeOK /\ ControlOK /\ EdgeLoopOK /\ [Next]_vars => EdgeLoopOK'
<1> SUFFICES ASSUME TypeOK, ControlOK, EdgeLoopOK, [Next]_vars PROVE EdgeLoopOK'
  OBVIOUS
<1>1. CASE UNCHANGED vars
  BY <1>1 DEF vars, localVars, EdgeLoopOK
<1>2. ASSUME NEW a \in Attempts, Reject(a) \/ Begin(a) \/ Step(a) \/ Crash(a)
      PROVE  EdgeLoopOK'
  <2>1. dag' = dag
    BY BegunIsKept
  <2>2. \A b \in Attempts \ {a} : pc'[b] = pc[b] /\ pos'[b] = pos[b]
    BY <1>2, OthersUnchanged
  <2>3. pc'[a] = "edges" => pos'[a] <= Len(dag[a].edges) + 1
    BY <1>2, LengthFacts
       DEF Reject, Begin, Step, RecordNextEdge, StartWalk, SkipTask, StartTask, ExecuteOk,
           ExecuteErr, PersistSucceeded, PersistFailed, ReturnOk, ReturnErr, Crash, Goto,
           Advance, TypeOK
  <2> QED  BY <2>1, <2>2, <2>3 DEF EdgeLoopOK
<1> QED  BY <1>1, <1>2 DEF Next

LEMMA StepsLeftIsNat ==
  ASSUME TypeOK, ControlOK, EdgeLoopOK, NEW a \in Attempts
  PROVE  StepsLeft(a) \in Nat /\ (pc[a] \notin Ended => StepsLeft(a) # 0)
<1> DEFINE n == Len(dag[a].ids)
           e == Len(dag[a].edges)
<1>0. /\ n \in Nat /\ e \in Nat /\ pos[a] \in Nat /\ pos[a] # 0 /\ pc[a] \in PcValues
      /\ pc[a] = "edges" => pos[a] <= e + 1
      /\ pc[a] = "walk" => pos[a] <= n + 1
      /\ pc[a] \in InTask => pos[a] <= n
  BY LengthFacts
<1>1. StepsLeft(a) = StepsFrom(pc[a], pos[a], e, n)
  BY DEF StepsLeft
<1> HIDE DEF n, e
<1>2. CASE pc[a] \in Ended
  BY <1>1, <1>2, StepsFromLabel DEF Ended
<1>3. CASE pc[a] \in {"idle", "edges", "walk"}
  BY <1>0, <1>1, <1>3, StepsFromLabel
<1>4. CASE pc[a] \in InTask
  BY <1>0, <1>1, <1>4, StepsFromLabel DEF InTask
<1> QED  BY <1>0, <1>2, <1>3, <1>4 DEF PcValues

LEMMA StepShrinks ==
  ASSUME TypeOK, ControlOK, EdgeLoopOK, NEW a \in Attempts, dag' = dag,
         Reject(a) \/ Begin(a) \/ Step(a) \/ Crash(a)
  PROVE  StepsLeft(a)' < StepsLeft(a) /\ StepsLeft(a)' <= StepsLeft(a)
<1> DEFINE n == Len(dag[a].ids)
           e == Len(dag[a].edges)
<1>0. /\ n \in Nat /\ e \in Nat /\ pos[a] \in Nat /\ DOMAIN pc = Attempts /\ DOMAIN pos = Attempts
      /\ pc[a] = "idle" => pos[a] = 1
      /\ pc[a] = "edges" => pos[a] <= e + 1
  BY LengthFacts DEF TypeOK
<1>1. /\ StepsLeft(a) = StepsFrom(pc[a], pos[a], e, n)
      /\ StepsLeft(a)' = StepsFrom(pc'[a], pos'[a], e, n)
  BY DEF StepsLeft
<1> HIDE DEF n, e
<1>2. CASE pc'[a] \in Ended
  <2>1. StepsLeft(a)' = 0
    BY <1>1, <1>2, StepsFromLabel DEF Ended
  <2>2. pc[a] \notin Ended
    BY DEF Reject, Begin, Step, RecordNextEdge, StartWalk, SkipTask, StartTask, ExecuteOk,
       ExecuteErr, PersistSucceeded, PersistFailed, ReturnOk, ReturnErr, Crash, Ended
  <2> QED  BY <2>1, <2>2, StepsLeftIsNat
<1>3. CASE Begin(a)
  <2>1. pc[a] = "idle" /\ pc'[a] = "edges" /\ pos'[a] = pos[a]
    BY <1>0, <1>3 DEF Begin, Goto
  <2> QED  BY <1>0, <1>1, <2>1, StepsFromLabel
<1>4. CASE RecordNextEdge(a)
  <2>1. pc[a] = "edges" /\ pc'[a] = "edges" /\ pos'[a] = pos[a] + 1
    BY <1>0, <1>4 DEF RecordNextEdge, Advance
  <2> QED  BY <1>0, <1>1, <2>1, StepsFromLabel
<1>5. CASE StartWalk(a)
  <2>1. pc[a] = "edges" /\ pc'[a] = "walk" /\ pos'[a] = 1
    BY <1>0, <1>5 DEF StartWalk, Goto
  <2> QED  BY <1>0, <1>1, <2>1, StepsFromLabel
<1>6. CASE SkipTask(a)
  <2>1. pc[a] = "walk" /\ pc'[a] = "walk" /\ pos'[a] = pos[a] + 1
    BY <1>0, <1>6 DEF SkipTask, Advance
  <2> QED  BY <1>0, <1>1, <2>1, StepsFromLabel
<1>7. CASE StartTask(a)
  <2>1. pc[a] = "walk" /\ pc'[a] = "exec" /\ pos'[a] = pos[a]
    BY <1>0, <1>7 DEF StartTask, Goto
  <2> QED  BY <1>0, <1>1, <2>1, StepsFromLabel
<1>8. CASE ExecuteOk(a) \/ ExecuteErr(a)
  <2>1. pc[a] = "exec" /\ pc'[a] \in {"saveOk", "saveErr"} /\ pos'[a] = pos[a]
    BY <1>0, <1>8 DEF ExecuteOk, ExecuteErr, Goto
  <2> QED  BY <1>0, <1>1, <2>1, StepsFromLabel
<1>9. CASE PersistSucceeded(a) \/ PersistFailed(a)
  <2>1. pc[a] \in {"saveOk", "saveErr"} /\ pc'[a] = "walk" /\ pos'[a] = pos[a] + 1
    BY <1>0, <1>9 DEF PersistSucceeded, PersistFailed, Goto, Advance
  <2> QED  BY <1>0, <1>1, <2>1, StepsFromLabel
<1>10. CASE Reject(a) \/ ReturnOk(a) \/ ReturnErr(a) \/ Crash(a)
  BY <1>0, <1>2, <1>10 DEF Reject, ReturnOk, ReturnErr, Crash, Goto, Ended
<1> QED  BY <1>3, <1>4, <1>5, <1>6, <1>7, <1>8, <1>9, <1>10 DEF Step

\* Every step of an attempt lowers the steps left to it, and no step of another
\* raises them.
StepsLeftShrink ==
  \A a \in Attempts :
    /\ StepsLeft(a)' <= StepsLeft(a)
    /\ Reject(a) \/ Begin(a) \/ Step(a) \/ Crash(a) => StepsLeft(a)' < StepsLeft(a)

\* A run takes at most one step for each edge, three for each task and three
\* more, whatever the other runs do and whatever fails (local.rs:66-153): the
\* steps left to it are a number, which each of its steps lowers.
THEOREM RunsAreBounded ==
  Spec => /\ [](\A a \in Attempts : StepsLeft(a) \in Nat)
          /\ [][StepsLeftShrink]_vars
<1>1. Init => EdgeLoopOK
  BY DEF Init, EdgeLoopOK
<1>2. TypeOK /\ ControlOK /\ EdgeLoopOK => \A a \in Attempts : StepsLeft(a) \in Nat
  BY StepsLeftIsNat
<1>3. TypeOK /\ ControlOK /\ EdgeLoopOK /\ [Next]_vars => [StepsLeftShrink]_vars
  <2> SUFFICES ASSUME TypeOK, ControlOK, EdgeLoopOK, Next,
                      NEW a \in Attempts, Reject(a) \/ Begin(a) \/ Step(a) \/ Crash(a),
                      NEW b \in Attempts
               PROVE  /\ StepsLeft(b)' <= StepsLeft(b)
                      /\ Reject(b) \/ Begin(b) \/ Step(b) \/ Crash(b) =>
                           StepsLeft(b)' < StepsLeft(b)
    BY DEF Next, StepsLeftShrink
  <2>1. dag' = dag
    BY BegunIsKept
  <2>2. Reject(b) \/ Begin(b) \/ Step(b) \/ Crash(b) =>
          StepsLeft(b)' < StepsLeft(b) /\ StepsLeft(b)' <= StepsLeft(b)
    BY <2>1, StepShrinks
  <2>3. b # a => StepsLeft(b)' = StepsLeft(b) /\ StepsLeft(b) \in Nat
    BY <2>1, OthersUnchanged, StepsLeftIsNat DEF StepsLeft
  <2> QED  BY <2>2, <2>3
<1> QED  BY <1>1, <1>2, <1>3, NextEdgeLoop, TypeCorrect, PTL DEF Spec

----------------------------------------------------------------------------
(* Retries *)

Retried(a) == pc[a] = "idle" /\ \A b \in Rivals(a) : pc[b] \in Ended

\* The rows of the tasks that a run remembers are its own.
Kept(a) == \A t \in TaskIds : task_states[a][t] # "unset" => taskRuns[<<RunOf[a], t>>].by = a

LEMMA OnlyRivalsTakeRows ==
  ASSUME TypeOK, ControlOK, StoreMatchesMemory, NEW a \in Attempts, Kept(a),
         NEW b \in Attempts \ Rivals(a), Reject(b) \/ Begin(b) \/ Step(b) \/ Crash(b)
  PROVE  Kept(a)'
<1>1. CASE UNCHANGED <<taskRuns, task_states>>
  BY <1>1 DEF Kept
<1>2. ASSUME pc[b] \in Walking, More(b), NEW state, NEW output, PersistState(b, state, output),
             NEW t \in TaskIds, task_states'[a][t] # "unset"
      PROVE  taskRuns'[<<RunOf[a], t>>].by = a
  <2> DEFINE key == <<RunOf[b], TaskId(b)>>
  <2>1. /\ taskRuns'[key].by = b
        /\ \A k \in DOMAIN taskRuns \ {key} : taskRuns'[k] = taskRuns[k]
    BY <1>2, PersistStateStore
  <2>2. (t = TaskId(b) /\ b = a) \/ task_states[a][t] # "unset"
    BY <1>2, PersistStateMemory
  <2>3. b # a => RunOf[b] # RunOf[a]
    BY DEF Rivals, OnRun
  <2>4. task_states[a][t] # "unset" =>
          <<RunOf[a], t>> \in DOMAIN taskRuns /\ taskRuns[<<RunOf[a], t>>].by = a
    BY DEF StoreMatchesMemory, Kept
  <2> QED  BY <2>1, <2>2, <2>3, <2>4
<1> QED  BY <1>1, <1>2, StepWrites DEF Kept

\* From a retry on, nobody else writes to the run.
OwnRows(a) == Kept(a) /\ \A b \in Rivals(a) : pc[b] \in Ended

LEMMA RetryOwnsRows ==
  ASSUME ControlOK, NEW a \in Attempts, Retried(a)
  PROVE  OwnRows(a)
BY DEF Retried, OwnRows, Kept, ControlOK, ControlOf

LEMMA OwnRowsAreKept ==
  ASSUME TypeOK, ControlOK, StoreMatchesMemory, NEW a \in Attempts, OwnRows(a), [Next]_vars
  PROVE  OwnRows(a)'
<1>0. CASE UNCHANGED vars
  BY <1>0 DEF vars, storeVars, localVars, OwnRows, Kept, Rivals, OnRun
<1> SUFFICES ASSUME NEW b \in Attempts, Reject(b) \/ Begin(b) \/ Step(b) \/ Crash(b)
             PROVE  OwnRows(a)'
  BY <1>0 DEF Next
<1>1. pc[b] \notin Ended
  BY DEF Reject, Begin, Step, RecordNextEdge, StartWalk, SkipTask, StartTask, ExecuteOk,
         ExecuteErr, PersistSucceeded, PersistFailed, ReturnOk, ReturnErr, Crash, Ended
<1>2. b \notin Rivals(a) /\ Rivals(a)' = Rivals(a)
  BY <1>1 DEF OwnRows, Rivals, OnRun
<1>3. \A c \in Rivals(a) : pc'[c] \in Ended
  BY <1>2, OthersUnchanged DEF OwnRows, Rivals, OnRun
<1> QED  BY <1>2, <1>3, OnlyRivalsTakeRows DEF OwnRows

\* The code has no recovery but a second call: made when all others on the run
\* id are over, it leaves none of their rows among its tasks (local.rs:64-157).
THEOREM RetriesRepair == Spec => RetryRepairs
<1> DEFINE Inv == TypeOK /\ ControlOK /\ StatesOK /\ StoreMatchesMemory
           Own(a) == pc[a] = "ok" => \A t \in Ids(dag[a]) : taskRuns[<<RunOf[a], t>>].by = a
<1>1. Spec => []Inv
  BY TypeCorrect, StatesCorrect, RowsCorrect, PTL
<1>2. ASSUME NEW a \in Attempts
      PROVE  Spec => [](Retried(a) => []Own(a))
  <2>1. Inv /\ Retried(a) => OwnRows(a)
    BY RetryOwnsRows
  <2>2. Inv /\ OwnRows(a) /\ [Next]_vars => OwnRows(a)'
    BY OwnRowsAreKept
  <2>3. Inv /\ OwnRows(a) => Own(a)
    BY ReportIsFinal DEF OwnRows, Kept, Terminal
  <2> QED  BY <1>1, <2>1, <2>2, <2>3, PTL DEF Spec
<1> QED  BY <1>2 DEF RetryRepairs, Retried
=============================================================================
