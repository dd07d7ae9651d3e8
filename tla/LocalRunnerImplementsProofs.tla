-------------------- MODULE LocalRunnerImplementsProofs --------------------
(***************************************************************************)
(* LocalRunner implements DagRun, for every dag with distinct ids and any  *)
(* number of other attempts on other run ids of the same store.            *)
(***************************************************************************)
EXTENDS LocalRunnerImplements, LocalRunnerProofs

\* What the proof of a step needs of a state.
Known == TypeOK /\ ControlOK /\ StatesOK /\ ShapeOK /\ StoreMatchesMemory /\ OutputsOK

State(n) == task_states[Self][dag[Self].ids[n]]

LEMMA SelfFacts ==
  ASSUME TypeOK
  PROVE  /\ Self \in Attempts /\ IsDag(dag[Self]) /\ DistinctIds(dag[Self]) /\ dag[Self] \in Dags
         /\ \A n \in Nodes(dag[Self]) :
              dag[Self].ids[n] \in TaskIds /\ State(n) \in TaskStates \cup {"unset"}
         /\ \A m, n \in Nodes(dag[Self]) : dag[Self].ids[m] = dag[Self].ids[n] => m = n
<1>1. Self \in Attempts /\ dag[Self] \in Dags /\ DistinctIds(dag[Self])
  BY SelfAssumption DEF TypeOK
<1>2. IsDag(dag[Self]) /\ \A n \in Nodes(dag[Self]) : dag[Self].ids[n] \in TaskIds
  BY <1>1, DagOfAttempt
<1>3. \A n \in Nodes(dag[Self]) : State(n) \in TaskStates \cup {"unset"}
  BY <1>1, <1>2 DEF TypeOK, State
<1>4. \A m, n \in Nodes(dag[Self]) : dag[Self].ids[m] = dag[Self].ids[n] => m = n
  BY <1>1 DEF DistinctIds, IsInjective, Nodes
<1> QED  BY <1>1, <1>2, <1>3, <1>4

\* Nobody else writes to the run, so the store shows what the attempt has in
\* its memory.
LEMMA StoreShowsMemory ==
  ASSUME TypeOK, StoreMatchesMemory, NEW n \in Nodes(dag[Self])
  PROVE  StatusInStore[n] = IF State(n) = "unset" THEN "Pending" ELSE State(n)
<1> DEFINE k == RowKey(n)
           t == dag[Self].ids[n]
<1>1. StatusInStore[n] = IF k \in DOMAIN taskRuns THEN taskRuns[k].state ELSE "Pending"
  BY DEF StatusInStore
<1>2. k[1] = RunOf[Self] /\ k[2] = t /\ t \in TaskIds /\ Self \in Attempts
  BY SelfFacts DEF RowKey
<1>3. CASE k \in DOMAIN taskRuns
  <2>1. taskRuns[k].by \in Attempts /\ taskRuns[k].state \in TaskStates
    BY <1>3 DEF TypeOK, StoreTypeOK, Row
  <2>2. taskRuns[k].by = Self
    BY <1>2, <1>3, <2>1, SelfAssumption DEF StoreMatchesMemory
  <2>3. taskRuns[k].state = State(n)
    BY <1>2, <1>3, <2>2 DEF StoreMatchesMemory, State
  <2> QED  BY <1>1, <1>3, <2>1, <2>3 DEF TaskStates
<1>4. CASE k \notin DOMAIN taskRuns
  <2>1. k = <<RunOf[Self], t>>
    BY DEF RowKey
  <2>2. State(n) = "unset"
    BY <1>2, <1>4, <2>1 DEF StoreMatchesMemory, State
  <2> QED  BY <1>1, <1>4, <2>2
<1> QED  BY <1>3, <1>4

\* The operators on dags are the same in both specifications.
LEMMA SameDags ==
  ASSUME NEW g, NEW n
  PROVE  Abstract!Nodes(g) = Nodes(g) /\ Abstract!Parents(g, n) = Parents(g, n)
BY DEF Abstract!Nodes, Abstract!Parents, Abstract!EdgeSet, Abstract!Range,
       Nodes, Parents, EdgeSet, Range

LEMMA InitRefines == Init => Abstract!Init
<1> SUFFICES ASSUME Init PROVE Abstract!Init
  OBVIOUS
<1>1. dag[Self] \in Dags /\ Outcome = "open"
  BY SelfAssumption DEF Init, Outcome
<1>2. StatusInStore = [n \in Nodes(dag[Self]) |-> "Pending"]
  BY DEF Init, InitSchema, StatusInStore
<1> QED  BY <1>1, <1>2, SameDags DEF Abstract!Init

----------------------------------------------------------------------------
(* The rows of the run *)

\* The step of another attempt is not seen.
LEMMA OthersStutter ==
  ASSUME Known, NEW b \in Attempts \ {Self}, Reject(b) \/ Begin(b) \/ Step(b) \/ Crash(b)
  PROVE  UNCHANGED <<dag[Self], StatusInStore, Outcome>>
<1>1. dag' = dag /\ pc'[Self] = pc[Self]
  BY OthersUnchanged, SelfAssumption DEF Known
<1>2. RunOf[b] # RunOf[Self]
  BY SelfAssumption
<1>3. \A n : RowKey(n)' = RowKey(n) /\ RowKey(n) = <<RunOf[Self], dag[Self].ids[n]>>
  BY <1>1 DEF RowKey
<1> DEFINE Same ==
      \A n : /\ RowKey(n) \in DOMAIN taskRuns' <=> RowKey(n) \in DOMAIN taskRuns
             /\ RowKey(n) \in DOMAIN taskRuns => taskRuns'[RowKey(n)] = taskRuns[RowKey(n)]
<1>4. Same
  <2>1. CASE UNCHANGED taskRuns
    BY <2>1
  <2>2. ASSUME NEW state, NEW output, PersistState(b, state, output) PROVE Same
    <3> DEFINE key == <<RunOf[b], TaskId(b)>>
    <3>1. /\ DOMAIN taskRuns' = DOMAIN taskRuns \cup {key}
          /\ \A k \in DOMAIN taskRuns \ {key} : taskRuns'[k] = taskRuns[k]
      BY <2>2, PersistStateStore
    <3>2. \A n : RowKey(n) # key
      BY <1>2, <1>3
    <3> QED  BY <3>1, <3>2
  <2> QED  BY <2>1, <2>2, StepWrites DEF Known
<1>5. StatusInStore' = StatusInStore
  BY <1>1, <1>3, <1>4 DEF StatusInStore
<1> QED  BY <1>1, <1>5 DEF Outcome

\* A write of the attempt changes the status of the node that it is at.
LEMMA WriteShows ==
  ASSUME Known, pc[Self] \in Walking, More(Self), NEW state, NEW output,
         PersistState(Self, state, output), dag' = dag
  PROVE  StatusInStore' = [StatusInStore EXCEPT ![Node(Self)] = state]
<1> DEFINE n == Node(Self)
           key == <<RunOf[Self], TaskId(Self)>>
<1>1. n \in Nodes(dag[Self]) /\ key = RowKey(n) /\ Self \in Attempts
  BY NodeOfWalk, SelfAssumption DEF Known, RowKey, TaskId
<1>2. \A m : RowKey(m)' = RowKey(m)
  BY DEF RowKey
<1>3. \A m \in Nodes(dag[Self]) : RowKey(m) = key => m = n
  BY <1>1, SelfFacts DEF Known, RowKey
<1>4. /\ DOMAIN taskRuns' = DOMAIN taskRuns \cup {key}
      /\ taskRuns'[key].state = state
      /\ \A k \in DOMAIN taskRuns \ {key} : taskRuns'[k] = taskRuns[k]
  BY <1>1, PersistStateStore
<1> HIDE DEF n, key
<1>5. StatusInStore' = [m \in Nodes(dag[Self]) |-> IF m = n THEN state ELSE StatusInStore[m]]
  BY <1>1, <1>2, <1>3, <1>4 DEF StatusInStore
<1>6. StatusInStore = [m \in Nodes(dag[Self]) |-> StatusInStore[m]]
  BY DEF StatusInStore
<1> QED  BY <1>1, <1>5, <1>6 DEF n

\* Where the nodes before and behind the walk stand.
LEMMA WalkFacts ==
  ASSUME Known, pc[Self] \in Walking, More(Self)
  PROVE  LET n == Node(Self) IN
         /\ n \in Nodes(dag[Self])
         /\ pc[Self] \in InTask => StatusInStore[n] = "Running"
         /\ pc[Self] = "walk" => /\ StatusInStore[n] = "Pending"
                                 /\ \A m \in Nodes(dag[Self]) : StatusInStore[m] # "Running"
         /\ failure_seen[Self] => \E m \in Nodes(dag[Self]) : StatusInStore[m] = "Failed"
         /\ ~failure_seen[Self] =>
              /\ \A m \in Parents(dag[Self], n) : StatusInStore[m] = "Succeeded"
              /\ \A m \in Nodes(dag[Self]) : StatusInStore[m] # "Failed"
<1> DEFINE N == Nodes(dag[Self])
           n == Node(Self)
           o == order[Self]
           p == pos[Self]
<1>1. /\ Self \in Attempts /\ TypeOK /\ StoreMatchesMemory /\ o \in TopoOrders(dag[Self])
      /\ p \in N /\ n \in N /\ N \subseteq Nat /\ failure_seen[Self] \in BOOLEAN
  BY NodeOfWalk, DagOfAttempt, SelfAssumption DEF Known, ControlOK, ControlOf, Walking, TypeOK
<1>2. ShapeAt(Self, p)
  BY <1>1, SelfFacts DEF Known, ShapeOK, ShapeOf
<1>3. \A i \in N : State(o[i]) = StateAt(Self, i) /\ o[i] \in N
  BY <1>1, OrderFacts, DagOfAttempt DEF State, StateAt, IdAt
<1>4. \A m \in N : \E i \in N : m = o[i]
  BY <1>1, OrderFacts, DagOfAttempt
<1>5. \A m \in N : StatusInStore[m] = IF State(m) = "unset" THEN "Pending" ELSE State(m)
  BY <1>1, StoreShowsMemory
<1>6. n = o[p]
  BY DEF Node
<1>7. ASSUME NEW m \in Parents(dag[Self], n)
      PROVE  \E i \in N : i < p /\ m = o[i]
  <2>1. m \in N /\ <<m, n>> \in EdgeSet(dag[Self])
    BY DEF Parents
  <2>2. PICK i \in N : m = o[i]
    BY <1>4, <2>1
  <2>3. \A j, k \in N : <<o[j], o[k]>> \in EdgeSet(dag[Self]) => j < k
    BY <1>1, OrderFacts, DagOfAttempt
  <2>4. i < p
    <3> HIDE DEF N, n, o, p
    <3> QED  BY <1>1, <1>6, <2>1, <2>2, <2>3
  <2> QED  BY <2>2, <2>4
<1>8. pc[Self] \in InTask => State(n) = "Running"
  BY <1>1 DEF Known, OutputsOK, OutputsOf, State, TaskId
<1>9. pc[Self] = "walk" => \A m \in N : State(m) # "Running"
  BY <1>1, SelfFacts DEF Known, StatesOK, StatesOf, State, InTask
<1> HIDE DEF N, n, o, p
<1>10. /\ \A i \in N : i > p => State(o[i]) = "unset"
       /\ State(n) \in {"unset", "Running"}
       /\ ~failure_seen[Self] => \A i \in N : i < p => State(o[i]) = "Succeeded"
       /\ failure_seen[Self] => \E f \in N : State(o[f]) = "Failed"
  BY <1>1, <1>2, <1>3, <1>6 DEF ShapeAt, N, p
<1>11. ~failure_seen[Self] => \A m \in N : State(m) \in {"unset", "Running", "Succeeded"}
  <2> SUFFICES ASSUME ~failure_seen[Self], NEW i \in N
               PROVE  State(o[i]) \in {"unset", "Running", "Succeeded"}
    BY <1>4
  <2>1. i < p \/ i = p \/ i > p
    BY <1>1
  <2> QED  BY <1>6, <1>10, <2>1
<1>12. ~failure_seen[Self] => \A m \in Parents(dag[Self], n) : m \in N /\ State(m) = "Succeeded"
  BY <1>3, <1>7, <1>10
<1> QED  BY <1>1, <1>3, <1>5, <1>8, <1>9, <1>10, <1>11, <1>12 DEF N, n

LEMMA EndFacts ==
  ASSUME Known, pc[Self] = "walk", ~More(Self), NEW m \in Nodes(dag[Self])
  PROVE  StatusInStore[m] \in Terminal
<1> DEFINE N == Nodes(dag[Self])
           o == order[Self]
<1>1. /\ Self \in Attempts /\ TypeOK /\ StoreMatchesMemory /\ o \in TopoOrders(dag[Self])
      /\ \A i \in N : i < pos[Self] /\ failure_seen[Self] \in BOOLEAN
  BY DagOfAttempt, SelfAssumption DEF Known, ControlOK, ControlOf, Walking, TypeOK, More
<1>2. PICK i \in N : m = o[i]
  BY <1>1, OrderFacts, DagOfAttempt
<1>3. StateAt(Self, i) \in Terminal
  BY <1>1 DEF Known, StatesOK, StatesOf, Walking, InTask, Terminal
<1>4. State(m) = StateAt(Self, i)
  BY <1>2 DEF State, StateAt, IdAt
<1> QED  BY <1>1, <1>3, <1>4, StoreShowsMemory DEF Terminal

----------------------------------------------------------------------------
(* The steps *)

LEMMA SelfRefines ==
  ASSUME Known, Reject(Self) \/ Begin(Self) \/ Step(Self) \/ Crash(Self)
  PROVE  [Abstract!Next]_(Abstract!vars)
<1> DEFINE N == Nodes(dag[Self])
           n == Node(Self)
<1>0. /\ Self \in Attempts /\ pc \in [Attempts -> PcValues]
      /\ Abstract!Nodes(dag[Self]) = N
      /\ Abstract!Parents(dag[Self], n) = Parents(dag[Self], n)
  BY SelfAssumption, SameDags DEF Known, TypeOK
<1>1. CASE Begin(Self) \/ RecordNextEdge(Self) \/ StartWalk(Self) \/ ExecuteOk(Self) \/ ExecuteErr(Self)
  <2>1. /\ dag' = dag /\ taskRuns' = taskRuns
        /\ pc[Self] \notin Ended /\ pc'[Self] \notin Ended
    BY <1>0, <1>1 DEF Begin, RecordNextEdge, StartWalk, ExecuteOk, ExecuteErr, Put, storeVars,
                      Goto, Ended
  <2>2. StatusInStore' = StatusInStore
    BY <2>1 DEF StatusInStore, RowKey
  <2>3. Outcome = "open" /\ Outcome' = "open"
    BY <2>1 DEF Outcome, Ended
  <2> QED  BY <2>1, <2>2, <2>3 DEF Abstract!vars
<1>2. CASE Reject(Self) \/ ReturnErr(Self) \/ Crash(Self)
  <2>1. /\ dag' = dag /\ taskRuns' = taskRuns
        /\ pc[Self] \notin Ended /\ pc'[Self] \in {"err", "crashed"}
    BY <1>0, <1>2 DEF Reject, ReturnErr, Crash, storeVars, Goto, Ended
  <2>2. StatusInStore' = StatusInStore
    BY <2>1 DEF StatusInStore, RowKey
  <2>3. Outcome = "open" /\ Outcome' = "err"
    BY <2>1 DEF Outcome, Ended
  <2> QED  BY <2>1, <2>2, <2>3 DEF Abstract!Next, Abstract!Abort
<1>3. CASE ReturnOk(Self)
  <2>1. /\ dag' = dag /\ taskRuns' = taskRuns
        /\ pc[Self] = "walk" /\ ~More(Self) /\ pc'[Self] = "ok"
    BY <1>0, <1>3 DEF ReturnOk, storeVars, Goto
  <2>2. StatusInStore' = StatusInStore
    BY <2>1 DEF StatusInStore, RowKey
  <2>3. Outcome = "open" /\ Outcome' = "ok"
    BY <2>1 DEF Outcome
  <2>4. \A m \in N : StatusInStore[m] \in Abstract!Final
    BY <2>1, EndFacts DEF Abstract!Final, Terminal
  <2> QED  BY <1>0, <2>1, <2>2, <2>3, <2>4 DEF Abstract!Next, Abstract!Return
\* The four writes.
<1>4. ASSUME NEW state, NEW output, PersistState(Self, state, output), dag' = dag,
             pc[Self] \in Walking, More(Self), pc'[Self] \in Walking
      PROVE  /\ n \in N /\ Outcome = "open" /\ Abstract!Set(n, state)
  <2>1. n \in N
    BY <1>4, WalkFacts
  <2>2. Outcome = "open" /\ Outcome' = "open"
    BY <1>4 DEF Outcome, Walking, InTask
  <2>3. StatusInStore' = [StatusInStore EXCEPT ![n] = state]
    BY <1>4, WriteShows
  <2> QED  BY <1>4, <2>1, <2>2, <2>3 DEF Abstract!Set
<1>5. CASE SkipTask(Self)
  <2>1. /\ PersistState(Self, "Skipped", "null") /\ dag' = dag /\ pc' = pc
        /\ pc[Self] = "walk" /\ More(Self) /\ failure_seen[Self]
    BY <1>5 DEF SkipTask
  <2>2. n \in N /\ Outcome = "open" /\ Abstract!Set(n, "Skipped")
    BY <1>4, <2>1 DEF Walking
  <2>3. StatusInStore[n] = "Pending" /\ \E m \in N : StatusInStore[m] = "Failed"
    BY <2>1, WalkFacts DEF Walking
  <2>4. Abstract!Skip(n)
    BY <1>0, <2>2, <2>3 DEF Abstract!Skip, Abstract!SomeFailed
  <2> QED  BY <1>0, <2>2, <2>4 DEF Abstract!Next
<1>6. CASE StartTask(Self)
  <2>1. /\ PersistState(Self, "Running", "null") /\ dag' = dag /\ pc'[Self] = "exec"
        /\ pc[Self] = "walk" /\ More(Self) /\ ~failure_seen[Self]
    BY <1>0, <1>6 DEF StartTask, Goto
  <2>2. n \in N /\ Outcome = "open" /\ Abstract!Set(n, "Running")
    BY <1>4, <2>1 DEF Walking, InTask
  <2>3. /\ StatusInStore[n] = "Pending"
        /\ \A m \in Parents(dag[Self], n) : StatusInStore[m] = "Succeeded"
        /\ \A m \in N : StatusInStore[m] \notin {"Running", "Failed"}
    BY <2>1, WalkFacts DEF Walking
  <2>4. Abstract!Start(n)
    BY <1>0, <2>2, <2>3 DEF Abstract!Start, Abstract!SomeFailed
  <2> QED  BY <1>0, <2>2, <2>4 DEF Abstract!Next
<1>7. CASE PersistSucceeded(Self)
  <2>1. /\ PersistState(Self, "Succeeded", "value") /\ dag' = dag /\ pc'[Self] = "walk"
        /\ pc[Self] = "saveOk" /\ More(Self)
    BY <1>0, <1>7 DEF PersistSucceeded, Goto, Known, ControlOK, ControlOf, InTask
  <2>2. n \in N /\ Outcome = "open" /\ Abstract!Set(n, "Succeeded")
    BY <1>4, <2>1 DEF Walking, InTask
  <2>3. StatusInStore[n] = "Running"
    BY <2>1, WalkFacts DEF Walking, InTask
  <2> QED  BY <1>0, <2>2, <2>3 DEF Abstract!Next, Abstract!Succeed
<1>8. CASE PersistFailed(Self)
  <2>1. /\ PersistState(Self, "Failed", "error") /\ dag' = dag /\ pc'[Self] = "walk"
        /\ pc[Self] = "saveErr" /\ More(Self)
    BY <1>0, <1>8 DEF PersistFailed, Goto, Known, ControlOK, ControlOf, InTask
  <2>2. n \in N /\ Outcome = "open" /\ Abstract!Set(n, "Failed")
    BY <1>4, <2>1 DEF Walking, InTask
  <2>3. StatusInStore[n] = "Running"
    BY <2>1, WalkFacts DEF Walking, InTask
  <2> QED  BY <1>0, <2>2, <2>3 DEF Abstract!Next, Abstract!Fail
<1> QED  BY <1>1, <1>2, <1>3, <1>5, <1>6, <1>7, <1>8 DEF Step

LEMMA NextRefines == Known /\ [Next]_vars => [Abstract!Next]_(Abstract!vars)
<1> SUFFICES ASSUME Known, [Next]_vars PROVE [Abstract!Next]_(Abstract!vars)
  OBVIOUS
<1>1. CASE UNCHANGED vars
  <2>1. UNCHANGED <<dag[Self], StatusInStore, Outcome>>
    BY <1>1 DEF vars, storeVars, localVars, StatusInStore, RowKey, Outcome
  <2> QED  BY <2>1 DEF Abstract!vars
<1>2. ASSUME NEW b \in Attempts \ {Self}, Reject(b) \/ Begin(b) \/ Step(b) \/ Crash(b)
      PROVE  UNCHANGED (Abstract!vars)
  BY <1>2, OthersStutter DEF Abstract!vars
<1> QED  BY <1>1, <1>2, SelfRefines DEF Next

\* A run implements DagRun as the store shows it: its rows change the way the
\* Runner trait promises, with crashes at any point and other runs beside it
\* (dag-runner/src/lib.rs:60-68, local.rs:64-157).
THEOREM RunsImplementDagRun == Spec => ImplementsDagRun
<1>1. Spec => []Known
  BY TypeCorrect, StatesCorrect, ShapesCorrect, RowsCorrect, OutputsCorrect, PTL DEF Known
<1> QED  BY <1>1, InitRefines, NextRefines, PTL DEF Spec, ImplementsDagRun, Abstract!Spec
=============================================================================
