----------------------------- MODULE SpecBuild -----------------------------
(***************************************************************************)
(* The three functions that turn a task list with `depends_on` fields into *)
(* a dag, statement by statement:                                          *)
(*   "spec"       DagSpec::build, behind `dag-cli validate`                *)
(*   "runnable"   build_runnable_dag, behind `dag-cli run` and `backfill`  *)
(*   "resources"  topo_order_from_resources, inside ForjarRunner::run      *)
(* They share two loops, one adding the nodes and one adding the edges,    *)
(* and differ in the duplicate check and in the final check.               *)
(***************************************************************************)
EXTENDS DagCore, FiniteSets

CONSTANTS
  Specs          \* task lists: sequences of [id, depends_on]

ASSUME SpecsAssumption ==
  Specs \subseteq Seq([id : TaskIds, depends_on : Seq(TaskIds)])

Builders == {"spec", "runnable", "resources"}

VARIABLES
  builder, spec,   \* the function called and its argument
  pc,
  t, d,            \* loop positions: the task, the dependency of the task
  indices,         \* the HashMap id -> NodeIndex; 0 is an absent key
  dag,
  error            \* which error was returned

vars == <<builder, spec, pc, t, d, indices, dag, error>>

Errors == {"DuplicateId", "UnknownId", "DuplicateEdge", "Cycle"}

TypeOK ==
  /\ builder \in Builders
  /\ spec \in Specs
  /\ pc \in {"nodes", "edges", "ok", "err"}
  /\ t \in 1..(Len(spec) + 1)
  /\ d \in Nat \ {0}
  /\ indices \in [TaskIds -> {0} \cup Nodes(dag)]
  /\ IsDag(dag)
  /\ error \in Errors \cup {"None"}

\* The resources of a forjar.yaml are the keys of a map.
Init ==
  /\ builder \in Builders
  /\ spec \in Specs
  /\ builder = "resources" => IsInjective(SpecIds(spec))
  /\ pc = "nodes"
  /\ t = 1 /\ d = 1
  /\ indices = [id \in TaskIds |-> 0]
  /\ dag = NewDag
  /\ error = "None"

Fail(e) ==
  /\ pc' = "err" /\ error' = e
  /\ UNCHANGED <<builder, spec, t, d, indices, dag>>

----------------------------------------------------------------------------
(* First loop: one node per task. *)

RejectDuplicateId ==
  /\ pc = "nodes" /\ t <= Len(spec)
  /\ builder = "spec" /\ indices[spec[t].id] # 0
  /\ Fail("DuplicateId")

\* Mutant: entry(id).or_insert(idx), the first task of an id wins.
AddTask_FirstWins ==
  /\ pc = "nodes" /\ t <= Len(spec)
  /\ ~(builder = "spec" /\ indices[spec[t].id] # 0)
  /\ dag' = AddNode(dag, spec[t].id)
  /\ indices' = [indices EXCEPT ![spec[t].id] = IF @ = 0 THEN LastNode(dag') ELSE @]
  /\ t' = t + 1
  /\ UNCHANGED <<builder, spec, pc, d, error>>

AddTask ==
  /\ pc = "nodes" /\ t <= Len(spec)
  /\ ~(builder = "spec" /\ indices[spec[t].id] # 0)
  /\ dag' = AddNode(dag, spec[t].id)
  /\ indices' = [indices EXCEPT ![spec[t].id] = LastNode(dag')]
  /\ t' = t + 1
  /\ UNCHANGED <<builder, spec, pc, d, error>>

StartLinking ==
  /\ pc = "nodes" /\ t > Len(spec)
  /\ pc' = "edges" /\ t' = 1
  /\ UNCHANGED <<builder, spec, d, indices, dag, error>>

(* Second loop: one edge per dependency. *)

HasDep  == pc = "edges" /\ t <= Len(spec) /\ d <= Len(spec[t].depends_on)
DepFrom == indices[spec[t].depends_on[d]]
DepTo   == indices[spec[t].id]

RejectUnknownDep ==
  /\ HasDep /\ DepFrom = 0
  /\ Fail("UnknownId")

RejectEdge ==
  /\ HasDep /\ DepFrom # 0
  /\ AddEdgeError(dag, DepFrom, DepTo) # "None"
  /\ Fail(AddEdgeError(dag, DepFrom, DepTo))

LinkDep ==
  /\ HasDep /\ DepFrom # 0
  /\ AddEdgeError(dag, DepFrom, DepTo) = "None"
  /\ dag' = AddEdge(dag, DepFrom, DepTo)
  /\ d' = d + 1
  /\ UNCHANGED <<builder, spec, pc, t, indices, error>>

NextTask ==
  /\ pc = "edges" /\ t <= Len(spec) /\ d > Len(spec[t].depends_on)
  /\ t' = t + 1 /\ d' = 1
  /\ UNCHANGED <<builder, spec, pc, indices, dag, error>>

(* cycle_check in the two builders, topo_sort in the forjar runner. *)

\* Mutant: the dag is returned unchecked.
FinalCheckOk_Unchecked == TRUE

FinalCheckOk == IF builder = "resources" THEN TopoSortOk(dag) ELSE CycleCheckOk(dag)

RejectCycle ==
  /\ pc = "edges" /\ t > Len(spec)
  /\ ~FinalCheckOk
  /\ Fail("Cycle")

Accept ==
  /\ pc = "edges" /\ t > Len(spec)
  /\ FinalCheckOk
  /\ pc' = "ok"
  /\ UNCHANGED <<builder, spec, t, d, indices, dag, error>>

Next ==
  \/ RejectDuplicateId
  \/ AddTask
  \/ StartLinking
  \/ RejectUnknownDep
  \/ RejectEdge
  \/ LinkDep
  \/ NextTask
  \/ RejectCycle
  \/ Accept

Spec == Init /\ [][Next]_vars

----------------------------------------------------------------------------
(* Properties *)

\* Where ids are distinct, or checked, a builder accepts exactly the
\* acceptable specs: `run`, `backfill` and forjar take what `validate` takes,
\* and neither the order of the tasks nor the order of the two loops' errors
\* matters.
VerdictIsRight ==
  builder = "spec" \/ DistinctSpec(spec) =>
    /\ pc = "ok" => Acceptable(spec)
    /\ pc = "err" => ~Acceptable(spec)

\* The position of the last task of an id.
LastOf(s, id) ==
  CHOOSE i \in DOMAIN s : s[i].id = id /\ \A j \in DOMAIN s : s[j].id = id => j <= i

\* The dag returned has one node per task in the order of the spec, and one edge
\* for each dependency declared, dependency first.  `build_runnable_dag` has no
\* duplicate check: when a spec repeats an id, its edges go from and to the last
\* task of that id, and the earlier ones are left without any.
DagIsDeclared ==
  pc = "ok" =>
    /\ dag.ids = SpecIds(spec)
    /\ \A e \in DeclaredEdges(spec) : e[1] \in Range(SpecIds(spec))
    /\ EdgeSet(dag) = {<<LastOf(spec, e[1]), LastOf(spec, e[2])>> : e \in DeclaredEdges(spec)}
    /\ Len(dag.edges) = Cardinality(DeclaredEdges(spec))

\* contracts no_cycles and edge_direction_correct: whatever builder returned
\* it, duplicate ids or not, the dag has a topological order and no self-loop,
\* so that the topo_sort of the runner that takes it cannot fail.
DagIsRunnable ==
  pc = "ok" =>
    /\ TopoOrders(dag) # {}
    /\ \A e \in EdgeSet(dag) : e[1] # e[2]

(* A statement of the documentation that the code does not meet *)

\* contracts/dag-rust-v1.yaml:158: multi-node specs with an unreferenced task
\* are rejected.
NoOrphanTasks ==
  pc = "ok" /\ builder = "spec" => EveryTaskReachable(dag)
=============================================================================
