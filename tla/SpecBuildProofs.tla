--------------------------- MODULE SpecBuildProofs ---------------------------
(***************************************************************************)
(* Correctness of the three builders, for every set of task lists: what    *)
(* they accept, and what the dag is that they return.                      *)
(***************************************************************************)
EXTENDS SpecBuild, DagCoreProofs

----------------------------------------------------------------------------
(* The inductive invariant, in the order in which its parts are proved *)

Dep(i, j)  == spec[i].depends_on[j]
From(i, j) == indices[Dep(i, j)]
To(i)      == indices[spec[i].id]

\* The first loop has added the tasks before t, in the order of the spec.
NodesOK ==
  /\ pc = "nodes" => dag.edges = << >> /\ d = 1 /\ Len(dag.ids) = t - 1
  /\ pc \in {"edges", "ok"} => Len(dag.ids) = Len(spec)
  /\ pc = "ok" => t > Len(spec)
  /\ \A n \in Nodes(dag) : n \in DOMAIN spec /\ dag.ids[n] = spec[n].id

\* The map gives the last node of each id, and edges lead between such nodes.
IndicesOK ==
  /\ \A id \in TaskIds :
       /\ indices[id] # 0 => dag.ids[indices[id]] = id
       /\ \A n \in Nodes(dag) : dag.ids[n] = id => n <= indices[id]
  /\ \A e \in EdgeSet(dag) : indices[dag.ids[e[1]]] = e[1] /\ indices[dag.ids[e[2]]] = e[2]
  /\ builder = "spec" => DistinctIds(dag)

\* The dependencies that the second loop has been over.
Linked(i, j) ==
  /\ i \in DOMAIN spec /\ j \in DOMAIN spec[i].depends_on
  /\ i < t \/ (i = t /\ j < d)

\* Each of them is known and has an edge, no task names one twice, and there
\* is no other edge.
LinkedOK == pc \in {"edges", "ok"} =>
  /\ \A i, j : Linked(i, j) =>
       /\ From(i, j) # 0 /\ <<From(i, j), To(i)>> \in EdgeSet(dag)
       /\ \A k : Linked(i, k) /\ Dep(i, k) = Dep(i, j) => k = j
  /\ \A e \in EdgeSet(dag) : \E i, j : Linked(i, j) /\ e = <<From(i, j), To(i)>>

\* Acceptance is final, and so is refusal.
VerdictOK ==
  /\ pc = "ok" => TopoOrders(dag) # {}
  /\ pc = "err" /\ (builder = "spec" \/ DistinctSpec(spec)) => ~Acceptable(spec)

----------------------------------------------------------------------------
(* Types *)

LEMMA SpecFacts ==
  ASSUME NEW s \in Specs
  PROVE  /\ Len(s) \in Nat /\ DOMAIN s = 1..Len(s)
         /\ \A i \in DOMAIN s :
              /\ s[i].id \in TaskIds
              /\ Len(s[i].depends_on) \in Nat
              /\ DOMAIN s[i].depends_on = 1..Len(s[i].depends_on)
              /\ \A j \in DOMAIN s[i].depends_on : s[i].depends_on[j] \in TaskIds
<1> DEFINE T == [id : TaskIds, depends_on : Seq(TaskIds)]
<1>1. s \in Seq(T)
  BY SpecsAssumption
<1> HIDE DEF T
<1>2. Len(s) \in Nat /\ DOMAIN s = 1..Len(s) /\ \A i \in DOMAIN s : s[i] \in T
  BY <1>1
<1>3. \A i \in DOMAIN s : s[i].id \in TaskIds /\ s[i].depends_on \in Seq(TaskIds)
  BY <1>2 DEF T
<1>4. \A q \in Seq(TaskIds) : /\ Len(q) \in Nat /\ DOMAIN q = 1..Len(q)
                              /\ \A j \in DOMAIN q : q[j] \in TaskIds
  OBVIOUS
<1> QED  BY <1>2, <1>3, <1>4

LEMMA DagFacts ==
  ASSUME TypeOK
  PROVE  /\ Len(dag.ids) \in Nat /\ Nodes(dag) = 1..Len(dag.ids)
         /\ dag.ids \in [Nodes(dag) -> TaskIds]
         /\ EdgeSet(dag) \subseteq Nodes(dag) \X Nodes(dag)
         /\ \A id \in TaskIds : indices[id] = 0 \/ indices[id] \in Nodes(dag)
BY NodesOfDag DEF TypeOK, NodeCount

\* The indices the second loop reads are those of the tasks of the spec.
LEMMA DepFacts ==
  ASSUME TypeOK, HasDep
  PROVE  /\ t \in DOMAIN spec /\ d \in DOMAIN spec[t].depends_on
         /\ DepFrom = From(t, d) /\ DepTo = To(t)
         /\ Dep(t, d) \in TaskIds /\ spec[t].id \in TaskIds
<1>1. t \in DOMAIN spec
  BY SpecFacts DEF TypeOK, HasDep
<1>2. d \in DOMAIN spec[t].depends_on
  BY <1>1, SpecFacts DEF TypeOK, HasDep
<1> QED  BY <1>1, <1>2, SpecFacts DEF TypeOK, Dep, From, To, DepFrom, DepTo

\* After the first loop every task has a node.
LEMMA TaskNodes ==
  ASSUME TypeOK, NodesOK, IndicesOK, pc \in {"edges", "ok"}
  PROVE  \A i \in DOMAIN spec : i \in Nodes(dag) /\ dag.ids[i] = spec[i].id /\ To(i) \in Nodes(dag)
<1> SUFFICES ASSUME NEW i \in DOMAIN spec
             PROVE  i \in Nodes(dag) /\ dag.ids[i] = spec[i].id /\ To(i) \in Nodes(dag)
  OBVIOUS
<1>1. spec[i].id \in TaskIds /\ i \in 1..Len(spec) /\ Len(spec) \in Nat
  BY SpecFacts DEF TypeOK
<1>2. i \in Nodes(dag) /\ dag.ids[i] = spec[i].id
  BY <1>1, DagFacts DEF NodesOK
<1>3. i <= To(i)
  BY <1>1, <1>2 DEF IndicesOK, To
<1> QED  BY <1>1, <1>2, <1>3, DagFacts DEF To

LEMMA InitTypes == Init => TypeOK
<1> SUFFICES ASSUME Init PROVE TypeOK
  OBVIOUS
<1>1. IsDag(dag) /\ dag.ids = << >> /\ Nodes(dag) = {}
  BY NewDagType DEF Init, NewDag, Nodes
<1> QED  BY <1>1, SpecFacts DEF Init, TypeOK, Errors

LEMMA NextTypes == TypeOK /\ NodesOK /\ IndicesOK /\ [Next]_vars => TypeOK'
<1> SUFFICES ASSUME TypeOK, NodesOK, IndicesOK, [Next]_vars PROVE TypeOK'
  OBVIOUS
<1>1. CASE AddTask
  <2>1. t \in DOMAIN spec /\ spec[t].id \in TaskIds /\ Len(spec) \in Nat
    BY <1>1, SpecFacts DEF AddTask, TypeOK
  <2>2. IsDag(dag') /\ NodeCount(dag') = NodeCount(dag) + 1
    BY <1>1, <2>1, AddNodeType DEF AddTask, TypeOK
  <2>3. /\ Nodes(dag) = 1..NodeCount(dag) /\ NodeCount(dag) \in Nat
        /\ Nodes(dag') = 1..NodeCount(dag')
    BY <2>2, NodesOfDag DEF TypeOK
  <2>4. Nodes(dag) \subseteq Nodes(dag') /\ LastNode(dag') \in Nodes(dag')
    BY <2>2, <2>3 DEF LastNode
  <2>5. indices' \in [TaskIds -> {0} \cup Nodes(dag')]
    BY <1>1, <2>1, <2>4 DEF AddTask, TypeOK
  <2> QED  BY <1>1, <2>1, <2>2, <2>5 DEF AddTask, TypeOK
<1>2. CASE LinkDep
  <2>1. IsDag(dag') /\ Nodes(dag') = Nodes(dag)
    BY <1>2, AddEdgeType DEF LinkDep, TypeOK
  <2> QED  BY <1>2, <2>1 DEF LinkDep, TypeOK
<1>3. CASE RejectDuplicateId \/ RejectUnknownDep \/ RejectCycle
  BY <1>3 DEF RejectDuplicateId, RejectUnknownDep, RejectCycle, Fail, TypeOK, Errors
<1>4. CASE RejectEdge
  <2>1. AddEdgeError(dag, DepFrom, DepTo) \in {"UnknownNode", "DuplicateEdge", "None"}
    BY DEF AddEdgeError
  <2>2. {DepFrom, DepTo} \subseteq Nodes(dag)
    BY <1>4, DagFacts, DepFacts, TaskNodes DEF RejectEdge, HasDep, From
  <2> QED  BY <1>4, <2>1, <2>2 DEF RejectEdge, Fail, TypeOK, Errors, AddEdgeError
<1>5. CASE StartLinking \/ NextTask \/ Accept
  BY <1>5, SpecFacts DEF StartLinking, NextTask, Accept, TypeOK
<1>6. CASE UNCHANGED vars
  BY <1>6 DEF vars, TypeOK
<1> QED  BY <1>1, <1>2, <1>3, <1>4, <1>5, <1>6 DEF Next

----------------------------------------------------------------------------
(* The first loop *)

\* What AddTask adds to the dag and to the map.
LEMMA AddTaskFacts ==
  ASSUME TypeOK, NodesOK, AddTask
  PROVE  LET n == Len(dag.ids) + 1 IN
         /\ n = t /\ t \in DOMAIN spec /\ spec[t].id \in TaskIds
         /\ Nodes(dag') = Nodes(dag) \cup {n} /\ Len(dag.ids') = n
         /\ \A m \in Nodes(dag) : dag.ids'[m] = dag.ids[m]
         /\ dag.ids'[n] = spec[t].id
         /\ dag.edges' = << >> /\ EdgeSet(dag') = {} /\ EdgeSet(dag) = {}
         /\ \A id \in TaskIds : indices'[id] = IF id = spec[t].id THEN n ELSE indices[id]
<1>1. t \in DOMAIN spec /\ spec[t].id \in TaskIds /\ t = Len(dag.ids) + 1 /\ dag.edges = << >>
  BY SpecFacts DEF AddTask, TypeOK, NodesOK
<1>2. dag.ids \in Seq(TaskIds) /\ dag.ids' = Append(dag.ids, spec[t].id) /\ dag.edges' = << >>
  BY <1>1 DEF AddTask, AddNode, TypeOK, IsDag
<1>3. EdgeSet(dag') = {} /\ EdgeSet(dag) = {}
  BY <1>1, <1>2 DEF EdgeSet, Range
<1>4. /\ Len(dag.ids) \in Nat /\ Nodes(dag) = 1..Len(dag.ids)
      /\ Len(dag.ids') = Len(dag.ids) + 1 /\ Nodes(dag') = 1..(Len(dag.ids) + 1)
      /\ \A m \in Nodes(dag) : dag.ids'[m] = dag.ids[m]
      /\ dag.ids'[Len(dag.ids) + 1] = spec[t].id
  BY <1>1, <1>2 DEF Nodes
<1>5. \A id \in TaskIds : indices'[id] = IF id = spec[t].id THEN Len(dag.ids) + 1 ELSE indices[id]
  BY <1>1, <1>4 DEF AddTask, TypeOK, LastNode, NodeCount
<1> QED  BY <1>1, <1>2, <1>3, <1>4, <1>5

\* What LinkDep adds.
LEMMA LinkDepFacts ==
  ASSUME TypeOK, LinkDep
  PROVE  /\ t \in DOMAIN spec /\ d \in DOMAIN spec[t].depends_on
         /\ Dep(t, d) \in TaskIds /\ spec[t].id \in TaskIds
         /\ From(t, d) # 0 /\ <<From(t, d), To(t)>> \notin EdgeSet(dag)
         /\ dag.ids' = dag.ids /\ Nodes(dag') = Nodes(dag)
         /\ EdgeSet(dag') = EdgeSet(dag) \cup {<<From(t, d), To(t)>>}
         /\ UNCHANGED <<builder, spec, pc, t, indices, error>> /\ d' = d + 1
<1>1. HasDep /\ DepFrom # 0 /\ AddEdgeError(dag, DepFrom, DepTo) = "None"
  BY DEF LinkDep
<1>2. dag' = AddEdge(dag, DepFrom, DepTo) /\ IsDag(dag)
  BY DEF LinkDep, TypeOK
<1>3. <<DepFrom, DepTo>> \notin EdgeSet(dag)
  BY <1>1 DEF AddEdgeError
<1>4. Nodes(dag') = Nodes(dag) /\ EdgeSet(dag') = EdgeSet(dag) \cup {<<DepFrom, DepTo>>}
  BY <1>1, <1>2, AddEdgeType
<1>5. dag.ids' = dag.ids
  BY <1>2 DEF AddEdge
<1>6. UNCHANGED <<builder, spec, pc, t, indices, error>> /\ d' = d + 1
  BY DEF LinkDep
<1>7. /\ t \in DOMAIN spec /\ d \in DOMAIN spec[t].depends_on
      /\ DepFrom = From(t, d) /\ DepTo = To(t)
      /\ Dep(t, d) \in TaskIds /\ spec[t].id \in TaskIds
  BY <1>1, DepFacts
<1> QED  BY <1>1, <1>3, <1>4, <1>5, <1>6, <1>7

LEMMA InitNodes == Init => NodesOK /\ IndicesOK
<1> SUFFICES ASSUME Init PROVE NodesOK /\ IndicesOK
  OBVIOUS
<1>1. dag.ids = << >> /\ dag.edges = << >> /\ Nodes(dag) = {} /\ EdgeSet(dag) = {}
  BY DEF Init, NewDag, Nodes, EdgeSet, Range
<1>2. DistinctIds(dag)
  BY <1>1 DEF DistinctIds, IsInjective
<1> QED  BY <1>1, <1>2, SpecFacts DEF Init, NodesOK, IndicesOK

LEMMA NextNodes == TypeOK /\ NodesOK /\ [Next]_vars => NodesOK'
<1> SUFFICES ASSUME TypeOK, NodesOK, [Next]_vars PROVE NodesOK'
  OBVIOUS
<1>1. CASE AddTask
  BY <1>1, AddTaskFacts, SpecFacts DEF AddTask, NodesOK, TypeOK
<1>2. CASE LinkDep
  BY <1>2, LinkDepFacts DEF LinkDep, HasDep, NodesOK
<1>3. CASE RejectDuplicateId \/ RejectUnknownDep \/ RejectEdge \/ RejectCycle
  BY <1>3 DEF RejectDuplicateId, RejectUnknownDep, RejectEdge, RejectCycle, Fail, NodesOK
<1>4. CASE StartLinking \/ NextTask \/ Accept
  <2>1. Len(spec) \in Nat /\ t \in 1..(Len(spec) + 1)
    BY SpecFacts DEF TypeOK
  <2> QED  BY <1>4, <2>1 DEF StartLinking, NextTask, Accept, NodesOK
<1>5. CASE UNCHANGED vars
  BY <1>5 DEF vars, NodesOK
<1> QED  BY <1>1, <1>2, <1>3, <1>4, <1>5 DEF Next

LEMMA NextIndices == TypeOK /\ NodesOK /\ IndicesOK /\ [Next]_vars => IndicesOK'
<1> SUFFICES ASSUME TypeOK, NodesOK, IndicesOK, [Next]_vars PROVE IndicesOK'
  OBVIOUS
<1>1. CASE AddTask
  <2> DEFINE n == Len(dag.ids) + 1
             new == spec[t].id
  <2>1. /\ Nodes(dag') = Nodes(dag) \cup {n} /\ new \in TaskIds
        /\ \A m \in Nodes(dag) : dag.ids'[m] = dag.ids[m]
        /\ dag.ids'[n] = new /\ EdgeSet(dag') = {}
        /\ \A id \in TaskIds : indices'[id] = IF id = new THEN n ELSE indices[id]
    BY <1>1, AddTaskFacts
  <2>2. /\ \A m \in Nodes(dag) : m \in Nat /\ 0 < m /\ m < n
        /\ n \in Nat /\ n # 0
        /\ \A id \in TaskIds : indices[id] = 0 \/ indices[id] \in Nodes(dag)
    BY DagFacts
  <2> HIDE DEF n, new
  <2>3. \A id \in TaskIds :
          /\ indices'[id] # 0 => dag.ids'[indices'[id]] = id
          /\ \A m \in Nodes(dag') : dag.ids'[m] = id => m <= indices'[id]
    BY <2>1, <2>2 DEF IndicesOK
  <2>4. ASSUME builder' = "spec" PROVE DistinctIds(dag')
    <3>1. builder = "spec" /\ indices[new] = 0
      BY <1>1, <2>4 DEF AddTask, new
    <3>2. \A m \in Nodes(dag) : dag.ids[m] # new
      BY <2>1, <2>2, <3>1 DEF IndicesOK
    <3>3. \A l, m \in Nodes(dag) : dag.ids[l] = dag.ids[m] => l = m
      BY <3>1 DEF IndicesOK, DistinctIds, IsInjective, Nodes
    <3>4. \A l, m \in Nodes(dag') : dag.ids'[l] = dag.ids'[m] => l = m
      BY <2>1, <3>2, <3>3
    <3> QED  BY <3>4 DEF DistinctIds, IsInjective, Nodes
  <2> QED  BY <2>1, <2>3, <2>4 DEF IndicesOK
<1>2. CASE LinkDep
  <2>1. /\ indices[dag.ids[From(t, d)]] = From(t, d)
        /\ indices[dag.ids[To(t)]] = To(t)
    <3>1. pc = "edges" /\ To(t) \in Nodes(dag)
      BY <1>2, LinkDepFacts, TaskNodes DEF LinkDep, HasDep
    <3> QED  BY <1>2, <3>1, LinkDepFacts, DagFacts DEF IndicesOK, From, To
  <2> QED  BY <1>2, <2>1, LinkDepFacts DEF IndicesOK, DistinctIds
<1>3. CASE UNCHANGED <<builder, dag, indices>>
  BY <1>3 DEF IndicesOK
<1> QED  BY <1>1, <1>2, <1>3 DEF Next, vars, RejectDuplicateId, RejectUnknownDep, RejectEdge,
            RejectCycle, Fail, StartLinking, NextTask, Accept

LEMMA TypesCorrect == Spec => [](TypeOK /\ NodesOK /\ IndicesOK)
<1>1. TypeOK /\ NodesOK /\ IndicesOK /\ [Next]_vars => (TypeOK /\ NodesOK /\ IndicesOK)'
  BY NextTypes, NextNodes, NextIndices
<1> QED  BY <1>1, InitTypes, InitNodes, PTL DEF Spec

\* The types: the dag is always one that add_node and add_edge can produce,
\* and add_edge never fails on an unknown node (dag-core/src/lib.rs:76-98).
THEOREM TypesAreKept == Spec => []TypeOK
BY TypesCorrect, PTL

----------------------------------------------------------------------------
(* The second loop *)

LEMMA NextLinked == TypeOK /\ NodesOK /\ IndicesOK /\ LinkedOK /\ [Next]_vars => LinkedOK'
<1> SUFFICES ASSUME TypeOK, NodesOK, IndicesOK, LinkedOK, [Next]_vars PROVE LinkedOK'
  OBVIOUS
<1>0. /\ Len(spec) \in Nat /\ DOMAIN spec = 1..Len(spec) /\ t \in Nat /\ d \in Nat
      /\ \A i \in DOMAIN spec : /\ Len(spec[i].depends_on) \in Nat
                                /\ DOMAIN spec[i].depends_on = 1..Len(spec[i].depends_on)
  BY SpecFacts DEF TypeOK
<1>1. CASE StartLinking
  <2>1. spec' = spec /\ t' = 1 /\ d' = 1 /\ EdgeSet(dag') = {}
    BY <1>1 DEF StartLinking, NodesOK, EdgeSet, Range
  <2>2. \A i, j : ~Linked(i, j)'
    BY <1>0, <2>1 DEF Linked
  <2> QED  BY <2>1, <2>2 DEF LinkedOK
<1>2. CASE LinkDep
  <2>1. /\ t \in DOMAIN spec /\ d \in DOMAIN spec[t].depends_on
        /\ From(t, d) # 0 /\ <<From(t, d), To(t)>> \notin EdgeSet(dag)
        /\ EdgeSet(dag') = EdgeSet(dag) \cup {<<From(t, d), To(t)>>}
        /\ UNCHANGED <<spec, pc, t, indices>> /\ d' = d + 1 /\ pc = "edges"
    BY <1>2, LinkDepFacts DEF LinkDep, HasDep
  <2>2. \A i, j : /\ Dep(i, j)' = Dep(i, j) /\ From(i, j)' = From(i, j) /\ To(i)' = To(i)
                  /\ Linked(i, j)' <=> Linked(i, j) \/ (i = t /\ j = d)
    BY <1>0, <2>1 DEF Linked, Dep, From, To
  <2>3. \A i, j : Linked(i, j) =>
          /\ From(i, j) # 0 /\ <<From(i, j), To(i)>> \in EdgeSet(dag)
          /\ \A k : Linked(i, k) /\ Dep(i, k) = Dep(i, j) => k = j
    BY <2>1 DEF LinkedOK
  <2>4. \A j : Linked(t, j) => Dep(t, j) # Dep(t, d)
    BY <2>1, <2>3 DEF From
  <2>5. \A i, j : Linked(i, j)' =>
          /\ From(i, j)' # 0 /\ <<From(i, j)', To(i)'>> \in EdgeSet(dag')
          /\ \A k : Linked(i, k)' /\ Dep(i, k)' = Dep(i, j)' => k = j
    BY <2>1, <2>2, <2>3, <2>4
  <2>6. \A e \in EdgeSet(dag') : \E i, j : Linked(i, j)' /\ e = <<From(i, j)', To(i)'>>
    BY <2>1, <2>2 DEF LinkedOK
  <2> QED  BY <2>5, <2>6 DEF LinkedOK
<1>3. CASE NextTask
  <2>1. UNCHANGED <<spec, pc, indices, dag>> /\ t' = t + 1 /\ d' = 1 /\ pc = "edges"
        /\ d > Len(spec[t].depends_on)
    BY <1>3 DEF NextTask
  <2>2. \A i, j : /\ Dep(i, j)' = Dep(i, j) /\ From(i, j)' = From(i, j) /\ To(i)' = To(i)
                  /\ Linked(i, j)' <=> Linked(i, j)
    BY <1>0, <2>1 DEF Linked, Dep, From, To
  <2> QED  BY <2>1, <2>2 DEF LinkedOK
<1>4. CASE Accept \/ UNCHANGED vars
  <2>1. UNCHANGED <<spec, t, d, indices, dag>> /\ (pc' \in {"edges", "ok"} => pc \in {"edges", "ok"})
    BY <1>4 DEF Accept, vars
  <2> QED  BY <2>1 DEF LinkedOK, Linked, Dep, From, To
<1>5. CASE pc' \in {"nodes", "err"}
  BY <1>5 DEF LinkedOK
<1> QED  BY <1>1, <1>2, <1>3, <1>4, <1>5
         DEF Next, RejectDuplicateId, AddTask, RejectUnknownDep, RejectEdge, RejectCycle, Fail

\* An edge of the dag stands for a dependency of the spec.
LEMMA EdgesAreDeclared ==
  ASSUME TypeOK, NodesOK, IndicesOK, LinkedOK, pc \in {"edges", "ok"},
         NEW e \in EdgeSet(dag)
  PROVE  IdEdge(dag, e) \in DeclaredEdges(spec)
<1>1. PICK i, j : Linked(i, j) /\ e = <<From(i, j), To(i)>>
  BY DEF LinkedOK
<1>2. /\ i \in DOMAIN spec /\ j \in DOMAIN spec[i].depends_on /\ From(i, j) # 0
      /\ Dep(i, j) \in TaskIds /\ spec[i].id \in TaskIds
  BY <1>1, SpecFacts DEF Linked, LinkedOK, TypeOK, Dep
<1>3. dag.ids[From(i, j)] = Dep(i, j)
  BY <1>2 DEF IndicesOK, From
<1>4. dag.ids[To(i)] = spec[i].id
  <2>1. To(i) # 0
    BY <1>2, TaskNodes, DagFacts
  <2> QED  BY <1>2, <2>1 DEF IndicesOK, To
<1>5. IdEdge(dag, e) = <<Dep(i, j), spec[i].id>>
  BY <1>1, <1>3, <1>4 DEF IdEdge
<1> QED  BY <1>2, <1>5 DEF DeclaredEdges, Deps, Range, Dep

----------------------------------------------------------------------------
(* The verdict *)

\* On a cycle some edge leads to a task of the least rank.
LEMMA CyclicIsUnacceptable ==
  ASSUME TypeOK, NodesOK, IndicesOK, LinkedOK, pc = "edges", IsCyclicDirected(dag)
  PROVE  ~Acceptable(spec)
<1> SUFFICES ASSUME NEW rank \in [Range(SpecIds(spec)) -> DOMAIN spec],
                    \A e \in DeclaredEdges(spec) : e[1] \in DOMAIN rank /\ rank[e[1]] < rank[e[2]]
             PROVE  FALSE
  BY DEF Acceptable
<1>1. PICK S \in SUBSET Nodes(dag) : S # {} /\ HasParentWithin(dag, S)
  BY DEF IsCyclicDirected
<1>2. \A n \in Nodes(dag) : dag.ids[n] \in Range(SpecIds(spec))
  BY DEF NodesOK, SpecIds, Range
<1> DEFINE R == {rank[dag.ids[n]] : n \in S}
<1>3. \A n \in S : rank[dag.ids[n]] \in Nat
  BY <1>2, SpecFacts DEF TypeOK
<1>4. R \subseteq Nat /\ R # {}
  BY <1>1, <1>3
<1>5. PICK r \in R : \A q \in R : r <= q
  <2> HIDE DEF R
  <2> QED  BY <1>4, LeastNat
<1>6. PICK n \in S : r = rank[dag.ids[n]]
  OBVIOUS
<1>7. PICK m \in S : m \in Parents(dag, n)
  BY <1>1 DEF HasParentWithin
<1>8. <<dag.ids[m], dag.ids[n]>> \in DeclaredEdges(spec)
  BY <1>7, EdgesAreDeclared DEF Parents, IdEdge
<1>9. rank[dag.ids[m]] < r /\ rank[dag.ids[m]] \in R
  BY <1>6, <1>8
<1> QED  BY <1>3, <1>5, <1>6, <1>9

\* Positions in a topological order are a rank.
LEMMA SortedIsAcceptable ==
  ASSUME TypeOK, NodesOK, IndicesOK, LinkedOK, pc = "ok", TopoOrders(dag) # {},
         builder = "spec" \/ DistinctSpec(spec)
  PROVE  Acceptable(spec)
<1>1. /\ Len(spec) \in Nat /\ DOMAIN spec = 1..Len(spec) /\ t \in Nat /\ t > Len(spec)
      /\ Nodes(dag) = DOMAIN spec /\ \A i \in DOMAIN spec : dag.ids[i] = spec[i].id
  BY SpecFacts, DagFacts DEF TypeOK, NodesOK
<1>2. \A i, j : i \in DOMAIN spec /\ j \in DOMAIN spec[i].depends_on => Linked(i, j)
  BY <1>1 DEF Linked
<1>3. DistinctSpec(spec)
  <2>1. CASE builder = "spec"
    BY <1>1, <2>1 DEF IndicesOK, DistinctIds, DistinctSpec, SpecIds, IsInjective, Nodes
  <2> QED  BY <2>1
<1>4. \A i \in DOMAIN spec : IsInjective(spec[i].depends_on)
  BY <1>2 DEF LinkedOK, IsInjective, Dep
<1>5. PICK o \in TopoOrders(dag) : TRUE
  OBVIOUS
<1>6. /\ \A n \in Nodes(dag) : \E i \in Nodes(dag) : o[i] = n
      /\ \A i, j \in Nodes(dag) : <<o[i], o[j]>> \in EdgeSet(dag) => i < j
  BY <1>5 DEF TopoOrders, IsTopoOrder, Bijection, Surjection
<1> DEFINE Ranked == Range(SpecIds(spec))
           rank == [id \in Ranked |-> CHOOSE i \in DOMAIN spec : o[i] = indices[id]]
<1>7. \A id \in Ranked : id \in TaskIds /\ indices[id] \in Nodes(dag)
  BY SpecFacts, TaskNodes DEF TypeOK, SpecIds, Range, To
<1>8. \A id \in Ranked : rank[id] \in DOMAIN spec /\ o[rank[id]] = indices[id]
  BY <1>1, <1>6, <1>7
<1> HIDE DEF rank
<1>9. ASSUME NEW e \in DeclaredEdges(spec)
      PROVE  e[1] \in Ranked /\ rank[e[1]] < rank[e[2]]
  <2>1. PICK i \in DOMAIN spec : \E dep \in Deps(spec, i) : e = <<dep, spec[i].id>>
    BY DEF DeclaredEdges
  <2>2. PICK j \in DOMAIN spec[i].depends_on : e = <<Dep(i, j), spec[i].id>>
    BY <2>1 DEF Deps, Range, Dep
  <2>3. From(i, j) # 0 /\ <<From(i, j), To(i)>> \in EdgeSet(dag)
    BY <1>2 DEF LinkedOK
  <2>4. Dep(i, j) \in TaskIds
    BY SpecFacts DEF TypeOK, Dep
  <2>5. From(i, j) \in Nodes(dag) /\ dag.ids[From(i, j)] = Dep(i, j)
    BY <2>3, <2>4, DagFacts DEF IndicesOK, From
  <2>6. e[1] \in Ranked /\ e[2] \in Ranked
    BY <1>1, <2>2, <2>5 DEF SpecIds, Range
  <2>7. <<o[rank[e[1]]], o[rank[e[2]]]>> \in EdgeSet(dag)
    BY <1>8, <2>2, <2>3, <2>6 DEF From, To
  <2> QED  BY <1>1, <1>6, <1>8, <2>6, <2>7
<1>10. rank \in [Ranked -> DOMAIN spec]
  BY <1>8 DEF rank
<1> QED  BY <1>3, <1>4, <1>9, <1>10 DEF Acceptable

LEMMA FinalCheckFacts ==
  ASSUME TypeOK
  PROVE  /\ FinalCheckOk => TopoOrders(dag) # {}
         /\ ~FinalCheckOk => IsCyclicDirected(dag)
<1>1. IsDag(dag)
  BY DEF TypeOK
<1>2. ~IsCyclicDirected(dag) => TopoOrders(dag) # {}
  BY <1>1, AcyclicHasTopoOrder
<1> QED  BY <1>2 DEF FinalCheckOk, CycleCheckOk, TopoSortOk

\* The first loop refuses an id that an earlier task has.
LEMMA DuplicateIsUnacceptable ==
  ASSUME TypeOK, NodesOK, IndicesOK, RejectDuplicateId
  PROVE  ~Acceptable(spec)
<1>1. t \in DOMAIN spec /\ spec[t].id \in TaskIds /\ Len(dag.ids) = t - 1
  BY SpecFacts DEF RejectDuplicateId, TypeOK, NodesOK
<1> DEFINE n == indices[spec[t].id]
<1>2. n # 0 /\ n \in Nodes(dag) /\ dag.ids[n] = spec[t].id
  BY <1>1, DagFacts DEF RejectDuplicateId, IndicesOK
<1>3. n \in DOMAIN spec /\ spec[n].id = spec[t].id /\ n < t
  BY <1>1, <1>2, DagFacts DEF NodesOK, TypeOK
<1> QED  BY <1>1, <1>3, SpecFacts DEF TypeOK, Acceptable, DistinctSpec, SpecIds, IsInjective

\* The second loop refuses a dependency that no task has for its id.
LEMMA UnknownIsUnacceptable ==
  ASSUME TypeOK, NodesOK, IndicesOK, RejectUnknownDep
  PROVE  ~Acceptable(spec)
<1> DEFINE dep == Dep(t, d)
<1>1. pc = "edges" /\ t \in DOMAIN spec /\ d \in DOMAIN spec[t].depends_on
      /\ dep \in TaskIds /\ indices[dep] = 0
  BY DepFacts DEF RejectUnknownDep, HasDep, From
<1>2. \A i \in DOMAIN spec : spec[i].id # dep
  BY <1>1, TaskNodes, DagFacts DEF IndicesOK
<1>3. dep \notin Range(SpecIds(spec))
  BY <1>2 DEF SpecIds, Range
<1>4. <<dep, spec[t].id>> \in DeclaredEdges(spec)
  BY <1>1 DEF DeclaredEdges, Deps, Range, Dep
<1> QED  BY <1>3, <1>4 DEF Acceptable

\* An edge that is there already comes from the same task and dependency.
LEMMA RepeatedIsUnacceptable ==
  ASSUME TypeOK, NodesOK, IndicesOK, LinkedOK, RejectEdge
  PROVE  ~Acceptable(spec)
<1> SUFFICES ASSUME DistinctSpec(spec), \A i \in DOMAIN spec : IsInjective(spec[i].depends_on)
             PROVE  FALSE
  BY DEF Acceptable
<1>1. pc = "edges" /\ t \in DOMAIN spec /\ d \in DOMAIN spec[t].depends_on
      /\ Dep(t, d) \in TaskIds /\ spec[t].id \in TaskIds
      /\ From(t, d) # 0 /\ AddEdgeError(dag, From(t, d), To(t)) # "None"
  BY DepFacts DEF RejectEdge, HasDep
<1>2. From(t, d) \in Nodes(dag) /\ To(t) \in Nodes(dag)
  BY <1>1, DagFacts, TaskNodes DEF From
<1>3. <<From(t, d), To(t)>> \in EdgeSet(dag)
  BY <1>1, <1>2 DEF AddEdgeError
<1>4. PICK i, j : Linked(i, j) /\ <<From(t, d), To(t)>> = <<From(i, j), To(i)>>
  BY <1>1, <1>3 DEF LinkedOK
<1>5. i \in DOMAIN spec /\ j \in DOMAIN spec[i].depends_on
      /\ Dep(i, j) \in TaskIds /\ spec[i].id \in TaskIds
  BY <1>4, SpecFacts DEF Linked, TypeOK, Dep
<1>6. Dep(i, j) = Dep(t, d)
  BY <1>1, <1>4, <1>5 DEF IndicesOK, From
<1>7. spec[i].id = spec[t].id
  <2>1. To(t) # 0
    BY <1>2, DagFacts
  <2> QED  BY <1>1, <1>4, <1>5, <2>1 DEF IndicesOK, To
<1>8. i = t
  BY <1>1, <1>5, <1>7 DEF DistinctSpec, SpecIds, IsInjective
<1>9. j = d
  BY <1>1, <1>5, <1>6, <1>8 DEF IsInjective, Dep
<1> QED  BY <1>4, <1>8, <1>9, SpecFacts DEF Linked, TypeOK

LEMMA NextVerdict ==
  TypeOK /\ NodesOK /\ IndicesOK /\ LinkedOK /\ VerdictOK /\ [Next]_vars => VerdictOK'
<1> SUFFICES ASSUME TypeOK, NodesOK, IndicesOK, LinkedOK, VerdictOK, [Next]_vars
             PROVE  VerdictOK'
  OBVIOUS
<1>1. CASE RejectDuplicateId \/ RejectUnknownDep \/ RejectEdge \/ RejectCycle
  <2>1. pc' = "err" /\ spec' = spec
    BY <1>1 DEF RejectDuplicateId, RejectUnknownDep, RejectEdge, RejectCycle, Fail
  <2>2. ~Acceptable(spec)
    <3>1. RejectCycle => pc = "edges" /\ IsCyclicDirected(dag)
      BY FinalCheckFacts DEF RejectCycle
    <3> QED  BY <1>1, <3>1, DuplicateIsUnacceptable, UnknownIsUnacceptable,
                RepeatedIsUnacceptable, CyclicIsUnacceptable
  <2>3. Acceptable(spec)' = Acceptable(spec)
    BY <2>1 DEF Acceptable, DistinctSpec, DeclaredEdges, Deps, SpecIds
  <2> QED  BY <2>1, <2>2, <2>3 DEF VerdictOK
<1>2. CASE Accept
  BY <1>2, FinalCheckFacts DEF Accept, VerdictOK
<1>3. CASE AddTask \/ StartLinking \/ LinkDep \/ NextTask
  BY <1>3 DEF AddTask, StartLinking, LinkDep, HasDep, NextTask, VerdictOK
<1>4. CASE UNCHANGED vars
  BY <1>4 DEF vars, VerdictOK, Acceptable, DistinctSpec, DeclaredEdges, Deps, SpecIds
<1> QED  BY <1>1, <1>2, <1>3, <1>4 DEF Next

IInv == TypeOK /\ NodesOK /\ IndicesOK /\ LinkedOK /\ VerdictOK

\* The builders' invariant: at every position of the two loops the map, the
\* nodes and the edges are those of the tasks and dependencies gone over
\* (dag-core/src/lib.rs:251-286, dag-cli/src/main.rs:84-106).
THEOREM Inductive == Spec => []IInv
<1>1. Init => LinkedOK /\ VerdictOK
  BY DEF Init, LinkedOK, VerdictOK
<1>2. TypeOK /\ NodesOK /\ IndicesOK /\ LinkedOK /\ VerdictOK /\ [Next]_vars
      => (LinkedOK /\ VerdictOK)'
  BY NextLinked, NextVerdict
<1>3. Init => LinkedOK /\ VerdictOK
  BY <1>1
<1> QED  BY <1>2, <1>3, TypesCorrect, PTL DEF Spec, IInv

\* A builder accepts exactly the acceptable specs, so that validate, run,
\* backfill and forjar agree on every spec with distinct ids.
THEOREM VerdictsAreRight == Spec => []VerdictIsRight
<1>1. IInv => VerdictIsRight
  BY SortedIsAcceptable DEF IInv, VerdictOK, VerdictIsRight
<1> QED  BY <1>1, Inductive, PTL

\* contracts no_cycles and edge_direction_correct: a dag that any builder
\* returns has a topological order and no self-loop.
THEOREM DagsAreRunnable == Spec => []DagIsRunnable
<1>1. ASSUME IInv, pc = "ok" PROVE DagIsRunnable
  <2>1. PICK o \in TopoOrders(dag) : TRUE
    BY <1>1 DEF IInv, VerdictOK
  <2>2. /\ \A n \in Nodes(dag) : \E i \in Nodes(dag) : o[i] = n
        /\ \A i, j \in Nodes(dag) : <<o[i], o[j]>> \in EdgeSet(dag) => i < j
    BY <2>1 DEF TopoOrders, IsTopoOrder, Bijection, Surjection
  <2>3. Nodes(dag) \subseteq Nat /\ EdgeSet(dag) \subseteq Nodes(dag) \X Nodes(dag)
    BY <1>1, DagFacts DEF IInv
  <2>4. \A e \in EdgeSet(dag) : e[1] # e[2]
    <3> SUFFICES ASSUME NEW n \in Nodes(dag), <<n, n>> \in EdgeSet(dag) PROVE FALSE
      BY <2>3
    <3>1. PICK i \in Nodes(dag) : o[i] = n
      BY <2>2
    <3> QED  BY <2>2, <2>3, <3>1
  <2> QED  BY <2>1, <2>4 DEF DagIsRunnable
<1>2. IInv => DagIsRunnable
  BY <1>1 DEF DagIsRunnable
<1> QED  BY <1>2, Inductive, PTL

----------------------------------------------------------------------------
(* What the dag is *)

\* The map gives the last task of each id of the spec.
LEMMA IndexIsLast ==
  ASSUME TypeOK, NodesOK, IndicesOK, pc \in {"edges", "ok"}, NEW id \in TaskIds, indices[id] # 0
  PROVE  id \in Range(SpecIds(spec)) /\ LastOf(spec, id) = indices[id]
<1> DEFINE n == indices[id]
           IsLast(i) == spec[i].id = id /\ \A j \in DOMAIN spec : spec[j].id = id => j <= i
<1>1. /\ n \in DOMAIN spec /\ spec[n].id = id
      /\ \A j \in DOMAIN spec : j \in Nodes(dag) /\ dag.ids[j] = spec[j].id
      /\ DOMAIN spec \subseteq Nat
  BY DagFacts, TaskNodes, SpecFacts DEF IndicesOK, NodesOK, TypeOK
<1>2. IsLast(n)
  BY <1>1 DEF IndicesOK
<1>3. \A i \in DOMAIN spec : IsLast(i) => i = n
  <2> SUFFICES ASSUME NEW i \in DOMAIN spec, IsLast(i) PROVE i = n
    OBVIOUS
  <2>1. i <= n /\ n <= i
    BY <1>1, <1>2
  <2> HIDE DEF n
  <2> QED  BY <1>1, <2>1
<1>4. (CHOOSE i \in DOMAIN spec : IsLast(i)) = n
  <2> HIDE DEF IsLast, n
  <2> QED  BY <1>1, <1>2, <1>3
<1> QED  BY <1>1, <1>4 DEF LastOf, SpecIds, Range

\* The ids at the ends of an edge tell which edge it is.
LEMMA EdgesAreCounted ==
  ASSUME TypeOK, IndicesOK
  PROVE  Len(dag.edges) = Cardinality(IdEdges(dag))
<1> DEFINE n == Len(dag.edges)
           f == [i \in 1..n |-> IdEdge(dag, dag.edges[i])]
<1>1. /\ n \in Nat /\ DOMAIN dag.edges = 1..n
      /\ \A i \in 1..n : dag.edges[i] \in Nodes(dag) \X Nodes(dag)
      /\ \A i, j \in 1..n : dag.edges[i] = dag.edges[j] => i = j
  BY DEF TypeOK, IsDag, IsInjective
<1>2. IdEdges(dag) = {f[i] : i \in 1..n}
  BY <1>1 DEF IdEdges, EdgeSet, Range
<1>3. ASSUME NEW i \in 1..n, NEW j \in 1..n, f[i] = f[j] PROVE i = j
  <2>1. PICK a \in Nodes(dag), b \in Nodes(dag) : dag.edges[i] = <<a, b>>
    BY <1>1
  <2>2. PICK c \in Nodes(dag), e \in Nodes(dag) : dag.edges[j] = <<c, e>>
    BY <1>1
  <2>3. dag.ids[a] = dag.ids[c] /\ dag.ids[b] = dag.ids[e]
    BY <1>3, <2>1, <2>2 DEF IdEdge
  <2>4. a = c /\ b = e
    <3>1. <<a, b>> \in EdgeSet(dag) /\ <<c, e>> \in EdgeSet(dag)
      BY <1>1, <2>1, <2>2 DEF EdgeSet, Range
    <3> QED  BY <2>3, <3>1 DEF IndicesOK
  <2> QED  BY <1>1, <2>1, <2>2, <2>4
<1> HIDE DEF f
<1>4. f \in [1..n -> IdEdges(dag)]
  BY <1>2 DEF f
<1>5. f \in Bijection(1..n, IdEdges(dag))
  BY <1>2, <1>3, <1>4 DEF Bijection, Injection, Surjection, IsInjective
<1> QED  BY <1>1, <1>5, FS_CountingElements DEF ExistsBijection

\* What a builder returns when it accepts, in terms of the spec.
LEMMA AcceptedDag ==
  ASSUME IInv, pc = "ok"
  PROVE  /\ dag.ids = SpecIds(spec)
         /\ \A e \in DeclaredEdges(spec) :
              /\ e[1] \in Range(SpecIds(spec))
              /\ <<LastOf(spec, e[1]), LastOf(spec, e[2])>> \in EdgeSet(dag)
         /\ \A x \in EdgeSet(dag) : \E e \in DeclaredEdges(spec) :
              x = <<LastOf(spec, e[1]), LastOf(spec, e[2])>>
         /\ IdEdges(dag) = DeclaredEdges(spec)
<1> USE DEF IInv
<1>1. /\ Len(spec) \in Nat /\ DOMAIN spec = 1..Len(spec) /\ t \in Nat /\ t > Len(spec)
      /\ DOMAIN dag.ids = DOMAIN spec /\ \A i \in DOMAIN spec : dag.ids[i] = spec[i].id
  BY SpecFacts, DagFacts DEF TypeOK, NodesOK, Nodes
<1>2. dag.ids = SpecIds(spec)
  <2>1. dag.ids = [i \in DOMAIN dag.ids |-> dag.ids[i]]
    BY DEF TypeOK, IsDag
  <2> QED  BY <1>1, <2>1 DEF SpecIds
<1>3. \A i, j : i \in DOMAIN spec /\ j \in DOMAIN spec[i].depends_on => Linked(i, j)
  BY <1>1 DEF Linked
\* A dependency and its edge.
<1>4. ASSUME NEW i \in DOMAIN spec, NEW j \in DOMAIN spec[i].depends_on
      PROVE  LET e == <<Dep(i, j), spec[i].id>>
                 x == <<From(i, j), To(i)>>
             IN /\ e[1] \in Range(SpecIds(spec)) /\ e \in DeclaredEdges(spec)
                /\ x = <<LastOf(spec, e[1]), LastOf(spec, e[2])>>
                /\ x \in EdgeSet(dag) /\ IdEdge(dag, x) = e
  <2>1. From(i, j) # 0 /\ <<From(i, j), To(i)>> \in EdgeSet(dag)
    BY <1>3 DEF LinkedOK
  <2>2. Dep(i, j) \in TaskIds /\ spec[i].id \in TaskIds /\ To(i) # 0
    BY SpecFacts, TaskNodes, DagFacts DEF TypeOK, Dep
  <2>3. /\ Dep(i, j) \in Range(SpecIds(spec))
        /\ LastOf(spec, Dep(i, j)) = From(i, j) /\ LastOf(spec, spec[i].id) = To(i)
    BY <2>1, <2>2, IndexIsLast DEF From, To
  <2>4. dag.ids[From(i, j)] = Dep(i, j) /\ dag.ids[To(i)] = spec[i].id
    BY <2>1, <2>2 DEF IndicesOK, From, To
  <2>5. <<Dep(i, j), spec[i].id>> \in DeclaredEdges(spec)
    BY DEF DeclaredEdges, Deps, Range, Dep
  <2> QED  BY <2>1, <2>3, <2>4, <2>5 DEF IdEdge
<1>5. ASSUME NEW e \in DeclaredEdges(spec)
      PROVE  /\ e[1] \in Range(SpecIds(spec))
             /\ <<LastOf(spec, e[1]), LastOf(spec, e[2])>> \in EdgeSet(dag)
             /\ e \in IdEdges(dag)
  <2>1. PICK i \in DOMAIN spec : \E dep \in Deps(spec, i) : e = <<dep, spec[i].id>>
    BY DEF DeclaredEdges
  <2>2. PICK j \in DOMAIN spec[i].depends_on : e = <<Dep(i, j), spec[i].id>>
    BY <2>1 DEF Deps, Range, Dep
  <2> QED  BY <1>4, <2>2 DEF IdEdges
<1>6. ASSUME NEW x \in EdgeSet(dag)
      PROVE  \E e \in DeclaredEdges(spec) :
               x = <<LastOf(spec, e[1]), LastOf(spec, e[2])>> /\ IdEdge(dag, x) = e
  <2>1. PICK i, j : Linked(i, j) /\ x = <<From(i, j), To(i)>>
    BY DEF LinkedOK
  <2>2. i \in DOMAIN spec /\ j \in DOMAIN spec[i].depends_on
    BY <2>1 DEF Linked
  <2> QED  BY <1>4, <2>1, <2>2
<1>7. IdEdges(dag) = DeclaredEdges(spec)
  BY <1>5, <1>6 DEF IdEdges
<1> QED  BY <1>2, <1>5, <1>6, <1>7

\* The dag returned is the one the spec declares: its tasks in their order, and
\* its dependencies as edges, each added once, between the last tasks of the two
\* ids (lib.rs:227-258, main.rs:213-233).
THEOREM DagsAreDeclared == Spec => []DagIsDeclared
<1>1. ASSUME IInv, pc = "ok" PROVE DagIsDeclared
  <2>1. EdgeSet(dag) = {<<LastOf(spec, e[1]), LastOf(spec, e[2])>> : e \in DeclaredEdges(spec)}
    BY <1>1, AcceptedDag
  <2>2. Len(dag.edges) = Cardinality(DeclaredEdges(spec))
    BY <1>1, AcceptedDag, EdgesAreCounted DEF IInv
  <2> QED  BY <1>1, <2>1, <2>2, AcceptedDag DEF DagIsDeclared
<1>2. IInv => DagIsDeclared
  BY <1>1 DEF DagIsDeclared
<1> QED  BY <1>2, Inductive, PTL

\* Every dag that a builder returns is one that the runners take: a dag whose
\* ids and pairs of ids are those of the spec, that passes cycle_check and that
\* topo_sort can sort.  It is what LocalRunner assumes of its dags, and what
\* RunnersAgree of ForjarRunnerProofs takes for granted.
THEOREM AcceptedDagsRun ==
  Spec => [](pc = "ok" => /\ IsDag(dag) /\ dag.ids = SpecIds(spec)
                          /\ IdEdges(dag) = DeclaredEdges(spec)
                          /\ CycleCheckOk(dag) /\ TopoSortOk(dag))
<1>1. ASSUME IInv, pc = "ok"
      PROVE  /\ IsDag(dag) /\ dag.ids = SpecIds(spec) /\ IdEdges(dag) = DeclaredEdges(spec)
             /\ CycleCheckOk(dag) /\ TopoSortOk(dag)
  BY <1>1, AcceptedDag DEF IInv, TypeOK, VerdictOK, CycleCheckOk, TopoSortOk
<1> QED  BY <1>1, Inductive, PTL

----------------------------------------------------------------------------
(* The length of a build *)

\* The steps left of the two loops over the tasks, and of the one over the
\* dependencies of the task that the second loop is at.
TasksLeft ==
  CASE pc = "nodes" -> (Len(spec) + 1 - t) + Len(spec) + 3
    [] pc = "edges" -> Len(spec) + 2 - t
    [] pc \in {"ok", "err"} -> 0

DepsLeft ==
  IF pc = "edges" /\ t <= Len(spec) THEN Len(spec[t].depends_on) + 1 - d ELSE 0

\* The loop over the dependencies stays within them.
DepLoopOK ==
  pc = "edges" => /\ t <= Len(spec) => d <= Len(spec[t].depends_on) + 1
                  /\ t > Len(spec) => d = 1

LEMMA NextDepLoop == TypeOK /\ NodesOK /\ DepLoopOK /\ [Next]_vars => DepLoopOK'
<1> SUFFICES ASSUME TypeOK, NodesOK, DepLoopOK, [Next]_vars PROVE DepLoopOK'
  OBVIOUS
<1>0. /\ Len(spec) \in Nat /\ t \in Nat /\ d \in Nat
      /\ \A i \in 1..Len(spec) : Len(spec[i].depends_on) \in Nat
  BY SpecFacts DEF TypeOK
<1>1. CASE StartLinking \/ NextTask
  <2>1. d' = 1 /\ spec' = spec /\ t' \in Nat /\ t' # 0
    BY <1>0, <1>1 DEF StartLinking, NextTask, NodesOK
  <2> QED  BY <1>0, <2>1 DEF DepLoopOK
<1>2. CASE LinkDep
  <2>1. /\ d' = d + 1 /\ UNCHANGED <<spec, t, pc>>
        /\ t <= Len(spec) /\ d <= Len(spec[t].depends_on)
    BY <1>2 DEF LinkDep, HasDep
  <2>2. t \in 1..Len(spec)
    BY <1>0, <2>1 DEF TypeOK
  <2> QED  BY <1>0, <2>1, <2>2 DEF DepLoopOK
<1>3. CASE AddTask
  BY <1>3 DEF AddTask, DepLoopOK
<1>4. CASE RejectDuplicateId \/ RejectUnknownDep \/ RejectEdge \/ RejectCycle \/ Accept
  BY <1>4 DEF RejectDuplicateId, RejectUnknownDep, RejectEdge, RejectCycle, Accept, Fail, DepLoopOK
<1>5. CASE UNCHANGED vars
  BY <1>5 DEF vars, DepLoopOK
<1> QED  BY <1>1, <1>2, <1>3, <1>4, <1>5 DEF Next

BuildShrinks == TasksLeft' < TasksLeft \/ (TasksLeft' = TasksLeft /\ DepsLeft' < DepsLeft)

\* A build takes at most two steps for each task and two more, beside one for
\* each dependency, and every one of them brings it nearer to its verdict.
THEOREM BuildsAreBounded ==
  Spec => [](TasksLeft \in Nat /\ DepsLeft \in Nat) /\ [][BuildShrinks]_vars
<1> DEFINE Inv == TypeOK /\ NodesOK /\ DepLoopOK
<1>1. Spec => []Inv
  <2>1. Init => DepLoopOK
    BY DEF Init, DepLoopOK
  <2> QED  BY <2>1, NextDepLoop, TypesCorrect, PTL DEF Spec
<1>2. ASSUME Inv
      PROVE  /\ Len(spec) \in Nat /\ t \in 1..(Len(spec) + 1) /\ d \in Nat /\ t \in Nat
             /\ t <= Len(spec) => Len(spec[t].depends_on) \in Nat
             /\ pc \in {"nodes", "edges", "ok", "err"}
             /\ pc = "nodes" => TasksLeft = (Len(spec) + 1 - t) + Len(spec) + 3
             /\ pc = "edges" => TasksLeft = Len(spec) + 2 - t
             /\ pc \in {"ok", "err"} => TasksLeft = 0
  BY <1>2, SpecFacts DEF TypeOK, TasksLeft
<1>3. Inv => TasksLeft \in Nat /\ DepsLeft \in Nat
  <2> SUFFICES ASSUME Inv PROVE TasksLeft \in Nat /\ DepsLeft \in Nat
    OBVIOUS
  <2>1. TasksLeft \in Nat
    BY <1>2
  <2>2. DepsLeft \in Nat
    BY <1>2 DEF DepsLeft, DepLoopOK
  <2> QED  BY <2>1, <2>2
<1>4. Inv /\ [Next]_vars => [BuildShrinks]_vars
  <2> SUFFICES ASSUME Inv, Next PROVE BuildShrinks
    OBVIOUS
  <2>1. /\ pc' = "nodes" => TasksLeft' = (Len(spec') + 1 - t') + Len(spec') + 3
        /\ pc' = "edges" => TasksLeft' = Len(spec') + 2 - t'
        /\ pc' \in {"ok", "err"} => TasksLeft' = 0
    BY DEF TasksLeft
  <2>2. CASE RejectDuplicateId \/ RejectUnknownDep \/ RejectEdge \/ RejectCycle \/ Accept
    <3>1. pc \in {"nodes", "edges"} /\ pc' \in {"ok", "err"}
      BY <2>2 DEF RejectDuplicateId, RejectUnknownDep, RejectEdge, RejectCycle, Accept, Fail, HasDep
    <3> QED  BY <1>2, <2>1, <3>1 DEF BuildShrinks
  <2>3. CASE AddTask
    <3>1. pc = "nodes" /\ pc' = "nodes" /\ spec' = spec /\ t' = t + 1
      BY <2>3 DEF AddTask
    <3> QED  BY <1>2, <2>1, <3>1 DEF BuildShrinks
  <2>4. CASE StartLinking
    <3>1. pc = "nodes" /\ pc' = "edges" /\ spec' = spec /\ t' = 1
      BY <2>4 DEF StartLinking
    <3> QED  BY <1>2, <2>1, <3>1 DEF BuildShrinks
  <2>5. CASE NextTask
    <3>1. pc = "edges" /\ pc' = "edges" /\ spec' = spec /\ t' = t + 1
      BY <2>5 DEF NextTask
    <3> QED  BY <1>2, <2>1, <3>1 DEF BuildShrinks
  <2>6. CASE LinkDep
    <3>1. pc = "edges" /\ UNCHANGED <<pc, spec, t>> /\ d' = d + 1 /\ t <= Len(spec)
      BY <2>6 DEF LinkDep, HasDep
    <3>2. TasksLeft' = TasksLeft
      BY <1>2, <2>1, <3>1
    <3>3. DepsLeft' < DepsLeft
      BY <1>2, <3>1 DEF DepsLeft
    <3> QED  BY <3>2, <3>3 DEF BuildShrinks
  <2> QED  BY <2>2, <2>3, <2>4, <2>5, <2>6 DEF Next
<1> QED  BY <1>1, <1>3, <1>4, PTL DEF Spec
=============================================================================
