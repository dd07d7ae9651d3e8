---------------------------- MODULE DagCoreProofs ----------------------------
(***************************************************************************)
(* Facts about the dag value and about petgraph's two verdicts, for every  *)
(* dag.                                                                    *)
(***************************************************************************)
EXTENDS DagCore, FiniteSetTheorems, WellFoundedInduction, TLAPS

----------------------------------------------------------------------------
(* Typing *)

LEMMA NodesOfDag ==
  ASSUME NEW dag, IsDag(dag)
  PROVE  /\ NodeCount(dag) \in Nat
         /\ Nodes(dag) = 1..NodeCount(dag)
         /\ dag.ids \in [Nodes(dag) -> TaskIds]
         /\ EdgeSet(dag) \subseteq Nodes(dag) \X Nodes(dag)
BY DEF IsDag, Nodes, NodeCount, EdgeSet, Range

LEMMA NewDagType == IsDag(NewDag)
BY DEF IsDag, NewDag, Nodes, IsInjective

LEMMA AddNodeType ==
  ASSUME NEW dag, IsDag(dag), NEW id \in TaskIds
  PROVE  /\ IsDag(AddNode(dag, id))
         /\ NodeCount(AddNode(dag, id)) = NodeCount(dag) + 1
         /\ EdgeSet(AddNode(dag, id)) = EdgeSet(dag)
<1> DEFINE g == AddNode(dag, id)
<1>1. g.ids = Append(dag.ids, id) /\ g.edges = dag.edges
  BY DEF IsDag, AddNode
<1>2. g \in [ids : Seq(TaskIds), edges : Seq(Nat \X Nat)]
  <2>1. dag.ids \in Seq(TaskIds) /\ dag.edges \in Seq(Nat \X Nat)
    BY DEF IsDag
  <2>2. Append(dag.ids, id) \in Seq(TaskIds)
    BY <2>1
  <2> QED  BY <2>1, <2>2 DEF AddNode
<1>3. Nodes(dag) \subseteq Nodes(g)
  BY <1>1 DEF IsDag, Nodes
<1>4. g.edges \in Seq(Nodes(g) \X Nodes(g))
  BY <1>1, <1>3, Seq(Nodes(dag) \X Nodes(dag)) \subseteq Seq(Nodes(g) \X Nodes(g)) DEF IsDag
<1> QED  BY <1>1, <1>2, <1>4 DEF IsDag, NodeCount, EdgeSet

LEMMA AddEdgeType ==
  ASSUME NEW dag, IsDag(dag), NEW from, NEW to,
         AddEdgeError(dag, from, to) = "None"
  PROVE  /\ IsDag(AddEdge(dag, from, to))
         /\ Nodes(AddEdge(dag, from, to)) = Nodes(dag)
         /\ EdgeSet(AddEdge(dag, from, to)) = EdgeSet(dag) \cup {<<from, to>>}
<1> DEFINE g == AddEdge(dag, from, to)
           e == <<from, to>>
<1>1. g.ids = dag.ids /\ g.edges = Append(dag.edges, e)
  BY DEF IsDag, AddEdge
<1>2. e \in Nodes(dag) \X Nodes(dag) /\ e \notin EdgeSet(dag)
  BY DEF AddEdgeError
<1>3. Nodes(g) = Nodes(dag) /\ Nodes(dag) \subseteq Nat
  BY <1>1, NodesOfDag DEF Nodes
<1>4. g.edges \in Seq(Nodes(g) \X Nodes(g))
  BY <1>1, <1>2, <1>3 DEF IsDag
<1>5. g \in [ids : Seq(TaskIds), edges : Seq(Nat \X Nat)]
  <2>1. dag.ids \in Seq(TaskIds) /\ dag.edges \in Seq(Nat \X Nat)
    BY DEF IsDag
  <2>2. e \in Nat \X Nat
    BY <1>2, <1>3
  <2>3. Append(dag.edges, e) \in Seq(Nat \X Nat)
    BY <2>1, <2>2
  <2> QED  BY <2>1, <2>3 DEF AddEdge
<1>6. IsInjective(g.edges)
  <2> DEFINE s == dag.edges
  <2>1. s \in Seq(Nat \X Nat) /\ IsInjective(s)
    BY DEF IsDag
  <2>2. \A i \in 1..Len(s) : s[i] # e
    BY <1>2, <2>1 DEF EdgeSet, Range
  <2>3. /\ DOMAIN Append(s, e) = 1..(Len(s) + 1)
        /\ \A i \in 1..Len(s) : Append(s, e)[i] = s[i]
        /\ Append(s, e)[Len(s) + 1] = e
    BY <2>1
  <2>4. Len(s) \in Nat /\ DOMAIN s = 1..Len(s)
    BY <2>1
  <2> HIDE DEF s, e
  <2>5. IsInjective(Append(s, e))
    BY <2>1, <2>2, <2>3, <2>4 DEF IsInjective
  <2> QED  BY <1>1, <2>5 DEF s
<1>7. EdgeSet(g) = EdgeSet(dag) \cup {e}
  <2> DEFINE s == dag.edges
  <2>1. s \in Seq(Nat \X Nat)
    BY DEF IsDag
  <2>2. /\ DOMAIN Append(s, e) = 1..(Len(s) + 1)
        /\ \A i \in 1..Len(s) : Append(s, e)[i] = s[i]
        /\ Append(s, e)[Len(s) + 1] = e
    BY <2>1
  <2>3. Len(s) \in Nat /\ DOMAIN s = 1..Len(s)
    BY <2>1
  <2> HIDE DEF s, e
  <2>4. Range(Append(s, e)) = Range(s) \cup {e}
    BY <2>2, <2>3 DEF Range
  <2> QED  BY <1>1, <2>4 DEF EdgeSet, s
<1> QED  BY <1>3, <1>4, <1>5, <1>6, <1>7 DEF IsDag

----------------------------------------------------------------------------
(* Well-foundedness of Nat, as a least element *)

LEMMA LeastNat ==
  ASSUME NEW T, T \subseteq Nat, T # {}
  PROVE  \E m \in T : \A k \in T : m <= k
<1> DEFINE F == {0..k : k \in T}
<1>1. F \subseteq FiniteSubsetsOf(Nat) /\ F # {}
  <2>1. \A k \in T : IsFiniteSet(0..k) /\ 0..k \in SUBSET Nat
    BY FS_Interval
  <2> QED  BY <2>1 DEF FiniteSubsetsOf
<1>2. PICK x \in F : \A y \in F : <<y, x>> \notin StrictSubsetOrdering(Nat)
  BY <1>1, WFMin, FS_StrictSubsetOrderingWellFounded
<1>3. PICK m \in T : x = 0..m
  OBVIOUS
<1>4. \A k \in T : m <= k
  <2> SUFFICES ASSUME NEW k \in T, k < m
               PROVE  FALSE
    OBVIOUS
  <2>1. 0..k \in SUBSET (0..m) /\ m \in 0..m /\ m \notin 0..k
    OBVIOUS
  <2>2. 0..k \in SUBSET Nat /\ 0..m \in SUBSET Nat
    OBVIOUS
  <2>3. <<0..k, 0..m>> \in StrictSubsetOrdering(Nat)
    BY <2>1, <2>2, Zenon DEF StrictSubsetOrdering
  <2> QED  BY <1>2, <1>3, <2>3
<1> QED  BY <1>4

----------------------------------------------------------------------------
(* is_cyclic_directed and toposort agree *)

\* A dag that has a topological order has no cycle: what LocalRunner::run
\* relies on when it walks the order, and contract no_cycles for every dag
\* that topo_sort accepts (dag-core/src/lib.rs:112-125).
THEOREM TopoOrderExcludesCycles ==
  ASSUME NEW dag, IsDag(dag), NEW order, IsTopoOrder(dag, order)
  PROVE  ~IsCyclicDirected(dag)
<1> SUFFICES ASSUME NEW S \in SUBSET Nodes(dag), S # {}, HasParentWithin(dag, S)
             PROVE  FALSE
  BY DEF IsCyclicDirected
<1> DEFINE P == {i \in Nodes(dag) : order[i] \in S}
<1>1. P \subseteq Nat
  BY NodesOfDag
<1>2. P # {}
  BY DEF IsTopoOrder, Bijection, Surjection
<1>3. PICK i \in P : \A k \in P : i <= k
  BY <1>1, <1>2, LeastNat
<1>4. PICK m \in S : <<m, order[i]>> \in EdgeSet(dag)
  BY <1>3 DEF HasParentWithin, Parents
<1>5. PICK j \in Nodes(dag) : order[j] = m
  BY DEF IsTopoOrder, Bijection, Surjection
<1>6. j < i
  BY <1>3, <1>4, <1>5 DEF IsTopoOrder
<1>7. i <= j
  BY <1>3, <1>5
<1> QED  BY <1>1, <1>3, <1>5, <1>6, <1>7, NodesOfDag

\* f lists k nodes of the dag, none twice, each after all its parents.
Partial(dag, k, f) ==
  /\ f \in [1..k -> Nodes(dag)]
  /\ IsInjective(f)
  /\ \A i \in 1..k : \A m \in Parents(dag, f[i]) : \E j \in 1..(i - 1) : f[j] = m

\* While nodes are left in an acyclic dag, one of them can be listed next.
LEMMA PartialExtends ==
  ASSUME NEW dag, IsDag(dag), ~IsCyclicDirected(dag),
         NEW k \in Nat, k < NodeCount(dag), NEW f, Partial(dag, k, f)
  PROVE  \E g : Partial(dag, k + 1, g)
<1> DEFINE N    == Nodes(dag)
           Done == {f[i] : i \in 1..k}
           Rest == N \ Done
<1>1. Rest # {}
  <2> SUFFICES ASSUME Rest = {} PROVE FALSE
    OBVIOUS
  <2>1. f \in Surjection(1..k, N)
    BY DEF Partial, Surjection
  <2>2. Cardinality(N) <= k
    BY <2>1, FS_SurjCardinalityBound DEF ExistsSurjection
  <2>3. Cardinality(N) = NodeCount(dag)
    BY NodesOfDag, FS_Interval
  <2> QED  BY <2>2, <2>3, NodesOfDag
<1>2. PICK m \in Rest : Parents(dag, m) \cap Rest = {}
  BY <1>1 DEF IsCyclicDirected, HasParentWithin
<1>3. Parents(dag, m) \subseteq Done
  BY <1>2 DEF Parents
<1> DEFINE g == [i \in 1..(k + 1) |-> IF i = k + 1 THEN m ELSE f[i]]
<1>4. g \in [1..(k + 1) -> N]
  BY DEF Partial
<1>5. IsInjective(g)
  BY <1>2 DEF Partial, IsInjective
<1>6. \A i \in 1..(k + 1) : \A o \in Parents(dag, g[i]) : \E j \in 1..(i - 1) : g[j] = o
  <2> TAKE i \in 1..(k + 1)
  <2> TAKE o \in Parents(dag, g[i])
  <2>1. \A j \in 1..k : g[j] = f[j]
    OBVIOUS
  <2>2. CASE i = k + 1
    BY <1>3, <2>1, <2>2
  <2>3. CASE i \in 1..k
    <3>1. PICK j \in 1..(i - 1) : f[j] = o
      BY <2>1, <2>3 DEF Partial
    <3> QED  BY <2>1, <2>3, <3>1
  <2> QED  BY <2>2, <2>3
<1>7. Partial(dag, k + 1, g)
  BY <1>4, <1>5, <1>6 DEF Partial
<1> QED  BY <1>7

\* Every acyclic dag has a topological order: cycle_check and topo_sort never
\* disagree, so the second of the two calls at local.rs:66-67 cannot fail, and
\* a dag that DagSpec::build returns is one that a runner can walk.
THEOREM AcyclicHasTopoOrder ==
  ASSUME NEW dag, IsDag(dag), ~IsCyclicDirected(dag)
  PROVE  TopoOrders(dag) # {}
<1> DEFINE n == NodeCount(dag)
           N == Nodes(dag)
           K == {k \in 0..n : \E f : Partial(dag, k, f)}
<1>1. n \in Nat /\ N = 1..n
  BY NodesOfDag
<1>2. 0 \in K
  <2>1. Partial(dag, 0, << >>)
    BY DEF Partial, IsInjective
  <2> QED  BY <1>1, <2>1
<1>3. \A k \in K : k < n => k + 1 \in K
  BY <1>1, PartialExtends
<1>4. n \in K
  <2> SUFFICES ASSUME n \notin K PROVE FALSE
    OBVIOUS
  <2> DEFINE T == (0..n) \ K
  <2>1. T \subseteq Nat /\ T # {}
    BY <1>1
  <2> HIDE DEF K
  <2>2. PICK m \in T : \A k \in T : m <= k
    BY <2>1, LeastNat
  <2>3. m # 0 /\ m - 1 \in 0..n
    BY <1>1, <1>2, <2>2
  <2>4. m - 1 \in K
    BY <1>1, <2>2, <2>3
  <2>5. m - 1 < n /\ (m - 1) + 1 = m /\ m \notin K
    BY <1>1, <2>2
  <2>6. (m - 1) + 1 \in K
    BY <1>3, <2>4, <2>5
  <2> QED  BY <2>5, <2>6
<1>5. PICK f : Partial(dag, n, f)
  BY <1>4
<1>6. f \in Bijection(N, N)
  <2>1. f \in Injection(N, N)
    BY <1>1, <1>5 DEF Partial, Injection
  <2>2. IsFiniteSet(N)
    BY <1>1, FS_Interval
  <2>3. f \in Surjection(N, N)
    BY <2>1, <2>2, FS_Injection
  <2> QED  BY <2>1, <2>3 DEF Bijection
<1>7. ASSUME NEW i \in N, NEW j \in N, <<f[i], f[j]>> \in EdgeSet(dag)
      PROVE  i < j
  <2>1. f[i] \in Parents(dag, f[j])
    BY <1>1, <1>5, <1>7 DEF Partial, Parents
  <2>2. PICK l \in 1..(j - 1) : f[i] = f[l]
    BY <1>1, <1>5, <2>1 DEF Partial
  <2>3. l \in N /\ l < j
    BY <1>1, <2>2
  <2>4. i = l
    BY <1>1, <1>5, <2>2, <2>3 DEF Partial, IsInjective
  <2> QED  BY <2>3, <2>4
<1> QED  BY <1>6, <1>7 DEF TopoOrders, IsTopoOrder

\* The two verdicts are opposite ones, for every dag.
COROLLARY CycleCheckIsTopoSort ==
  ASSUME NEW dag, IsDag(dag)
  PROVE  /\ TopoSortOk(dag) <=> ~IsCyclicDirected(dag)
         /\ CycleCheckOk(dag) <=> TopoSortOk(dag)
<1>1. TopoSortOk(dag) => ~IsCyclicDirected(dag)
  BY TopoOrderExcludesCycles DEF TopoSortOk, TopoOrders
<1>2. ~IsCyclicDirected(dag) => TopoSortOk(dag)
  BY AcyclicHasTopoOrder DEF TopoSortOk
<1> QED  BY <1>1, <1>2 DEF CycleCheckOk

----------------------------------------------------------------------------
(* Contracts C3 and C4: the linear chain *)

\* p lists all nodes, each with an edge to the next one.
IsChain(dag, p) ==
  /\ p \in Bijection(Nodes(dag), Nodes(dag))
  /\ \A i \in Nodes(dag) :
       i < NodeCount(dag) => <<p[i], p[i + 1]>> \in EdgeSet(dag)

\* FALSIFY-DAG-003 and -004: a linear chain has one topological order only,
\* so two runners, or ten runs, report the same one, whatever tie-break
\* petgraph applies.
THEOREM ChainHasOneOrder ==
  ASSUME NEW dag, IsDag(dag), NEW p, IsChain(dag, p),
         NEW order \in TopoOrders(dag)
  PROVE  order = p
<1> DEFINE n == NodeCount(dag)
           N == Nodes(dag)
<1>1. n \in Nat /\ N = 1..n
  BY NodesOfDag
<1>2. IsTopoOrder(dag, order)
  BY DEF TopoOrders
<1>3. /\ order \in [N -> N] /\ p \in [N -> N]
      /\ IsInjective(order) /\ IsInjective(p)
      /\ \A m \in N : \E i \in N : order[i] = m
  BY <1>2 DEF IsTopoOrder, IsChain, Bijection, Injection, Surjection
\* q[k] is the position in the order of the k-th node of the chain.
<1> DEFINE q == [k \in N |-> CHOOSE i \in N : order[i] = p[k]]
<1>4. \A k \in N : q[k] \in N /\ order[q[k]] = p[k]
  BY <1>3
<1> HIDE DEF q
<1>5. \A k \in N : k < n => q[k] < q[k + 1]
  <2> TAKE k \in N
  <2> HAVE k < n
  <2>1. k + 1 \in N /\ <<p[k], p[k + 1]>> \in EdgeSet(dag)
    BY <1>1 DEF IsChain
  <2> QED  BY <1>2, <1>4, <2>1 DEF IsTopoOrder
<1>6. \A j, k \in N : q[j] = q[k] => j = k
  BY <1>3, <1>4 DEF IsInjective
<1>7. \A k \in N : q[k] = k
  <2> DEFINE T == {k \in N : q[k] # k}
  <2> SUFFICES ASSUME T # {} PROVE FALSE
    OBVIOUS
  <2>0. T \subseteq Nat
    BY <1>1
  <2>1. PICK k \in T : \A j \in T : k <= j
    BY <2>0, LeastNat
  <2>2. \A j \in N : j < k => q[j] = j
    BY <1>1, <2>1
  <2>3. q[k] > k
    BY <1>1, <1>4, <1>6, <2>1, <2>2
  \* Position k is taken by a later node of the chain: look at the first one.
  <2> DEFINE U == {j \in N : j > k /\ q[j] <= k}
  <2>4. U # {}
    <3>1. k \in N /\ order[k] \in N
      BY <1>3, <2>1
    <3>2. PICK j \in N : p[j] = order[k]
      BY <3>1 DEF IsChain, Bijection, Surjection
    <3>3. q[j] = k
      BY <1>3, <1>4, <3>1, <3>2 DEF IsInjective
    <3>4. j > k
      BY <1>1, <2>1, <2>2, <3>3
    <3> QED  BY <1>1, <3>1, <3>3, <3>4
  <2>5. U \subseteq Nat
    BY <1>1
  <2>6. PICK j \in U : \A i \in U : j <= i
    BY <2>4, <2>5, LeastNat
  <2>7. j - 1 \in N /\ j - 1 < n /\ (j - 1) + 1 = j /\ j - 1 >= k
    BY <1>1, <2>1, <2>6
  <2>8. q[j - 1] < q[j]
    BY <1>5, <2>7
  <2>9. q[j] <= k /\ q[j] \in Nat /\ q[j - 1] \in Nat
    BY <1>1, <1>4, <2>6, <2>7
  <2>10. j - 1 # k
    BY <1>1, <1>4, <2>1, <2>3, <2>8, <2>9
  <2>11. j - 1 \in U
    BY <1>1, <2>1, <2>7, <2>8, <2>9, <2>10
  <2> QED  BY <1>1, <2>6, <2>11
<1>8. \A k \in N : order[k] = p[k]
  BY <1>4, <1>7
<1> QED  BY <1>3, <1>8

----------------------------------------------------------------------------
(* Topological orders, seen through the ids *)

\* The sequences of ids, one for each position in N, that respect the edges.
IdOrders(N, ids, edges) ==
  {s \in Bijection(N, ids) : \A i, j \in N : <<s[i], s[j]>> \in edges => i < j}

IdsAlong(dag, order) == [i \in Nodes(dag) |-> dag.ids[order[i]]]

\* Where ids are distinct, the orders in which topo_sort may list the ids are
\* settled by the ids and the pairs of ids that the edges join: neither the order
\* of the nodes nor that of the edges matters.
THEOREM OrdersThroughIds ==
  ASSUME NEW dag, IsDag(dag), DistinctIds(dag)
  PROVE  {IdsAlong(dag, o) : o \in TopoOrders(dag)} = IdOrders(Nodes(dag), Ids(dag), IdEdges(dag))
<1> DEFINE N == Nodes(dag)
           ids == dag.ids
           Orders == IdOrders(N, Ids(dag), IdEdges(dag))
<1>1. /\ \A n \in N : ids[n] \in Ids(dag)
      /\ \A t \in Ids(dag) : \E n \in N : ids[n] = t
      /\ \A m, n \in N : ids[m] = ids[n] => m = n
      /\ EdgeSet(dag) \subseteq N \X N
  BY NodesOfDag DEF Ids, Range, Nodes, DistinctIds, IsInjective
<1>2. \A m, n \in N : <<ids[m], ids[n]>> \in IdEdges(dag) <=> <<m, n>> \in EdgeSet(dag)
  <2> TAKE m, n \in N
  <2>1. ASSUME NEW e \in EdgeSet(dag), IdEdge(dag, e) = <<ids[m], ids[n]>>
        PROVE  <<m, n>> \in EdgeSet(dag)
    <3>1. PICK k \in N, l \in N : e = <<k, l>>
      BY <1>1
    <3> QED  BY <1>1, <2>1, <3>1 DEF IdEdge
  <2>2. IdEdge(dag, <<m, n>>) = <<ids[m], ids[n]>>
    BY DEF IdEdge
  <2> QED  BY <2>1, <2>2 DEF IdEdges
<1> HIDE DEF N, ids
<1>3. ASSUME NEW o \in TopoOrders(dag) PROVE IdsAlong(dag, o) \in Orders
  <2>1. /\ o \in [N -> N] /\ \A i, j \in N : o[i] = o[j] => i = j
        /\ \A n \in N : \E i \in N : o[i] = n
        /\ \A i, j \in N : <<o[i], o[j]>> \in EdgeSet(dag) => i < j
    BY DEF TopoOrders, IsTopoOrder, Bijection, Injection, Surjection, IsInjective, N
  <2> DEFINE s == [i \in N |-> ids[o[i]]]
  <2>2. /\ s \in [N -> Ids(dag)] /\ \A i, j \in N : s[i] = s[j] => i = j
        /\ \A t \in Ids(dag) : \E i \in N : s[i] = t
    BY <1>1, <2>1
  <2>3. \A i, j \in N : <<s[i], s[j]>> \in IdEdges(dag) => i < j
    BY <1>2, <2>1
  <2>4. s \in Bijection(N, Ids(dag))
    <3> HIDE DEF s
    <3> QED  BY <2>2 DEF Bijection, Injection, Surjection, IsInjective
  <2>5. IdsAlong(dag, o) = s
    BY DEF IdsAlong, N, ids
  <2> QED  BY <2>3, <2>4, <2>5 DEF IdOrders
<1>4. ASSUME NEW s \in Orders PROVE \E o \in TopoOrders(dag) : s = IdsAlong(dag, o)
  <2>1. /\ s \in [N -> Ids(dag)] /\ \A i, j \in N : s[i] = s[j] => i = j
        /\ \A t \in Ids(dag) : \E i \in N : s[i] = t
        /\ \A i, j \in N : <<s[i], s[j]>> \in IdEdges(dag) => i < j
    BY DEF IdOrders, Bijection, Injection, Surjection, IsInjective
  <2> DEFINE o == [i \in N |-> CHOOSE n \in N : ids[n] = s[i]]
  <2>2. \A i \in N : o[i] \in N /\ ids[o[i]] = s[i]
    BY <1>1, <2>1
  <2>3. o \in [N -> N]
    BY <2>2
  <2> HIDE DEF o
  <2>4. /\ \A i, j \in N : o[i] = o[j] => i = j
        /\ \A n \in N : \E i \in N : o[i] = n
        /\ \A i, j \in N : <<o[i], o[j]>> \in EdgeSet(dag) => i < j
    <3>1. \A i, j \in N : o[i] = o[j] => i = j
      BY <2>1, <2>2
    <3>2. \A n \in N : \E i \in N : o[i] = n
      BY <1>1, <2>1, <2>2
    <3>3. ASSUME NEW i \in N, NEW j \in N, <<o[i], o[j]>> \in EdgeSet(dag) PROVE i < j
      <4>1. <<ids[o[i]], ids[o[j]]>> \in IdEdges(dag)
        BY <1>2, <2>2, <3>3
      <4> QED  BY <2>1, <2>2, <4>1
    <3> QED  BY <3>1, <3>2, <3>3
  <2>5. o \in Bijection(N, N)
    BY <2>3, <2>4 DEF Bijection, Injection, Surjection, IsInjective
  <2>6. o \in TopoOrders(dag)
    BY <2>4, <2>5 DEF TopoOrders, IsTopoOrder, N
  <2>7. s = IdsAlong(dag, o)
    <3> DEFINE q == [i \in N |-> ids[o[i]]]
    <3>1. s = [i \in N |-> s[i]] /\ \A i \in N : q[i] = s[i]
      BY <2>1, <2>2
    <3>2. q = [i \in N |-> q[i]]
      OBVIOUS
    <3>3. s = q
      <4> HIDE DEF q
      <4> QED  BY <3>1, <3>2
    <3> QED  BY <3>3 DEF IdsAlong, N, ids
  <2> QED  BY <2>6, <2>7
<1> QED  BY <1>3, <1>4 DEF N
=============================================================================
