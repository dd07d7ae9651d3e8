------------------------------ MODULE DagCore ------------------------------
(***************************************************************************)
(* The value type `Dag<T>` of crates/dag-core: a directed graph over task  *)
(* payloads, of which the rest of the workspace only ever reads the id.    *)
(*                                                                         *)
(* A dag is a record [ids |-> s, edges |-> e].  s is the sequence of       *)
(* payload ids, so a NodeIndex is a position of s; e is the sequence of    *)
(* <<from, to>> pairs in insertion order.  Two nodes may carry the same    *)
(* id: `add_node` does not look at the payload.                            *)
(*                                                                         *)
(* petgraph's two graph algorithms are outside src/ and are modelled by    *)
(* what they promise: `is_cyclic_directed` by the existence of a closed    *)
(* walk, `toposort` by the set of all topological orders.                  *)
(***************************************************************************)
EXTENDS Naturals, Sequences, Functions

CONSTANT TaskIds      \* the strings used as task ids

Nodes(dag)   == DOMAIN dag.ids
EdgeSet(dag) == Range(dag.edges)

\* Every dag over TaskIds that `add_node` and `add_edge` can produce.
IsDag(dag) ==
  /\ dag \in [ids : Seq(TaskIds), edges : Seq(Nat \X Nat)]
  /\ dag.edges \in Seq(Nodes(dag) \X Nodes(dag))
  /\ IsInjective(dag.edges)

NewDag == [ids |-> << >>, edges |-> << >>]

AddNode(dag, id) == [ids |-> Append(dag.ids, id), edges |-> dag.edges]

NodeCount(dag) == Len(dag.ids)

\* Mutant: the handle is the count after the node, one too many.
LastNode_OffByOne(dag) == NodeCount(dag) + 1

\* The handle `add_node` returns for the node it has just added.
LastNode(dag) == NodeCount(dag)

\* Mutant: a second edge between two nodes is let in.
AddEdgeError_AllowsDuplicate(dag, from, to) ==
  IF ~({from, to} \subseteq Nodes(dag)) THEN "UnknownNode" ELSE "None"

\* The verdict of `add_edge`, in the order of its early returns.
AddEdgeError(dag, from, to) ==
  IF ~({from, to} \subseteq Nodes(dag)) THEN "UnknownNode"
  ELSE IF <<from, to>> \in EdgeSet(dag) THEN "DuplicateEdge"
  ELSE "None"

AddEdge(dag, from, to) == [ids |-> dag.ids, edges |-> Append(dag.edges, <<from, to>>)]

Parents(dag, n)  == {m \in Nodes(dag) : <<m, n>> \in EdgeSet(dag)}
Children(dag, n) == {m \in Nodes(dag) : <<n, m>> \in EdgeSet(dag)}

EveryTaskReachable(dag) ==
  NodeCount(dag) > 1 => \A n \in Nodes(dag) :
                           Parents(dag, n) = {} => Children(dag, n) # {}

----------------------------------------------------------------------------
(* petgraph *)

\* `is_cyclic_directed`: some nodes whose every member has a parent among
\* them, which in a finite graph is a closed walk.  A self-loop is one.
HasParentWithin(dag, S) == \A n \in S : Parents(dag, n) \cap S # {}

IsCyclicDirected(dag) ==
  \E S \in SUBSET Nodes(dag) : S # {} /\ HasParentWithin(dag, S)

\* `toposort`: a sequence that visits each node once, no edge pointing back.
IsTopoOrder(dag, order) ==
  /\ order \in Bijection(Nodes(dag), Nodes(dag))
  /\ \A i, j \in Nodes(dag) : <<order[i], order[j]>> \in EdgeSet(dag) => i < j

TopoOrders(dag) ==
  {order \in Bijection(Nodes(dag), Nodes(dag)) : IsTopoOrder(dag, order)}

----------------------------------------------------------------------------
(* Dag::topo_sort and Dag::cycle_check *)

TopoSortOk(dag) == TopoOrders(dag) # {}

\* A cyclic verdict is not an error by itself: `cycle_check` then runs
\* `topo_sort` again and returns whatever that says.
CycleCheckOk(dag) == IsCyclicDirected(dag) => TopoSortOk(dag)

----------------------------------------------------------------------------
(* A dag as the lineage sees it: ids in the place of nodes. *)

Ids(dag)         == Range(dag.ids)
DistinctIds(dag) == IsInjective(dag.ids)
IdEdge(dag, e)   == <<dag.ids[e[1]], dag.ids[e[2]]>>
IdEdges(dag)     == {IdEdge(dag, e) : e \in EdgeSet(dag)}

\* The ids of the upstream tasks of node n.
ParentIds(dag, n) == {dag.ids[m] : m \in Parents(dag, n)}

\* S holds every parent of its members.
ClosedUpstream(dag, S) == \A n \in S : Parents(dag, n) \subseteq S

\* The nodes from which an edge path leads to n: the members, n aside, of the
\* smallest set that holds n and is closed upstream.
Ancestors(dag, n) ==
  {m \in Nodes(dag) \ {n} :
     \A S \in SUBSET Nodes(dag) : n \in S /\ ClosedUpstream(dag, S) => m \in S}

----------------------------------------------------------------------------
(* Task lists, sequences of [id, depends_on], and what they say whatever   *)
(* the algorithm that reads them.                                          *)

SpecIds(s)       == [i \in DOMAIN s |-> s[i].id]
DistinctSpec(s)  == IsInjective(SpecIds(s))
Deps(s, i)       == Range(s[i].depends_on)
DeclaredEdges(s) == UNION {{<<dep, s[i].id>> : dep \in Deps(s, i)} : i \in DOMAIN s}

\* A list has a meaning when ids are distinct, each task names other tasks of
\* the list, each once, and some numbering grows along every dependency.
Acceptable(s) ==
  /\ DistinctSpec(s)
  /\ \A i \in DOMAIN s : IsInjective(s[i].depends_on)
  /\ \E rank \in [Range(SpecIds(s)) -> DOMAIN s] :
       \A e \in DeclaredEdges(s) :
         e[1] \in DOMAIN rank /\ rank[e[1]] < rank[e[2]]
=============================================================================
