------------------------ MODULE LineageReaderProofs ------------------------
(***************************************************************************)
(* What a reader sees of a run whose attempts go on between its two        *)
(* statements, for every set of attempts, run ids and dags.                *)
(*                                                                         *)
(* A reader changes nothing, so LocalRunner's invariants hold beside it    *)
(* (ReaderIsHarmless).  Edges are never removed and a report is never      *)
(* taken back, so what the first statement saw still holds at the second.  *)
(***************************************************************************)
EXTENDS LineageReader, LocalRunnerProofs, FiniteSetTheorems

\* An edge of the run that was recorded: its attempt had an order.
OfBegun(e) == \E a \in OnRun(Watched) : Begun(a) /\ e \in IdEdges(dag[a])

KnownOK ==
  /\ knownWriters \subseteq OnRun(Watched)
  /\ \A a \in knownReports : a \in OnRun(Watched) /\ pc[a] = "ok"
  /\ Recorded \subseteq EdgesForRun(Watched)
  /\ rpc = "idle" => query = "none"

GraphOK == query = "mermaid" =>
  /\ Recorded \subseteq first /\ first \subseteq Declared
  /\ rpc = "done" =>
       /\ Ends(first) \subseteq second
       /\ second \subseteq UNION {Ids(dag[a]) : a \in OnRun(Watched)}
       /\ \A a \in knownReports : Ids(dag[a]) \subseteq second

NeighboursOK == query = "lineage" =>
  /\ \A u \in first : OfBegun(<<u, task>>)
  /\ \A e \in Recorded : e[2] = task => e[1] \in first
  /\ rpc = "done" =>
       /\ \A d \in second : OfBegun(<<task, d>>)
       /\ \A e \in Recorded : e[1] = task => e[2] \in second

CountOK == query = "edge_count" =>
  Cardinality(Recorded) <= first /\ first <= Cardinality(Declared)

\* What LocalRunner guarantees beside the reader.
RunnerInv ==
  /\ TypeOK /\ ControlOK /\ StoreMatchesMemory /\ OwnersOK
  /\ LineageIsTopology /\ ReportIsDurable

----------------------------------------------------------------------------

LEMMA ReaderIsHarmless == ReaderSpec => Spec
<1>1. ReaderNext => [Next]_vars
  BY DEF ReaderNext
<1>2. UNCHANGED <<vars, readerVars>> => UNCHANGED vars
  OBVIOUS
<1> QED  BY <1>1, <1>2, PTL DEF ReaderSpec, Spec

LEMMA RunnerGuarantees == Spec => []RunnerInv
<1>1. /\ TypeOK /\ ControlOK /\ StoreMatchesMemory /\ OwnersOK
      /\ LineageIsTopology /\ ReportIsDurable
      => RunnerInv
  BY DEF RunnerInv
<1> QED  BY <1>1, TypeCorrect, RowsCorrect, OwnersCorrect, LineageIsTheTopology,
            ReportsAreDurable, PTL

----------------------------------------------------------------------------
(* The store, as one statement sees it *)

LEMMA EdgesSeen ==
  ASSUME RunnerInv
  PROVE  /\ EdgesForRun(Watched) \subseteq IdPairs
         /\ \A e \in EdgesForRun(Watched) : OfBegun(e) /\ e \in Declared
<1> SUFFICES ASSUME NEW e \in EdgesForRun(Watched)
             PROVE  e \in IdPairs /\ OfBegun(e) /\ e \in Declared
  OBVIOUS
<1>1. PICK l \in lineageEdges : l[1] = Watched /\ l[2] = e
  BY DEF EdgesForRun
<1>2. PICK a \in Attempts : Begun(a) /\ l[1] = RunOf[a] /\ l[2] \in IdEdges(dag[a])
  BY DEF RunnerInv, OwnersOK
<1>3. e \in IdPairs
  BY <1>1 DEF RunnerInv, TypeOK, StoreTypeOK
<1> QED  BY <1>1, <1>2, <1>3 DEF OfBegun, Declared, OnRun

LEMMA RowsSeen ==
  ASSUME RunnerInv, NEW t \in DOMAIN RowsWatched, NEW a, a = RowsWatched[t].by
  PROVE  /\ a \in OnRun(Watched) /\ t \in Ids(dag[a])
         /\ IdEdges(dag[a]) \subseteq EdgesForRun(Watched)
<1>1. PICK k \in DOMAIN taskRuns : k[1] = Watched /\ k[2] = t
  BY DEF RowsWatched, TaskRunsForRun
<1>2. /\ k = <<Watched, t>> /\ k[2] \in TaskIds
      /\ taskRuns[k].by \in Attempts /\ taskRuns[k].state \in TaskStates
  BY <1>1 DEF RunnerInv, TypeOK, StoreTypeOK, Row
<1>3. a = taskRuns[k].by
  BY <1>2 DEF RowsWatched, TaskRunsForRun
<1>4. RunOf[a] = Watched /\ task_states[a][t] # "unset"
  BY <1>1, <1>2, <1>3 DEF RunnerInv, StoreMatchesMemory, TaskStates
<1>5. IdEdges(dag[a]) \subseteq EdgesForRun(Watched)
  BY <1>1, <1>3 DEF RunnerInv, LineageIsTopology
<1> QED  BY <1>1, <1>2, <1>3, <1>4, <1>5 DEF RunnerInv, OwnersOK, OnRun

LEMMA ReportsSeen ==
  ASSUME RunnerInv, NEW a \in OnRun(Watched), pc[a] = "ok"
  PROVE  Ids(dag[a]) \subseteq DOMAIN RowsWatched
<1> SUFFICES ASSUME NEW t \in Ids(dag[a]) PROVE t \in DOMAIN RowsWatched
  OBVIOUS
<1>1. <<Watched, t>> \in DOMAIN taskRuns
  BY DEF RunnerInv, ReportIsDurable, OnRun
<1> DEFINE k == <<Watched, t>>
<1>2. k \in DOMAIN taskRuns /\ k[1] = Watched /\ k[2] = t
  BY <1>1
<1> HIDE DEF k
<1> QED  BY <1>2 DEF RowsWatched, TaskRunsForRun

----------------------------------------------------------------------------
(* A step of a runner *)

LEMMA RunnerKeeps ==
  ASSUME TypeOK, ControlOK, [Next]_vars
  PROVE  /\ dag' = dag
         /\ EdgesForRun(Watched) \subseteq EdgesForRun(Watched)'
         /\ \A a \in Attempts : pc[a] = "ok" => pc'[a] = "ok"
         /\ \A e : OfBegun(e) => OfBegun(e)'
<1>1. dag' = dag /\ \A e : OfBegun(e) => OfBegun(e)'
  BY BegunIsKept DEF OfBegun, OnRun
<1>2. CASE UNCHANGED vars
  BY <1>1, <1>2 DEF vars, storeVars, localVars, EdgesForRun
<1>3. ASSUME NEW a \in Attempts, Reject(a) \/ Begin(a) \/ Step(a) \/ Crash(a)
      PROVE  /\ lineageEdges \subseteq lineageEdges'
             /\ \A b \in Attempts : pc[b] = "ok" => pc'[b] = "ok"
  BY <1>3 DEF Reject, Begin, Step, RecordNextEdge, RecordEdge, StartWalk, SkipTask, StartTask,
       ExecuteOk, ExecuteErr, PersistSucceeded, PersistFailed, ReturnOk, ReturnErr, Crash,
       Goto, TypeOK, Ended, storeVars
<1>4. lineageEdges \subseteq lineageEdges' =>
        EdgesForRun(Watched) \subseteq EdgesForRun(Watched)'
  BY DEF EdgesForRun
<1> QED  BY <1>1, <1>2, <1>3, <1>4 DEF Next

LEMMA InitReader == ReaderInit => KnownOK /\ GraphOK /\ NeighboursOK /\ CountOK
BY DEF ReaderInit, KnownOK, GraphOK, NeighboursOK, CountOK, Recorded

LEMMA RunnerStep ==
  ASSUME RunnerInv, KnownOK, [Next]_vars, UNCHANGED readerVars
  PROVE  /\ KnownOK'
         /\ GraphOK => GraphOK'
         /\ NeighboursOK => NeighboursOK'
         /\ CountOK => CountOK'
<1> USE DEF readerVars
<1>1. /\ dag' = dag
      /\ EdgesForRun(Watched) \subseteq EdgesForRun(Watched)'
      /\ \A a \in Attempts : pc[a] = "ok" => pc'[a] = "ok"
      /\ \A e : OfBegun(e) => OfBegun(e)'
  BY RunnerKeeps DEF RunnerInv
<1>2. Recorded' = Recorded /\ Declared' = Declared
  BY <1>1 DEF Recorded, Declared, OnRun
<1>3. KnownOK'
  BY <1>1, <1>2 DEF KnownOK, OnRun
<1>4. GraphOK => GraphOK'
  BY <1>1, <1>2 DEF GraphOK, OnRun, Ends
<1>5. NeighboursOK => NeighboursOK'
  BY <1>1, <1>2 DEF NeighboursOK
<1>6. CountOK => CountOK'
  BY <1>2 DEF CountOK
<1> QED  BY <1>3, <1>4, <1>5, <1>6

----------------------------------------------------------------------------
(* A step of the reader *)

LEMMA WritersSeen ==
  ASSUME RunnerInv, NEW writers, writers = {RowsWatched[t].by : t \in DOMAIN RowsWatched}
  PROVE  /\ writers \subseteq OnRun(Watched)
         /\ UNION {IdEdges(dag[a]) : a \in writers} \subseteq EdgesForRun(Watched)
BY RowsSeen

LEMMA AskStep ==
  ASSUME RunnerInv, KnownOK, UNCHANGED vars,
         NEW q, NEW t, NEW answer, NEW next, Ask(q, t, answer, next)
  PROVE  /\ (next # "idle" => KnownOK') /\ query = "none"
         /\ query' = q /\ task' = t /\ first' = answer /\ rpc' = next
         /\ dag' = dag /\ Recorded' \subseteq EdgesForRun(Watched) /\ Declared' = Declared
         /\ \A e : OfBegun(e) => OfBegun(e)'
<1>1. /\ dag' = dag /\ pc' = pc /\ order' = order /\ lineageEdges' = lineageEdges
      /\ query' = q /\ task' = t /\ first' = answer /\ rpc' = next /\ rpc = "idle"
      /\ knownWriters' = {RowsWatched[u].by : u \in DOMAIN RowsWatched}
      /\ knownReports' = {a \in OnRun(Watched) : pc[a] = "ok"}
  BY DEF Ask, vars, storeVars, localVars
<1>2. knownWriters' \subseteq OnRun(Watched)
  BY <1>1, WritersSeen
<1>3. Recorded' \subseteq EdgesForRun(Watched)
  BY <1>1, WritersSeen DEF Recorded
<1>4. EdgesForRun(Watched)' = EdgesForRun(Watched) /\ Declared' = Declared
  BY <1>1 DEF EdgesForRun, Declared, OnRun
<1>5. \A e : OfBegun(e) => OfBegun(e)'
  BY <1>1 DEF OfBegun, OnRun, Begun
<1>6. next # "idle" => KnownOK'
  BY <1>1, <1>2, <1>3, <1>4 DEF KnownOK, OnRun
<1> QED  BY <1>1, <1>3, <1>4, <1>5, <1>6 DEF KnownOK

LEMMA AskMoreStep ==
  ASSUME KnownOK, UNCHANGED vars, NEW q, NEW answer, AskMore(q, answer)
  PROVE  /\ KnownOK' /\ query = q /\ query' = q /\ task' = task
         /\ first' = first /\ second' = answer /\ rpc' = "done"
         /\ Recorded' = Recorded /\ Declared' = Declared /\ OnRun(Watched)' = OnRun(Watched)
         /\ dag' = dag /\ knownReports' = knownReports
         /\ \A e : OfBegun(e) => OfBegun(e)'
<1>1. /\ dag' = dag /\ pc' = pc /\ order' = order /\ lineageEdges' = lineageEdges
  BY DEF vars, storeVars, localVars
<1> QED  BY <1>1 DEF AskMore, KnownOK, Recorded, Declared, OnRun, EdgesForRun, OfBegun, Begun

LEMMA GraphStep ==
  ASSUME RunnerInv, KnownOK, GraphOK, UNCHANGED vars, RenderEdges \/ RenderTasks
  PROVE  KnownOK' /\ GraphOK' /\ query' = "mermaid"
<1>1. CASE RenderEdges
  <2>1. /\ KnownOK' /\ query' = "mermaid" /\ first' = EdgesForRun(Watched) /\ rpc' = "more"
        /\ Recorded' \subseteq EdgesForRun(Watched) /\ Declared' = Declared
    BY <1>1, AskStep DEF RenderEdges
  <2>2. EdgesForRun(Watched) \subseteq Declared
    BY EdgesSeen
  <2> QED  BY <2>1, <2>2 DEF GraphOK
<1>2. CASE RenderTasks
  <2>1. /\ KnownOK' /\ query = "mermaid" /\ query' = "mermaid"
        /\ first' = first /\ second' = Ends(first) \cup DOMAIN RowsWatched /\ rpc' = "done"
        /\ Recorded' = Recorded /\ Declared' = Declared /\ OnRun(Watched)' = OnRun(Watched)
        /\ dag' = dag /\ knownReports' = knownReports
    BY <1>2, AskMoreStep DEF RenderTasks
  <2>2. Ends(first) \subseteq UNION {Ids(dag[a]) : a \in OnRun(Watched)}
    <3>1. ASSUME NEW a \in OnRun(Watched), NEW e \in IdEdges(dag[a])
          PROVE  e[1] \in Ids(dag[a]) /\ e[2] \in Ids(dag[a])
      <4>1. PICK f \in EdgeSet(dag[a]) : e = IdEdge(dag[a], f)
        BY DEF IdEdges
      <4>2. f \in Nodes(dag[a]) \X Nodes(dag[a])
        BY DagOfAttempt, NodesOfDag DEF RunnerInv, OnRun
      <4> QED  BY <4>1, <4>2 DEF IdEdge, Ids, Range, Nodes
    <3>2. first \subseteq Declared
      BY <2>1 DEF GraphOK
    <3> QED  BY <3>1, <3>2 DEF Ends, Declared
  <2>3. DOMAIN RowsWatched \subseteq UNION {Ids(dag[a]) : a \in OnRun(Watched)}
    BY RowsSeen
  <2>4. \A a \in knownReports : Ids(dag[a]) \subseteq DOMAIN RowsWatched
    BY ReportsSeen DEF KnownOK
  <2>5. Ends(first)' = Ends(first)
    BY <2>1 DEF Ends
  <2> HIDE DEF RunnerInv
  <2> QED  BY <2>1, <2>2, <2>3, <2>4, <2>5 DEF GraphOK
<1> QED  BY <1>1, <1>2

LEMMA NeighboursStep ==
  ASSUME RunnerInv, KnownOK, NeighboursOK, UNCHANGED vars,
         (\E t \in TaskIds : ReadUpstream(t)) \/ ReadDownstream
  PROVE  KnownOK' /\ NeighboursOK' /\ query' = "lineage"
<1>1. ASSUME NEW t \in TaskIds, ReadUpstream(t)
      PROVE  KnownOK' /\ NeighboursOK' /\ query' = "lineage"
  <2>1. /\ KnownOK' /\ query' = "lineage" /\ task' = t
        /\ first' = QueryUpstream(Watched, t) /\ rpc' = "more"
        /\ Recorded' \subseteq EdgesForRun(Watched)
        /\ \A e : OfBegun(e) => OfBegun(e)'
    BY <1>1, AskStep DEF ReadUpstream
  <2>2. ASSUME NEW u \in QueryUpstream(Watched, t) PROVE OfBegun(<<u, t>>)
    <3>1. PICK e \in EdgesForRun(Watched) : e[2] = t /\ e[1] = u
      BY DEF QueryUpstream
    <3>2. e = <<u, t>>
      BY <3>1, EdgesSeen DEF IdPairs
    <3> QED  BY <3>2, EdgesSeen
  <2>3. \A e \in EdgesForRun(Watched) : e[2] = t => e[1] \in QueryUpstream(Watched, t)
    BY DEF QueryUpstream
  <2> QED  BY <2>1, <2>2, <2>3 DEF NeighboursOK
<1>2. CASE ReadDownstream
  <2>1. /\ KnownOK' /\ query = "lineage" /\ query' = "lineage" /\ task' = task
        /\ first' = first /\ second' = QueryDownstream(Watched, task)
        /\ Recorded' = Recorded
        /\ \A e : OfBegun(e) => OfBegun(e)'
    BY <1>2, AskMoreStep DEF ReadDownstream
  <2>2. ASSUME NEW d \in QueryDownstream(Watched, task) PROVE OfBegun(<<task, d>>)
    <3>1. PICK e \in EdgesForRun(Watched) : e[1] = task /\ e[2] = d
      BY DEF QueryDownstream
    <3>2. e = <<task, d>>
      BY <3>1, EdgesSeen DEF IdPairs
    <3> QED  BY <3>2, EdgesSeen
  <2>3. \A e \in Recorded : e[1] = task => e[2] \in QueryDownstream(Watched, task)
    BY DEF QueryDownstream, KnownOK
  <2> QED  BY <2>1, <2>2, <2>3 DEF NeighboursOK
<1> QED  BY <1>1, <1>2

----------------------------------------------------------------------------
(* Counting edges; for this, the attempts must be finitely many *)

LEMMA ImageIsFinite ==
  ASSUME NEW S, IsFiniteSet(S), NEW f, DOMAIN f = S
  PROVE  IsFiniteSet({f[x] : x \in S})
<1> DEFINE T == {f[x] : x \in S}
<1>1. f \in Surjection(S, T) \/ [x \in S |-> f[x]] \in Surjection(S, T)
  BY DEF Surjection
<1> QED  BY <1>1, FS_Surjection

LEMMA FinitelyManyEdges ==
  ASSUME TypeOK, IsFiniteSet(Attempts)
  PROVE  IsFiniteSet(Declared)
<1>1. ASSUME NEW a \in Attempts PROVE IsFiniteSet(IdEdges(dag[a]))
  <2> DEFINE f == [i \in DOMAIN dag[a].edges |-> IdEdge(dag[a], dag[a].edges[i])]
  <2>1. DOMAIN dag[a].edges = 1..Len(dag[a].edges) /\ Len(dag[a].edges) \in Nat
    BY DagOfAttempt DEF IsDag
  <2> HIDE DEF f
  <2>2. IsFiniteSet(DOMAIN dag[a].edges)
    <3>1. \A n \in Nat : IsFiniteSet(1..n)
      BY FS_Interval
    <3> QED  BY <2>1, <3>1
  <2>3. IsFiniteSet({f[i] : i \in DOMAIN dag[a].edges})
    <3>1. DOMAIN f = DOMAIN dag[a].edges
      BY DEF f
    <3> QED  BY <2>2, <3>1, ImageIsFinite
  <2>4. IdEdges(dag[a]) = {f[i] : i \in DOMAIN dag[a].edges}
    BY DEF f, IdEdges, EdgeSet, Range
  <2> QED  BY <2>3, <2>4
<1> DEFINE g == [a \in OnRun(Watched) |-> IdEdges(dag[a])]
<1>2. IsFiniteSet(OnRun(Watched))
  BY FS_Subset DEF OnRun
<1>3. IsFiniteSet({g[a] : a \in OnRun(Watched)})
  BY <1>2, ImageIsFinite
<1>4. {g[a] : a \in OnRun(Watched)} = {IdEdges(dag[a]) : a \in OnRun(Watched)}
  OBVIOUS
<1>5. IsFiniteSet(UNION {IdEdges(dag[a]) : a \in OnRun(Watched)})
  BY <1>1, <1>3, <1>4, FS_UNION DEF OnRun
<1> QED  BY <1>5 DEF Declared

LEMMA CountStep ==
  ASSUME RunnerInv, KnownOK, UNCHANGED vars, CountEdges, IsFiniteSet(Attempts)
  PROVE  KnownOK' /\ CountOK' /\ query' = "edge_count"
<1>1. /\ KnownOK' /\ query' = "edge_count" /\ first' = EdgeCount(Watched)
      /\ Recorded' \subseteq EdgesForRun(Watched) /\ Declared' = Declared
  BY AskStep DEF CountEdges
<1>2. EdgesForRun(Watched) \subseteq Declared /\ IsFiniteSet(Declared)
  BY EdgesSeen, FinitelyManyEdges DEF RunnerInv
<1>3. /\ IsFiniteSet(EdgesForRun(Watched))
      /\ Cardinality(EdgesForRun(Watched)) <= Cardinality(Declared)
  BY <1>2, FS_Subset
<1>4. Cardinality(Recorded') <= Cardinality(EdgesForRun(Watched))
  BY <1>1, <1>3, FS_Subset
<1> QED  BY <1>1, <1>3, <1>4 DEF CountOK, EdgeCount

----------------------------------------------------------------------------

ReaderInv == KnownOK /\ GraphOK /\ NeighboursOK

LEMMA NextReader == RunnerInv /\ ReaderInv /\ [ReaderNext]_<<vars, readerVars>> => ReaderInv'
<1> SUFFICES ASSUME RunnerInv, ReaderInv, [ReaderNext]_<<vars, readerVars>>
             PROVE  ReaderInv'
  OBVIOUS
<1> USE DEF ReaderInv
<1>1. CASE [Next]_vars /\ UNCHANGED readerVars
  BY <1>1, RunnerStep
<1>2. CASE UNCHANGED vars /\ (RenderEdges \/ RenderTasks)
  BY <1>2, GraphStep DEF NeighboursOK
<1>3. CASE UNCHANGED vars /\ ((\E t \in TaskIds : ReadUpstream(t)) \/ ReadDownstream)
  BY <1>3, NeighboursStep DEF GraphOK
<1>4. CASE UNCHANGED vars /\ CountEdges
  BY <1>4, AskStep DEF CountEdges, GraphOK, NeighboursOK
<1>5. CASE UNCHANGED vars /\ ReadFails
  <2>1. /\ dag' = dag /\ pc' = pc /\ order' = order /\ lineageEdges' = lineageEdges
    BY <1>5 DEF vars, storeVars, localVars
  <2>2. \A e : OfBegun(e) => OfBegun(e)'
    BY <2>1 DEF OfBegun, OnRun, Begun
  <2> QED  BY <1>5, <2>1, <2>2 DEF ReadFails, KnownOK, GraphOK, NeighboursOK, Recorded,
                                   Declared, OnRun, EdgesForRun, Ends
<1> QED  BY <1>1, <1>2, <1>3, <1>4, <1>5 DEF ReaderNext, Read

LEMMA ReaderCorrect == ReaderSpec => [](RunnerInv /\ ReaderInv)
<1>1. ReaderSpec => []RunnerInv
  BY ReaderIsHarmless, RunnerGuarantees, PTL
<1>2. Init /\ ReaderInit => ReaderInv
  BY InitReader DEF ReaderInv
<1> QED  BY <1>1, <1>2, NextReader, PTL DEF ReaderSpec

\* A graph drawn beside running attempts has every edge of the runs that had a
\* row when the call began, every task of those that had reported, and nothing
\* that the dags of the run do not have (dag-lineage/src/lib.rs:280-311).
THEOREM RendersAreTopology == ReaderSpec => []RenderIsTopology
<1>1. ReaderInv => RenderIsTopology
  BY DEF ReaderInv, GraphOK, RenderIsTopology, Answered
<1> QED  BY <1>1, ReaderCorrect, PTL

LEMMA NoneOnBothSides ==
  ASSUME RunnerInv, NEW u, NEW t, OfBegun(<<u, t>>), OfBegun(<<t, u>>),
         \A a, b \in OnRun(Watched) : dag[a] = dag[b] /\ DistinctIds(dag[a])
  PROVE  FALSE
<1>1. PICK a \in OnRun(Watched) : Begun(a) /\ <<u, t>> \in IdEdges(dag[a])
  BY DEF OfBegun
<1>2. <<t, u>> \in IdEdges(dag[a]) /\ DistinctIds(dag[a]) /\ a \in Attempts
  BY <1>1 DEF OfBegun, OnRun
<1>3. PICK i \in Nodes(dag[a]), j \in Nodes(dag[a]) : i < j /\ u = IdAt(a, i) /\ t = IdAt(a, j)
  BY <1>1, <1>2, EdgePositions DEF RunnerInv, Begun
<1>4. PICK m \in Nodes(dag[a]), n \in Nodes(dag[a]) : m < n /\ t = IdAt(a, m) /\ u = IdAt(a, n)
  BY <1>1, <1>2, EdgePositions DEF RunnerInv, Begun
<1>5. i = n /\ j = m
  BY <1>1, <1>2, <1>3, <1>4, DistinctPositions DEF RunnerInv, Begun
<1>6. i \in Nat /\ j \in Nat
  BY <1>2, DagOfAttempt DEF RunnerInv
<1> QED  BY <1>3, <1>4, <1>5, <1>6

LEMMA NextCount ==
  ASSUME IsFiniteSet(Attempts)
  PROVE  RunnerInv /\ ReaderInv /\ CountOK /\ [ReaderNext]_<<vars, readerVars>> => CountOK'
<1> SUFFICES ASSUME RunnerInv, ReaderInv, CountOK, [ReaderNext]_<<vars, readerVars>>
             PROVE  CountOK'
  OBVIOUS
<1> USE DEF ReaderInv
<1>1. CASE [Next]_vars /\ UNCHANGED readerVars
  BY <1>1, RunnerStep
<1>2. CASE UNCHANGED vars /\ (RenderEdges \/ RenderTasks)
  BY <1>2, GraphStep DEF CountOK
<1>3. CASE UNCHANGED vars /\ ((\E t \in TaskIds : ReadUpstream(t)) \/ ReadDownstream)
  BY <1>3, NeighboursStep DEF CountOK
<1>4. CASE UNCHANGED vars /\ CountEdges
  BY <1>4, CountStep
<1>5. CASE UNCHANGED vars /\ ReadFails
  BY <1>5 DEF ReadFails, CountOK, Recorded, Declared, OnRun, vars, localVars
<1> QED  BY <1>1, <1>2, <1>3, <1>4, <1>5 DEF ReaderNext, Read

\* The neighbours of a task are of the dag, all there once the run has a row,
\* and never on both sides when one dag was run; the count lies between the
\* edges recorded and those declared (dag-lineage/src/lib.rs:181-227).
THEOREM NeighboursAreOfTopology ==
  ASSUME IsFiniteSet(Attempts)
  PROVE  ReaderSpec => []NeighboursAreTopology
<1>1. RunnerInv /\ ReaderInv /\ CountOK => NeighboursAreTopology
  <2> SUFFICES ASSUME RunnerInv, ReaderInv, CountOK PROVE NeighboursAreTopology
    OBVIOUS
  <2>1. \A e : OfBegun(e) => e \in Declared
    BY DEF OfBegun, Declared
  <2>2. \A u, t : OfBegun(<<u, t>>) /\ OfBegun(<<t, u>>) =>
          ~ \A a, b \in OnRun(Watched) : dag[a] = dag[b] /\ DistinctIds(dag[a])
    BY NoneOnBothSides
  <2> QED  BY <2>1, <2>2 DEF ReaderInv, NeighboursOK, CountOK, NeighboursAreTopology, Answered
<1>2. ReaderInit => CountOK
  BY InitReader
<1> QED  BY <1>1, <1>2, NextCount, ReaderCorrect, PTL DEF ReaderSpec
=============================================================================
