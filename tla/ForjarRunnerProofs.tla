------------------------- MODULE ForjarRunnerProofs -------------------------
(***************************************************************************)
(* Safety of ForjarRunner, for every set of attempts, run ids, task ids    *)
(* and files: any number of attempts may overlap on one run id.            *)
(***************************************************************************)
EXTENDS ForjarRunnerImplements, DagCoreProofs

----------------------------------------------------------------------------
(* The pairs of a file.  FlattenSeq is a recursive function over 1..n: that *)
(* it exists, and what it gives, is shown by the least k where it fails.    *)

FlattenUpTo(seqs, k, f) ==
  f = [i \in 1..k |-> IF i = 1 THEN seqs[i] ELSE f[i-1] \o seqs[i]]

FlattenHas(S, seqs, k) == \E f \in [1..k -> Seq(S)] : FlattenUpTo(seqs, k, f)

LEMMA FlattenExtends ==
  ASSUME NEW S, NEW seqs \in Seq(Seq(S)), NEW j \in 1..Len(seqs), j # 1,
         FlattenHas(S, seqs, j - 1)
  PROVE  FlattenHas(S, seqs, j)
<1>0. Len(seqs) \in Nat /\ j \in Nat /\ j - 1 \in 1..j /\ seqs[j] \in Seq(S)
  OBVIOUS
<1>1. PICK f \in [1..(j-1) -> Seq(S)] : FlattenUpTo(seqs, j - 1, f)
  BY DEF FlattenHas
<1> DEFINE last == f[j-1] \o seqs[j]
           g == [i \in 1..j |-> IF i = j THEN last ELSE f[i]]
<1>2. f[j-1] \in Seq(S)
  BY <1>0
<1>3. last \in Seq(S)
  BY <1>0, <1>2
<1>4. \A i \in 1..(j-1) : f[i] = IF i = 1 THEN seqs[i] ELSE f[i-1] \o seqs[i]
  BY <1>1 DEF FlattenUpTo
<1> HIDE DEF last
<1>5. g \in [1..j -> Seq(S)]
  BY <1>0, <1>3
<1>6. \A i \in 1..j : g[i] = IF i = 1 THEN seqs[i] ELSE g[i-1] \o seqs[i]
  <2> TAKE i \in 1..j
  <2>1. CASE i = j
    <3>1. g[i] = last /\ g[i-1] = f[j-1] /\ i # 1
      BY <1>0, <2>1
    <3> HIDE DEF g
    <3> QED  BY <2>1, <3>1 DEF last
  <2>2. CASE i # j
    <3>1. i \in 1..(j-1) /\ g[i] = f[i] /\ (i # 1 => i - 1 \in 1..j /\ g[i-1] = f[i-1])
      BY <1>0, <2>2
    <3> HIDE DEF g
    <3> QED  BY <1>4, <3>1
  <2> QED  BY <2>1, <2>2
<1> HIDE DEF g
<1>7. FlattenUpTo(seqs, j, g)
  BY <1>5, <1>6 DEF FlattenUpTo
<1> QED  BY <1>5, <1>7 DEF FlattenHas

LEMMA FlattenExists ==
  ASSUME NEW S, NEW seqs \in Seq(Seq(S)), NEW k \in 1..Len(seqs)
  PROVE  FlattenHas(S, seqs, k)
<1> DEFINE Bad == {j \in 1..Len(seqs) : ~FlattenHas(S, seqs, j)}
<1>0. Bad \subseteq Nat /\ Len(seqs) \in Nat
  OBVIOUS
<1>1. ASSUME Bad # {} PROVE FALSE
  <2>1. PICK j \in Bad : \A i \in Bad : j <= i
    <3> HIDE DEF Bad
    <3> QED  BY <1>0, <1>1, LeastNat
  <2>2. CASE j = 1
    <3> DEFINE f == [i \in 1..1 |-> seqs[1]]
    <3>1. f \in [1..1 -> Seq(S)] /\ FlattenUpTo(seqs, 1, f)
      BY <2>1, <2>2 DEF FlattenUpTo
    <3> QED  BY <2>1, <2>2, <3>1 DEF FlattenHas
  <2>3. CASE j # 1
    <3>1. j - 1 \in 1..Len(seqs) /\ ~(j <= j - 1)
      BY <1>0, <2>3
    <3>2. FlattenHas(S, seqs, j - 1)
      BY <2>1, <3>1
    <3> QED  BY <2>1, <2>3, <3>2, FlattenExtends
  <2> QED  BY <2>2, <2>3
<1> QED  BY <1>1

LEMMA FlattenType ==
  ASSUME NEW S, NEW seqs \in Seq(Seq(S))
  PROVE  FlattenSeq(seqs) \in Seq(S)
<1> DEFINE n == Len(seqs)
<1>0. n \in Nat
  OBVIOUS
<1>1. CASE n = 0
  BY <1>1 DEF FlattenSeq
<1>2. CASE n # 0
  <2> DEFINE F == CHOOSE f : FlattenUpTo(seqs, n, f)
             Bad == {j \in 1..n : F[j] \notin Seq(S)}
  <2>1. FlattenSeq(seqs) = F[n]
    BY <1>2 DEF FlattenSeq, FlattenUpTo
  <2>2. FlattenUpTo(seqs, n, F)
    BY <1>0, <1>2, FlattenExists DEF FlattenHas
  <2> HIDE DEF F
  <2>3. \A i \in 1..n : F[i] = IF i = 1 THEN seqs[i] ELSE F[i-1] \o seqs[i]
    BY <2>2 DEF FlattenUpTo
  <2>4. Bad \subseteq Nat
    BY <1>0
  <2>5. ASSUME Bad # {} PROVE FALSE
    <3>1. PICK j \in Bad : \A i \in Bad : j <= i
      <4> HIDE DEF Bad
      <4> QED  BY <2>4, <2>5, LeastNat
    <3>2. j \in 1..n /\ seqs[j] \in Seq(S) /\ F[j] \notin Seq(S)
      BY <1>0
    <3>3. j # 1
      BY <2>3, <3>2
    <3>4. j - 1 \in 1..n /\ ~(j <= j - 1)
      BY <1>0, <3>2, <3>3
    <3>5. F[j-1] \in Seq(S)
      BY <3>1, <3>4
    <3>6. F[j-1] \o seqs[j] \in Seq(S)
      BY <3>2, <3>5
    <3> QED  BY <2>3, <3>2, <3>3, <3>6
  <2> QED  BY <1>0, <1>2, <2>1, <2>5
<1> QED  BY <1>1, <1>2

LEMMA ConcatFacts ==
  ASSUME NEW S, NEW a \in Seq(S), NEW b \in Seq(S)
  PROVE  /\ a \o b \in Seq(S)
         /\ Range(a \o b) = Range(a) \cup Range(b)
         /\ Range(a) \cap Range(b) = {} =>
              (IsInjective(a \o b) <=> IsInjective(a) /\ IsInjective(b))
<1> DEFINE c == a \o b
           m == Len(a)
           n == Len(b)
<1>1. /\ m \in Nat /\ n \in Nat /\ DOMAIN a = 1..m /\ DOMAIN b = 1..n /\ DOMAIN c = 1..(m + n)
      /\ \A i \in 1..m : c[i] = a[i]
      /\ \A i \in 1..(m + n) : i > m => c[i] = b[i - m]
      /\ c \in Seq(S)
  OBVIOUS
<1> HIDE DEF c, m, n
<1>2. \A j \in 1..n : m + j \in 1..(m + n) /\ c[m + j] = b[j]
  <2> TAKE j \in 1..n
  <2>1. m + j \in 1..(m + n) /\ m + j > m /\ (m + j) - m = j
    BY <1>1
  <2> QED  BY <1>1, <2>1
<1>3. \A i \in 1..(m + n) : i \in 1..m \/ (i > m /\ i - m \in 1..n /\ m + (i - m) = i)
  BY <1>1
<1>4. Range(c) = Range(a) \cup Range(b)
  <2>1. ASSUME NEW i \in 1..(m + n) PROVE c[i] \in Range(a) \cup Range(b)
    BY <1>1, <1>3 DEF Range
  <2>2. ASSUME NEW i \in 1..m PROVE a[i] \in Range(c)
    <3>1. i \in 1..(m + n)
      BY <1>1
    <3> QED  BY <1>1, <3>1 DEF Range
  <2>3. ASSUME NEW j \in 1..n PROVE b[j] \in Range(c)
    BY <1>1, <1>2 DEF Range
  <2> QED  BY <1>1, <2>1, <2>2, <2>3 DEF Range
<1>5. ASSUME IsInjective(c) PROVE IsInjective(a) /\ IsInjective(b)
  <2>1. \A i, j \in 1..(m + n) : c[i] = c[j] => i = j
    BY <1>1, <1>5 DEF IsInjective
  <2>2. \A i, j \in 1..m : a[i] = a[j] => i = j
    BY <1>1, <2>1
  <2>3. \A i, j \in 1..n : b[i] = b[j] => i = j
    BY <1>1, <1>2, <2>1
  <2> QED  BY <1>1, <2>2, <2>3 DEF IsInjective
<1>6. ASSUME Range(a) \cap Range(b) = {}, IsInjective(a), IsInjective(b) PROVE IsInjective(c)
  <2> SUFFICES ASSUME NEW i \in 1..(m + n), NEW j \in 1..(m + n), c[i] = c[j] PROVE i = j
    BY <1>1 DEF IsInjective
  <2>1. \A k \in 1..m, l \in 1..n : a[k] # b[l]
    BY <1>1, <1>6 DEF Range
  <2>2. /\ \A k, l \in 1..m : a[k] = a[l] => k = l
        /\ \A k, l \in 1..n : b[k] = b[l] => k = l
    BY <1>1, <1>6 DEF IsInjective
  <2>3. CASE i \in 1..m /\ j \in 1..m
    BY <1>1, <2>2, <2>3
  <2>4. CASE i \in 1..m /\ j > m
    BY <1>1, <1>3, <2>1, <2>4
  <2>5. CASE i > m /\ j \in 1..m
    BY <1>1, <1>3, <2>1, <2>5
  <2>6. CASE i > m /\ j > m
    <3>1. i - m = j - m
      BY <1>1, <1>3, <2>2, <2>6
    <3> QED  BY <1>1, <1>3, <2>6, <3>1
  <2> QED  BY <1>3, <2>3, <2>4, <2>5, <2>6
<1> QED  BY <1>1, <1>4, <1>5, <1>6 DEF c

\* What FlattenSeq holds, and when it repeats nothing.
Apart(seqs) ==
  \A i, j \in DOMAIN seqs : i # j => Range(seqs[i]) \cap Range(seqs[j]) = {}

LEMMA FlattenContent ==
  ASSUME NEW S, NEW seqs \in Seq(Seq(S))
  PROVE  /\ Range(FlattenSeq(seqs)) = UNION {Range(seqs[i]) : i \in DOMAIN seqs}
         /\ Apart(seqs) =>
              (IsInjective(FlattenSeq(seqs)) <=> \A i \in DOMAIN seqs : IsInjective(seqs[i]))
<1> DEFINE n == Len(seqs)
           Upto(k) == UNION {Range(seqs[i]) : i \in 1..k}
           Holds(q, k) == /\ q \in Seq(S)
                          /\ Range(q) = Upto(k)
                          /\ Apart(seqs) =>
                               (IsInjective(q) <=> \A i \in 1..k : IsInjective(seqs[i]))
<1>0. n \in Nat /\ DOMAIN seqs = 1..n /\ \A i \in 1..n : seqs[i] \in Seq(S)
  OBVIOUS
<1>1. CASE n = 0
  <2>1. FlattenSeq(seqs) = << >>
    BY <1>1 DEF FlattenSeq
  <2>2. Range(<< >>) = {} /\ IsInjective(<< >>)
    BY DEF Range, IsInjective
  <2> QED  BY <1>0, <1>1, <2>1, <2>2
<1>2. CASE n # 0
  <2> DEFINE F == CHOOSE f : FlattenUpTo(seqs, n, f)
             Bad == {j \in 1..n : ~Holds(F[j], j)}
  <2>1. FlattenSeq(seqs) = F[n]
    BY <1>2 DEF FlattenSeq, FlattenUpTo
  <2>2. FlattenUpTo(seqs, n, F)
    BY <1>0, <1>2, FlattenExists DEF FlattenHas
  <2> HIDE DEF F, n
  <2>3. \A i \in 1..n : F[i] = IF i = 1 THEN seqs[i] ELSE F[i-1] \o seqs[i]
    BY <2>2 DEF FlattenUpTo
  <2>4. Bad \subseteq Nat
    BY <1>0
  <2>5. ASSUME Bad # {} PROVE FALSE
    <3>1. PICK j \in Bad : \A i \in Bad : j <= i
      <4> HIDE DEF Bad
      <4> QED  BY <2>4, <2>5, LeastNat
    <3>2. j \in 1..n /\ seqs[j] \in Seq(S) /\ ~Holds(F[j], j)
      BY <1>0
    <3>3. CASE j = 1
      <4>1. F[1] = seqs[1] /\ 1..1 = {1}
        BY <2>3, <3>2, <3>3
      <4>2. Upto(1) = Range(seqs[1])
        BY <4>1
      <4> QED  BY <3>2, <3>3, <4>1, <4>2
    <3>4. CASE j # 1
      <4>1. j - 1 \in 1..n /\ ~(j <= j - 1) /\ 1..j = (1..(j - 1)) \cup {j} /\ j \notin 1..(j - 1)
        BY <1>0, <3>2, <3>4
      <4>2. Holds(F[j-1], j - 1)
        BY <3>1, <4>1
      <4> DEFINE q == F[j-1]
                 k == j - 1
      <4>3. F[j] = q \o seqs[j]
        BY <2>3, <3>2, <3>4
      <4> HIDE DEF q
      <4>4. Upto(j) = Upto(k) \cup Range(seqs[j])
        <5> DEFINE R(i) == Range(seqs[i])
        <5>1. UNION {R(i) : i \in 1..j} = (UNION {R(i) : i \in 1..k}) \cup R(j)
          <6> HIDE DEF R
          <6> QED  BY <4>1
        <5> QED  BY <5>1
      <4>5. F[j] \in Seq(S) /\ Range(F[j]) = Upto(j)
        <5>1. q \in Seq(S) /\ Range(q) = Upto(k)
          BY <4>2 DEF q
        <5>2. q \o seqs[j] \in Seq(S) /\ Range(q \o seqs[j]) = Range(q) \cup Range(seqs[j])
          BY <3>2, <5>1, ConcatFacts
        <5> QED  BY <4>3, <4>4, <5>1, <5>2
      <4>6. ASSUME Apart(seqs)
            PROVE  IsInjective(F[j]) <=> \A i \in 1..j : IsInjective(seqs[i])
        <5>1. Range(q) \cap Range(seqs[j]) = {}
          <6>1. \A i \in 1..k : i \in 1..n /\ i # j
            BY <1>0, <3>2, <4>1
          <6>2. \A i \in 1..k : Range(seqs[i]) \cap Range(seqs[j]) = {}
            BY <1>0, <3>2, <4>6, <6>1 DEF Apart
          <6> QED  BY <4>2, <6>2 DEF q
        <5>2. IsInjective(F[j]) <=> IsInjective(q) /\ IsInjective(seqs[j])
          BY <3>2, <4>2, <4>3, <5>1, ConcatFacts DEF q
        <5> QED  BY <4>1, <4>2, <4>6, <5>2 DEF q
      <4> QED  BY <3>2, <4>5, <4>6
    <3> QED  BY <3>3, <3>4
  <2>6. Holds(F[n], n)
    <3>1. n \in 1..n
      BY <1>0, <1>2
    <3> QED  BY <2>5, <3>1
  <2> QED  BY <1>0, <2>1, <2>6
<1> QED  BY <1>1, <1>2

----------------------------------------------------------------------------
(* Files and their orders *)

LEMMA FileFacts ==
  ASSUME NEW f \in Files
  PROVE  /\ Len(f) \in Nat /\ DOMAIN f = 1..Len(f)
         /\ \A i \in DOMAIN f : f[i].id \in TaskIds /\ f[i].depends_on \in Seq(TaskIds)
         /\ TaskIdsOf(f) \in [DOMAIN f -> TaskIds]
         /\ IsInjective(TaskIdsOf(f))
         /\ \A i \in DOMAIN f : TaskIdsOf(f)[i] = f[i].id
         /\ Range(TaskIdsOf(f)) \subseteq TaskIds
<1> DEFINE Resource == [id : TaskIds, depends_on : Seq(TaskIds)]
<1>1. f \in Seq(Resource) /\ IsInjective([i \in DOMAIN f |-> f[i].id])
  BY FilesAssumption
<1> HIDE DEF Resource
<1>2. \A i \in DOMAIN f : f[i] \in Resource
  BY <1>1
<1>3. TaskIdsOf(f) \in [DOMAIN f -> TaskIds]
  BY <1>2 DEF TaskIdsOf, Resource
<1>4. \A i \in DOMAIN f : TaskIdsOf(f)[i] = f[i].id
  BY DEF TaskIdsOf
<1>5. IsInjective(TaskIdsOf(f)) /\ Len(f) \in Nat /\ DOMAIN f = 1..Len(f)
  BY <1>1 DEF TaskIdsOf
<1>6. \A i \in DOMAIN f : f[i].id \in TaskIds /\ f[i].depends_on \in Seq(TaskIds)
  BY <1>2 DEF Resource
<1>7. Range(TaskIdsOf(f)) \subseteq TaskIds
  BY <1>3 DEF Range
<1> QED  BY <1>3, <1>4, <1>5, <1>6, <1>7

\* A pair leads from whatever depends_on names to a resource.
LEMMA PairsType ==
  ASSUME NEW f \in Files
  PROVE  EdgePairs[f] \in Seq(TaskIds \X Range(TaskIdsOf(f)))
<1> DEFINE P == TaskIds \X Range(TaskIdsOf(f))
           of(i) == [j \in DOMAIN f[i].depends_on |-> <<f[i].depends_on[j], f[i].id>>]
           all == [i \in DOMAIN f |-> of(i)]
<1>1. ASSUME NEW i \in DOMAIN f PROVE of(i) \in Seq(P)
  <2>1. f[i].depends_on \in Seq(TaskIds) /\ f[i].id \in Range(TaskIdsOf(f))
    BY FileFacts DEF Range
  <2> DEFINE d == f[i].depends_on
  <2>2. /\ Len(d) \in Nat /\ DOMAIN d = 1..Len(d)
        /\ \A j \in DOMAIN d : d[j] \in TaskIds
    BY <2>1
  <2> HIDE DEF d
  <2>3. [j \in DOMAIN d |-> <<d[j], f[i].id>>] \in [1..Len(d) -> P]
    BY <2>1, <2>2
  <2>4. [j \in DOMAIN d |-> <<d[j], f[i].id>>] \in Seq(P)
    BY <2>2, <2>3
  <2> QED  BY <2>4 DEF d
<1> HIDE DEF of, P
<1>2. all \in [1..Len(f) -> Seq(P)]
  BY <1>1, FileFacts
<1>3. all \in Seq(Seq(P))
  BY <1>2, FileFacts
<1>4. EdgePairs[f] = FlattenSeq(all)
  BY DEF EdgePairs, of
<1> QED  BY <1>3, <1>4, FlattenType DEF P

LEMMA PairFacts ==
  ASSUME NEW f \in Files
  PROVE  /\ Len(EdgePairs[f]) \in Nat /\ DOMAIN EdgePairs[f] = 1..Len(EdgePairs[f])
         /\ \A i \in 1..Len(EdgePairs[f]) : EdgePairs[f][i] \in Range(EdgePairs[f])
         /\ \A e \in Range(EdgePairs[f]) :
              e \in IdPairs /\ e[2] \in Range(TaskIdsOf(f))
<1>1. EdgePairs[f] \in Seq(TaskIds \X Range(TaskIdsOf(f)))
  BY PairsType
<1>2. \A e \in Range(EdgePairs[f]) : e \in TaskIds \X Range(TaskIdsOf(f))
  BY <1>1 DEF Range
<1> QED  BY <1>1, <1>2, FileFacts DEF IdPairs, Range

\* A topological order lists each resource once, upstream first, and there is
\* one only if each dependency is a resource.
LEMMA SortFacts ==
  ASSUME NEW f \in Files, NEW ids \in TopoOrderIds[f]
  PROVE  /\ ids \in [DOMAIN f -> Range(TaskIdsOf(f))]
         /\ \A i, j \in DOMAIN f : ids[i] = ids[j] => i = j
         /\ \A t \in Range(TaskIdsOf(f)) : \E i \in DOMAIN f : ids[i] = t
         /\ ids \in Bijection(DOMAIN f, Range(TaskIdsOf(f)))
         /\ \A e \in Range(EdgePairs[f]) : \E i, j \in DOMAIN f :
              i < j /\ ids[i] = e[1] /\ ids[j] = e[2]
<1> DEFINE D == DOMAIN f
           R == Range(TaskIdsOf(f))
           pairs == EdgePairs[f]
           g == ResourceDag(f, pairs)
<1>1. ids \in SortedIds(f, pairs) /\ DepsKnown(f)
  BY DEF TopoOrderIds
<1>2. PICK o \in TopoOrders(g) : ids = [i \in D |-> f[o[i]].id]
  BY <1>1 DEF SortedIds
<1>3. Nodes(g) = D
  BY DEF ResourceDag, Nodes, TaskIdsOf
<1>4. /\ o \in [D -> D] /\ \A i, j \in D : o[i] = o[j] => i = j
      /\ \A n \in D : \E i \in D : o[i] = n
      /\ \A i, j \in D : <<o[i], o[j]>> \in EdgeSet(g) => i < j
  BY <1>2, <1>3 DEF TopoOrders, IsTopoOrder, Bijection, Injection, Surjection, IsInjective
<1> HIDE DEF g
<1>5. \A i \in D : f[i].id \in R
  BY FileFacts DEF Range
<1>6. \A i, j \in D : f[i].id = f[j].id => i = j
  BY FileFacts DEF IsInjective
<1>7. \A t \in R : \E i \in D : f[i].id = t
  BY FileFacts DEF Range
<1>8. /\ ids \in [D -> R]
      /\ \A i, j \in D : ids[i] = ids[j] => i = j
      /\ \A t \in R : \E i \in D : ids[i] = t
  BY <1>2, <1>4, <1>5, <1>6, <1>7
<1>9. ids \in Bijection(D, R)
  BY <1>8 DEF Bijection, Injection, Surjection, IsInjective
<1>10. ASSUME NEW e \in Range(pairs)
       PROVE  \E i, j \in D : i < j /\ ids[i] = e[1] /\ ids[j] = e[2]
  <2>1. e[1] \in R /\ e[2] \in R
    BY <1>1, PairFacts DEF DepsKnown, IsResource
  <2>2. \A t \in R : IndexOf(f, t) \in D /\ f[IndexOf(f, t)].id = t
    BY <1>7 DEF IndexOf
  <2>3. PICK i \in D, j \in D : o[i] = IndexOf(f, e[1]) /\ o[j] = IndexOf(f, e[2])
    BY <1>4, <2>1, <2>2
  <2>4. <<o[i], o[j]>> \in EdgeSet(g)
    BY <2>3 DEF g, ResourceDag, EdgeSet, Range
  <2> QED  BY <1>2, <1>4, <2>1, <2>2, <2>3, <2>4
<1> QED  BY <1>8, <1>9, <1>10

----------------------------------------------------------------------------
(* The order of a file and the order of its dag *)

\* The pairs collected are the declared ones, and repeat one only where a
\* resource names a dependency twice.
LEMMA PairsAreDeclared ==
  ASSUME NEW f \in Files
  PROVE  /\ Range(EdgePairs[f]) = DeclaredEdges(f)
         /\ IsInjective(EdgePairs[f]) <=> \A i \in DOMAIN f : IsInjective(f[i].depends_on)
<1> DEFINE P == TaskIds \X Range(TaskIdsOf(f))
           of(i) == [j \in DOMAIN f[i].depends_on |-> <<f[i].depends_on[j], f[i].id>>]
           all == [i \in DOMAIN f |-> of(i)]
<1>1. ASSUME NEW i \in DOMAIN f
      PROVE  /\ of(i) \in Seq(P)
             /\ Range(of(i)) = {<<dep, f[i].id>> : dep \in Deps(f, i)}
             /\ IsInjective(of(i)) <=> IsInjective(f[i].depends_on)
  <2>1. f[i].depends_on \in Seq(TaskIds) /\ f[i].id \in Range(TaskIdsOf(f))
    BY FileFacts DEF Range
  <2> DEFINE d == f[i].depends_on
             q == [j \in DOMAIN d |-> <<d[j], f[i].id>>]
  <2>2. /\ Len(d) \in Nat /\ DOMAIN d = 1..Len(d)
        /\ \A j \in DOMAIN d : d[j] \in TaskIds
    BY <2>1
  <2>3. of(i) = q /\ Deps(f, i) = {d[j] : j \in DOMAIN d}
    BY DEF Deps, Range
  <2> HIDE DEF d
  <2>4. q \in [1..Len(d) -> P]
    BY <2>1, <2>2
  <2>5. q \in Seq(P)
    BY <2>2, <2>4
  <2>6. Range(q) = {<<dep, f[i].id>> : dep \in Deps(f, i)}
    BY <2>3 DEF Range
  <2>7. IsInjective(q) <=> IsInjective(d)
    BY DEF IsInjective
  <2> QED  BY <2>3, <2>5, <2>6, <2>7 DEF d
<1> HIDE DEF of, P
<1>2. all \in [1..Len(f) -> Seq(P)] /\ DOMAIN all = DOMAIN f
  BY <1>1, FileFacts
<1>3. all \in Seq(Seq(P))
  BY <1>2, FileFacts
<1>4. EdgePairs[f] = FlattenSeq(all)
  BY DEF EdgePairs, of
<1>5. \A i \in DOMAIN f : all[i] = of(i)
  OBVIOUS
<1>6. Apart(all)
  <2> SUFFICES ASSUME NEW i \in DOMAIN f, NEW j \in DOMAIN f, i # j
               PROVE  Range(of(i)) \cap Range(of(j)) = {}
    BY <1>2, <1>5 DEF Apart
  <2>1. f[i].id # f[j].id
    BY FileFacts DEF IsInjective
  <2> QED  BY <1>1, <2>1
<1> HIDE DEF all
<1>7. Range(FlattenSeq(all)) = UNION {Range(all[i]) : i \in DOMAIN all}
  BY <1>3, FlattenContent
<1>8. IsInjective(FlattenSeq(all)) <=> \A i \in DOMAIN all : IsInjective(all[i])
  BY <1>3, <1>6, FlattenContent
<1>9. UNION {Range(all[i]) : i \in DOMAIN all} = DeclaredEdges(f)
  <2>1. \A i \in DOMAIN f : Range(all[i]) = {<<dep, f[i].id>> : dep \in Deps(f, i)}
    BY <1>1, <1>5
  <2> QED  BY <1>2, <2>1 DEF DeclaredEdges
<1> QED  BY <1>1, <1>2, <1>4, <1>5, <1>7, <1>8, <1>9

\* The dag built by name has the resources for nodes and the pairs for edges.
LEMMA ResourceDagFacts ==
  ASSUME NEW f \in Files, DepsKnown(f), IsInjective(EdgePairs[f]),
         NEW g, g = ResourceDag(f, EdgePairs[f])
  PROVE  /\ IsDag(g) /\ DistinctIds(g) /\ Nodes(g) = DOMAIN f
         /\ Ids(g) = Range(TaskIdsOf(f)) /\ IdEdges(g) = Range(EdgePairs[f])
         /\ \A o \in TopoOrders(g) : IdsAlong(g, o) = [i \in DOMAIN f |-> f[o[i]].id]
<1> DEFINE pairs == EdgePairs[f]
           N == DOMAIN f
           R == Range(TaskIdsOf(f))
           ends(e) == <<IndexOf(f, e[1]), IndexOf(f, e[2])>>
<1>1. \A t \in R : IndexOf(f, t) \in N /\ f[IndexOf(f, t)].id = t
  <2>1. \A t \in R : \E i \in N : f[i].id = t
    BY FileFacts DEF Range
  <2> QED  BY <2>1 DEF IndexOf
<1>2. /\ Len(pairs) \in Nat /\ DOMAIN pairs = 1..Len(pairs)
      /\ \A k \in DOMAIN pairs : pairs[k][1] \in R /\ pairs[k][2] \in R
                                 /\ pairs[k] = <<pairs[k][1], pairs[k][2]>>
  <2>1. pairs \in Seq(TaskIds \X R)
    BY PairsType
  <2>2. \A k \in DOMAIN pairs : pairs[k] \in TaskIds \X R /\ pairs[k] \in Range(pairs)
    BY <2>1 DEF Range
  <2>3. \A k \in DOMAIN pairs : pairs[k][1] \in R
    BY <2>2 DEF DepsKnown, IsResource
  <2> QED  BY <2>1, <2>2, <2>3
<1>3. g.ids = TaskIdsOf(f) /\ g.edges = [k \in DOMAIN pairs |-> ends(pairs[k])]
  BY DEF ResourceDag
<1>4. Nodes(g) = N /\ N = 1..Len(f) /\ Len(f) \in Nat /\ \A i \in N : g.ids[i] = f[i].id
  BY <1>3, FileFacts DEF Nodes
<1>5. /\ DOMAIN g.edges = 1..Len(pairs)
      /\ \A k \in 1..Len(pairs) : g.edges[k] = ends(pairs[k]) /\ g.edges[k] \in N \X N
  BY <1>1, <1>2, <1>3
<1>6. g.edges \in Seq(N \X N)
  <2>1. g.edges \in [1..Len(pairs) -> N \X N]
    <3> DEFINE q == [k \in DOMAIN pairs |-> ends(pairs[k])]
    <3>1. \A k \in 1..Len(pairs) : q[k] \in N \X N
      BY <1>1, <1>2
    <3>2. q \in [1..Len(pairs) -> N \X N]
      BY <1>2, <3>1
    <3> QED  BY <1>3, <3>2
  <2> QED  BY <1>2, <2>1
<1>7. IsInjective(g.edges)
  <2> SUFFICES ASSUME NEW k \in 1..Len(pairs), NEW l \in 1..Len(pairs), g.edges[k] = g.edges[l]
               PROVE  k = l
    BY <1>5 DEF IsInjective
  <2>1. /\ IndexOf(f, pairs[k][1]) = IndexOf(f, pairs[l][1])
        /\ IndexOf(f, pairs[k][2]) = IndexOf(f, pairs[l][2])
    BY <1>5
  <2>2. pairs[k][1] = pairs[l][1] /\ pairs[k][2] = pairs[l][2]
    BY <1>1, <1>2, <2>1
  <2> QED  BY <1>2, <2>2 DEF IsInjective
<1>8. IsDag(g)
  <2>1. TaskIdsOf(f) \in Seq(TaskIds)
    BY FileFacts
  <2>2. Seq(N \X N) \subseteq Seq(Nat \X Nat)
    BY <1>4
  <2>3. g \in [ids : Seq(TaskIds), edges : Seq(Nat \X Nat)]
    BY <1>3, <1>6, <2>1, <2>2 DEF ResourceDag
  <2> QED  BY <1>4, <1>6, <1>7, <2>3 DEF IsDag
<1>9. ASSUME NEW k \in 1..Len(pairs) PROVE IdEdge(g, g.edges[k]) = pairs[k]
  <2>1. /\ g.edges[k][1] = IndexOf(f, pairs[k][1])
        /\ g.edges[k][2] = IndexOf(f, pairs[k][2])
    BY <1>5
  <2>2. g.ids[g.edges[k][1]] = pairs[k][1] /\ g.ids[g.edges[k][2]] = pairs[k][2]
    BY <1>1, <1>2, <1>4, <2>1
  <2> QED  BY <1>2, <2>2 DEF IdEdge
<1>10. IdEdges(g) = Range(pairs)
  BY <1>2, <1>5, <1>9 DEF IdEdges, EdgeSet, Range
<1>11. DistinctIds(g) /\ Ids(g) = R
  BY <1>3, FileFacts DEF DistinctIds, Ids
<1>12. ASSUME NEW o \in TopoOrders(g) PROVE IdsAlong(g, o) = [i \in N |-> f[o[i]].id]
  <2>1. \A i \in N : o[i] \in N
    BY <1>4 DEF TopoOrders, IsTopoOrder, Bijection, Injection
  <2> QED  BY <1>4, <2>1 DEF IdsAlong
<1> QED  BY <1>4, <1>8, <1>10, <1>11, <1>12

\* Positions in an order are a rank.
LEMMA OrderedIsAcceptable ==
  ASSUME NEW f \in Files, NEW ids \in TopoOrderIds[f]
  PROVE  Acceptable(f)
<1> DEFINE R == Range(TaskIdsOf(f))
           rank == [t \in R |-> CHOOSE i \in DOMAIN f : ids[i] = t]
<1>1. DepsKnown(f) /\ IsInjective(EdgePairs[f])
  BY DEF TopoOrderIds
<1>2. \A t \in R : rank[t] \in DOMAIN f /\ ids[rank[t]] = t
  BY SortFacts
<1> HIDE DEF rank
<1>3. ASSUME NEW e \in DeclaredEdges(f) PROVE e[1] \in R /\ rank[e[1]] < rank[e[2]]
  <2>1. e \in Range(EdgePairs[f])
    BY PairsAreDeclared
  <2>2. e[1] \in R /\ e[2] \in R
    BY <1>1, <2>1, PairFacts DEF DepsKnown, IsResource
  <2>3. PICK i \in DOMAIN f, j \in DOMAIN f : i < j /\ ids[i] = e[1] /\ ids[j] = e[2]
    BY <2>1, SortFacts
  <2>4. rank[e[1]] = i /\ rank[e[2]] = j
    BY <1>2, <2>2, <2>3, SortFacts
  <2> QED  BY <2>2, <2>3, <2>4
<1>4. TaskIdsOf(f) = SpecIds(f)
  BY DEF TaskIdsOf, SpecIds
<1>5. rank \in [R -> DOMAIN f]
  BY <1>2 DEF rank
<1>6. DistinctSpec(f) /\ \A i \in DOMAIN f : IsInjective(f[i].depends_on)
  BY <1>1, <1>4, FileFacts, PairsAreDeclared DEF DistinctSpec
<1> QED  BY <1>3, <1>4, <1>5, <1>6 DEF Acceptable

\* With a rank, no set of resources is closed under going upstream.
LEMMA AcceptableIsOrdered ==
  ASSUME NEW f \in Files, Acceptable(f)
  PROVE  /\ DepsKnown(f) /\ IsInjective(EdgePairs[f])
         /\ TopoOrders(ResourceDag(f, EdgePairs[f])) # {}
<1> DEFINE g == ResourceDag(f, EdgePairs[f])
<1>1. TaskIdsOf(f) = SpecIds(f) /\ Range(EdgePairs[f]) = DeclaredEdges(f)
  BY PairsAreDeclared DEF TaskIdsOf, SpecIds
<1>2. PICK rank \in [Range(TaskIdsOf(f)) -> DOMAIN f] :
        \A e \in Range(EdgePairs[f]) : e[1] \in DOMAIN rank /\ rank[e[1]] < rank[e[2]]
  BY <1>1 DEF Acceptable
<1>3. IsInjective(EdgePairs[f])
  BY PairsAreDeclared DEF Acceptable
<1>4. DepsKnown(f)
  BY <1>2 DEF DepsKnown, IsResource
<1>5. /\ IsDag(g) /\ Nodes(g) = DOMAIN f /\ Ids(g) = Range(TaskIdsOf(f))
      /\ IdEdges(g) = Range(EdgePairs[f])
  BY <1>3, <1>4, ResourceDagFacts
<1> HIDE DEF g
<1>6. ~IsCyclicDirected(g)
  <2> SUFFICES ASSUME NEW S \in SUBSET Nodes(g), S # {}, HasParentWithin(g, S) PROVE FALSE
    BY DEF IsCyclicDirected
  <2> DEFINE T == {rank[g.ids[n]] : n \in S}
  <2>1. \A n \in S : g.ids[n] \in Range(TaskIdsOf(f)) /\ rank[g.ids[n]] \in Nat
    <3>1. \A n \in S : g.ids[n] \in Ids(g)
      BY DEF Ids, Nodes, Range
    <3>2. DOMAIN f \subseteq Nat
      BY FileFacts
    <3> QED  BY <1>5, <3>1, <3>2
  <2>2. T \subseteq Nat /\ T # {}
    BY <2>1
  <2>3. PICK r \in T : \A q \in T : r <= q
    <3> HIDE DEF T
    <3> QED  BY <2>2, LeastNat
  <2>4. PICK n \in S : r = rank[g.ids[n]]
    OBVIOUS
  <2>5. PICK m \in S : m \in Parents(g, n)
    BY DEF HasParentWithin
  <2>6. <<g.ids[m], g.ids[n]>> \in IdEdges(g)
    BY <2>5 DEF Parents, IdEdges, IdEdge
  <2>7. rank[g.ids[m]] < r /\ rank[g.ids[m]] \in T
    BY <1>2, <1>5, <2>4, <2>6
  <2> QED  BY <2>1, <2>3, <2>4, <2>7
<1> QED  BY <1>3, <1>4, <1>5, <1>6, AcyclicHasTopoOrder DEF g

\* topo_order_from_resources finds an order for exactly the files that declare an
\* acceptable task list, and the orders it may find are those of the list's ids
\* that respect the dependencies (forjar.rs:266-291).
THEOREM OrdersOfFiles ==
  ASSUME NEW f \in Files
  PROVE  /\ TopoOrderIds[f] # {} <=> Acceptable(f)
         /\ Acceptable(f) =>
              TopoOrderIds[f] = IdOrders(DOMAIN f, Range(SpecIds(f)), DeclaredEdges(f))
<1>1. TopoOrderIds[f] # {} => Acceptable(f)
  BY OrderedIsAcceptable
<1>2. ASSUME Acceptable(f)
      PROVE  /\ TopoOrderIds[f] # {}
             /\ TopoOrderIds[f] = IdOrders(DOMAIN f, Range(SpecIds(f)), DeclaredEdges(f))
  <2> DEFINE g == ResourceDag(f, EdgePairs[f])
  <2>1. DepsKnown(f) /\ IsInjective(EdgePairs[f]) /\ TopoOrders(g) # {}
    BY <1>2, AcceptableIsOrdered
  <2>2. TopoOrderIds[f] = SortedIds(f, EdgePairs[f])
    BY <2>1 DEF TopoOrderIds
  <2>3. /\ IsDag(g) /\ DistinctIds(g) /\ Nodes(g) = DOMAIN f
        /\ Ids(g) = Range(TaskIdsOf(f)) /\ IdEdges(g) = Range(EdgePairs[f])
        /\ \A o \in TopoOrders(g) : IdsAlong(g, o) = [i \in DOMAIN f |-> f[o[i]].id]
    BY <2>1, ResourceDagFacts
  <2> HIDE DEF g
  <2>4. SortedIds(f, EdgePairs[f]) = {IdsAlong(g, o) : o \in TopoOrders(g)}
    <3> DEFINE H(o) == [i \in DOMAIN f |-> f[o[i]].id]
    <3>1. SortedIds(f, EdgePairs[f]) = {H(o) : o \in TopoOrders(g)}
      BY DEF SortedIds, g
    <3>2. \A o \in TopoOrders(g) : IdsAlong(g, o) = H(o)
      BY <2>3
    <3> HIDE DEF H
    <3> QED  BY <3>1, <3>2
  <2>5. {IdsAlong(g, o) : o \in TopoOrders(g)} = IdOrders(Nodes(g), Ids(g), IdEdges(g))
    BY <2>3, OrdersThroughIds
  <2>6. Ids(g) = Range(SpecIds(f)) /\ IdEdges(g) = DeclaredEdges(f)
    BY <2>3, PairsAreDeclared DEF TaskIdsOf, SpecIds
  <2> QED  BY <2>1, <2>2, <2>3, <2>4, <2>5, <2>6
<1> QED  BY <1>1, <1>2

\* Contract C3: where the two runners are given the same task list, ForjarRunner
\* as a file and LocalRunner as the dag that a builder made of it, they accept the
\* same lists and choose among the same orders.  That the builders return such a
\* dag is DagIsDeclared of SpecBuild.
THEOREM RunnersAgree ==
  ASSUME NEW f \in Files, \A i \in DOMAIN f : IsInjective(f[i].depends_on),
         NEW g, IsDag(g), g.ids = SpecIds(f), IdEdges(g) = DeclaredEdges(f)
  PROVE  /\ TopoOrderIds[f] = {IdsAlong(g, o) : o \in TopoOrders(g)}
         /\ TopoSortOk(g) <=> Acceptable(f)
         /\ \A p : IsChain(g, p) => TopoOrderIds[f] \subseteq {IdsAlong(g, p)}
<1> DEFINE Orders == IdOrders(DOMAIN f, Range(SpecIds(f)), DeclaredEdges(f))
<1>1. TaskIdsOf(f) = SpecIds(f)
  BY DEF TaskIdsOf, SpecIds
<1>2. DistinctIds(g) /\ Ids(g) = Range(SpecIds(f)) /\ Nodes(g) = DOMAIN f
  BY <1>1, FileFacts DEF DistinctIds, Ids, Nodes
<1>3. {IdsAlong(g, o) : o \in TopoOrders(g)} = Orders
  BY <1>2, OrdersThroughIds
<1>4. TopoOrderIds[f] \subseteq Orders
  <2>1. CASE Acceptable(f)
    BY <2>1, OrdersOfFiles
  <2>2. CASE ~Acceptable(f)
    BY <2>2, OrdersOfFiles
  <2> QED  BY <2>1, <2>2
<1>5. Orders # {} => Acceptable(f)
  <2> SUFFICES ASSUME NEW s \in Orders PROVE Acceptable(f)
    OBVIOUS
  <2> DEFINE R == Range(SpecIds(f))
             rank == [t \in R |-> CHOOSE i \in DOMAIN f : s[i] = t]
  <2>1. \A t \in R : \E i \in DOMAIN f : s[i] = t
    BY DEF IdOrders, Bijection, Surjection
  <2>2. \A t \in R : rank[t] \in DOMAIN f /\ s[rank[t]] = t
    BY <2>1
  <2>3. rank \in [R -> DOMAIN f]
    BY <2>2
  <2> HIDE DEF rank
  <2>4. ASSUME NEW e \in DeclaredEdges(f) PROVE e[1] \in R /\ rank[e[1]] < rank[e[2]]
    <3>1. PICK d \in EdgeSet(g) : e = IdEdge(g, d)
      BY DEF IdEdges
    <3>2. d[1] \in Nodes(g) /\ d[2] \in Nodes(g)
      BY NodesOfDag
    <3>3. e = <<e[1], e[2]>> /\ e[1] \in R /\ e[2] \in R
      BY <1>2, <3>1, <3>2 DEF IdEdge, Ids, Range, Nodes
    <3>4. <<s[rank[e[1]]], s[rank[e[2]]]>> \in DeclaredEdges(f)
      BY <2>2, <3>3
    <3> QED  BY <2>2, <3>3, <3>4 DEF IdOrders
  <2>5. DistinctSpec(f)
    BY <1>1, FileFacts DEF DistinctSpec
  <2> QED  BY <2>3, <2>4, <2>5 DEF Acceptable
<1>6. TopoOrderIds[f] = Orders
  <2>1. CASE Acceptable(f)
    BY <2>1, OrdersOfFiles
  <2>2. CASE ~Acceptable(f)
    BY <1>4, <1>5, <2>2
  <2> QED  BY <2>1, <2>2
<1>7. TopoSortOk(g) <=> Acceptable(f)
  <2>1. Orders # {} <=> TopoOrders(g) # {}
    <3> HIDE DEF Orders
    <3> QED  BY <1>3
  <2> QED  BY <1>5, <1>6, <2>1, OrdersOfFiles DEF TopoSortOk
<1>8. ASSUME NEW p, IsChain(g, p) PROVE TopoOrderIds[f] \subseteq {IdsAlong(g, p)}
  <2>1. \A o \in TopoOrders(g) : o = p
    BY <1>8, ChainHasOneOrder
  <2> QED  BY <1>3, <1>6, <2>1
<1> QED  BY <1>3, <1>6, <1>7, <1>8

----------------------------------------------------------------------------
(* The inductive invariant, in the order in which its parts are proved *)

IdsOf(a)     == Range(TaskIdsOf(file[a]))
Ordered(a)   == topo_order[a] \in TopoOrderIds[file[a]]
Did(a, t)    == task_states[a][t] = "Succeeded"
HasRow(a, t) == <<RunOf[a], t>> \in DOMAIN taskRuns
Fresh(a)     == \A t \in TaskIds : task_states[a][t] = "unset"

\* What the program counter says of the local variables.
ControlOf(a) ==
  /\ pc[a] \in {"recording", "ok"} => Ordered(a)
  /\ pc[a] \in {"idle", "edges", "running", "failing", "valid", "invalid"} => Fresh(a)
  /\ pc[a] = "idle" => pos[a] = 1
  /\ pc[a] \in {"valid", "invalid", "ok"} => ~More(a)
  /\ \A t \in TaskIds : task_states[a][t] # "unset" => Did(a, t) /\ Ordered(a)

ControlOK == \A a \in Attempts : ControlOf(a)

\* A row is of its last writer's file, and Succeeded exactly if the writer
\* remembers so; one who wrote Failed has no success to remember.
RowOf(k, a) ==
  /\ k[1] = RunOf[a] /\ k[2] \in IdsOf(a) /\ pc[a] \notin {"idle", "edges"}
  /\ taskRuns[k].state \in {"Running", "Failed", "Succeeded"}
  /\ taskRuns[k].state = "Succeeded" <=> Did(a, k[2])
  /\ taskRuns[k].state = "Succeeded" => taskRuns[k].output = "value"
  /\ taskRuns[k].state = "Failed" =>
       pc[a] \in {"failing", "invalid", "err", "crashed"} /\ Fresh(a)

RowsOK == \A k \in DOMAIN taskRuns : RowOf(k, taskRuns[k].by)

\* How far the loops over the tasks have come.
ProgressOf(a) ==
  /\ pc[a] = "running" =>
       \A i \in DOMAIN file[a] : i < pos[a] => HasRow(a, file[a][i].id)
  /\ pc[a] \in {"failing", "valid", "recording", "ok", "invalid"} =>
       \A i \in DOMAIN file[a] : HasRow(a, file[a][i].id)
  /\ \A t \in TaskIds : Did(a, t) => HasRow(a, t)
  /\ pc[a] \in {"failing", "invalid"} =>
       \A i \in DOMAIN file[a] : LET k == <<RunOf[a], file[a][i].id>> IN
         i < pos[a] /\ taskRuns[k].by = a => taskRuns[k].state = "Failed"

ProgressOK == \A a \in Attempts : ProgressOf(a)

\* The successes are the first ones of the order, for a dead attempt too.
PrefixOf(a) ==
  /\ pc[a] \in {"recording", "ok"} =>
       \A i \in DOMAIN file[a] : Did(a, topo_order[a][i]) <=> i < pos[a]
  /\ Ordered(a) => \A i, j \in DOMAIN file[a] :
       i < j /\ Did(a, topo_order[a][j]) => Did(a, topo_order[a][i])

PrefixOK == \A a \in Attempts : PrefixOf(a)

PastEdges      == PcValues \ {"idle", "edges", "err", "crashed"}
Recorded(a, e) == <<RunOf[a], e>> \in lineageEdges
Wrote(a)       == \E k \in DOMAIN taskRuns : taskRuns[k].by = a

\* The edges an attempt has recorded: those it has looped over, and all of
\* them once it is past the loop or has written a row.
EdgesOf(a) ==
  /\ pc[a] = "edges" => \A i \in DOMAIN EdgePairs[file[a]] :
       i < pos[a] => Recorded(a, EdgePairs[file[a]][i])
  /\ pc[a] \in PastEdges \/ Wrote(a) =>
       \A e \in Range(EdgePairs[file[a]]) : Recorded(a, e)

EdgesOK ==
  /\ \A a \in Attempts : EdgesOf(a)
  /\ \A l \in lineageEdges : \E a \in Attempts :
       pc[a] # "idle" /\ l[1] = RunOf[a] /\ l[2] \in Range(EdgePairs[file[a]])

----------------------------------------------------------------------------
(* Facts used throughout *)

Act(a) == Reject(a) \/ Begin(a) \/ Step(a) \/ Crash(a)

LEMMA OthersUnchanged ==
  ASSUME TypeOK, NEW a \in Attempts, Act(a), NEW b \in Attempts \ {a}
  PROVE  /\ pc'[b] = pc[b] /\ pos'[b] = pos[b]
         /\ topo_order'[b] = topo_order[b] /\ task_states'[b] = task_states[b]
BY DEF TypeOK, Act, Reject, Begin, Step, RecordNextEdge, CheckForjarPresent, MarkRunning,
       ValidateOk, ValidateFails, MarkFailed, Bail, Sort, MarkSucceeded, ReturnOk,
       ReturnErr, Crash, OnlyGoto, Goto, Advance, Restart

\* A file is read once, and what is asked of forjar is not looked at again.
LEMMA FileIsKept ==
  ASSUME [Next]_vars
  PROVE  file' = file
BY DEF Next, vars, localVars, Reject, Begin, Step, RecordNextEdge, CheckForjarPresent,
       MarkRunning, ValidateOk, ValidateFails, MarkFailed, Bail, Sort, MarkSucceeded,
       ReturnOk, ReturnErr, Crash, OnlyGoto

LEMMA FileOf ==
  ASSUME TypeOK, NEW a \in Attempts
  PROVE  /\ file[a] \in Files /\ Len(file[a]) \in Nat
         /\ DOMAIN file[a] = 1..Len(file[a])
         /\ IdsOf(a) \subseteq TaskIds
         /\ \A i \in DOMAIN file[a] : file[a][i].id \in IdsOf(a)
         /\ \A t \in IdsOf(a) : \E i \in DOMAIN file[a] : file[a][i].id = t
<1>1. file[a] \in Files
  BY DEF TypeOK
<1> QED  BY <1>1, FileFacts DEF IdsOf, Range

LEMMA OrderOf ==
  ASSUME TypeOK, NEW a \in Attempts, Ordered(a)
  PROVE  /\ \A i \in DOMAIN file[a] : topo_order[a][i] \in IdsOf(a) /\ topo_order[a][i] \in TaskIds
         /\ \A i, j \in DOMAIN file[a] : topo_order[a][i] = topo_order[a][j] => i = j
         /\ \A t \in IdsOf(a) : \E i \in DOMAIN file[a] : topo_order[a][i] = t
         /\ \A e \in Range(EdgePairs[file[a]]) : \E i, j \in DOMAIN file[a] :
              i < j /\ topo_order[a][i] = e[1] /\ topo_order[a][j] = e[2]
<1>1. file[a] \in Files /\ topo_order[a] \in TopoOrderIds[file[a]] /\ IdsOf(a) \subseteq TaskIds
  BY FileOf DEF Ordered
<1>2. topo_order[a] \in [DOMAIN file[a] -> IdsOf(a)]
  BY <1>1, SortFacts DEF IdsOf
<1> QED  BY <1>1, <1>2, SortFacts DEF IdsOf

\* While tasks are left, the loops are at a task of the file.
LEMMA TaskOfLoop ==
  ASSUME TypeOK, ControlOK, NEW a \in Attempts, More(a)
  PROVE  /\ pos[a] \in DOMAIN file[a]
         /\ file[a][pos[a]].id \in IdsOf(a)
         /\ pc[a] = "recording" => topo_order[a][pos[a]] \in IdsOf(a)
<1>1. pos[a] \in DOMAIN file[a]
  BY FileOf DEF TypeOK, More
<1>2. pc[a] = "recording" => topo_order[a] \in [DOMAIN file[a] -> IdsOf(a)]
  BY FileOf, SortFacts DEF ControlOK, ControlOf, Ordered, IdsOf
<1> QED  BY <1>1, <1>2, FileOf

\* What PersistState leaves in the store.
LEMMA PersistFacts ==
  ASSUME TypeOK, NEW a \in Attempts, NEW t \in TaskIds, NEW state \in TaskStates,
         NEW output \in Outputs, PersistState(a, t, state, output)
  PROVE  /\ DOMAIN taskRuns' = DOMAIN taskRuns \cup {<<RunOf[a], t>>}
         /\ taskRuns'[<<RunOf[a], t>>].by = a
         /\ taskRuns'[<<RunOf[a], t>>].state = state
         /\ taskRuns'[<<RunOf[a], t>>].output = output
         /\ \A k \in DOMAIN taskRuns \ {<<RunOf[a], t>>} : taskRuns'[k] = taskRuns[k]
         /\ DOMAIN taskRuns' \subseteq Runs \X TaskIds
         /\ taskRuns' \in [DOMAIN taskRuns' -> Row]
<1> DEFINE key == <<RunOf[a], t>>
           rec == [state |-> state, started_at |-> a,
                   finished_at |-> IF state \in Terminal THEN a ELSE Null,
                   output |-> output, by |-> a]
<1>1. key \in Runs \X TaskIds
  BY RunOfAssumption
<1>2. taskRuns' = [k \in DOMAIN taskRuns \cup {key} |->
                     IF k = key THEN Upsert(k, rec) ELSE taskRuns[k]]
  BY DEF PersistState, RecordTaskRun
<1>3. rec \in Row
  BY DEF Row
<1>4. /\ DOMAIN taskRuns \subseteq Runs \X TaskIds
      /\ \A k \in DOMAIN taskRuns : taskRuns[k] \in Row
  BY DEF TypeOK, StoreTypeOK
<1>5. \A k : Upsert(k, rec) \in Row
  BY <1>3, <1>4 DEF Upsert, Row
<1>6. Upsert(key, rec).by = a /\ Upsert(key, rec).state = state /\ Upsert(key, rec).output = output
  BY DEF Upsert
<1> HIDE DEF key, rec
<1>7. /\ DOMAIN taskRuns' \subseteq Runs \X TaskIds
      /\ taskRuns' \in [DOMAIN taskRuns' -> Row]
  BY <1>1, <1>2, <1>4, <1>5
<1>8. /\ DOMAIN taskRuns' = DOMAIN taskRuns \cup {key}
      /\ taskRuns'[key] = Upsert(key, rec)
      /\ \A k \in DOMAIN taskRuns \ {key} : taskRuns'[k] = taskRuns[k]
  BY <1>2
<1> QED  BY <1>6, <1>7, <1>8 DEF key

\* The writes of rows, one for each of the three loops.
LEMMA RowWrites ==
  ASSUME TypeOK, ControlOK, NEW a \in Attempts, pc[a] \in {"running", "failing", "recording"}, More(a)
  PROVE  \E t \in IdsOf(a) :
           /\ t \in TaskIds
           /\ MarkRunning(a) => /\ t = file[a][pos[a]].id
                                /\ PersistState(a, t, "Running", "null")
           /\ MarkFailed(a) => /\ t = file[a][pos[a]].id
                               /\ PersistState(a, t, "Failed", "null")
           /\ MarkSucceeded(a) => /\ t = topo_order[a][pos[a]]
                                  /\ PersistState(a, t, "Succeeded", "value")
                                  /\ task_states' = [task_states EXCEPT ![a][t] = "Succeeded"]
<1>1. CASE pc[a] = "recording"
  <2>1. topo_order[a][pos[a]] \in IdsOf(a) /\ topo_order[a][pos[a]] \in TaskIds
    BY <1>1, FileOf, TaskOfLoop
  <2> QED  BY <1>1, <2>1 DEF MarkRunning, MarkFailed, MarkSucceeded
<1>2. CASE pc[a] # "recording"
  <2>1. file[a][pos[a]].id \in IdsOf(a) /\ file[a][pos[a]].id \in TaskIds
    BY FileOf, TaskOfLoop
  <2> QED  BY <1>2, <2>1 DEF MarkRunning, MarkFailed, MarkSucceeded
<1> QED  BY <1>1, <1>2

----------------------------------------------------------------------------
(* Types and control *)

LEMMA InitTypes == Init => TypeOK /\ ControlOK
<1> SUFFICES ASSUME Init PROVE TypeOK /\ ControlOK
  OBVIOUS
<1>1. StoreTypeOK
  BY DEF Init, InitSchema, StoreTypeOK
<1>2. \A a \in Attempts : Len(file[a]) \in Nat
  BY FileFacts DEF Init
<1>3. TypeOK
  BY <1>1, <1>2 DEF Init, TypeOK, PcValues, Ended
<1>4. ControlOK
  BY DEF Init, ControlOK, ControlOf, Fresh
<1> QED  BY <1>3, <1>4

LEMMA NextTypes == TypeOK /\ ControlOK /\ [Next]_vars => TypeOK'
<1> SUFFICES ASSUME TypeOK, ControlOK, [Next]_vars PROVE TypeOK'
  OBVIOUS
<1>0. CASE UNCHANGED vars
  BY <1>0 DEF vars, storeVars, localVars, TypeOK, StoreTypeOK
<1> SUFFICES ASSUME NEW a \in Attempts, Act(a) PROVE TypeOK'
  BY <1>0 DEF Next, Act
<1>a. /\ file[a] \in Files /\ Len(file[a]) \in Nat
      /\ \A t \in {"version", "validate", "graph"} : commands[a] \cup {t} \in SUBSET {"version", "validate", "graph"}
  BY FileOf DEF TypeOK
<1> USE <1>a DEF Goto, Advance, Restart, Ran, OnlyGoto
<1>1. CASE Reject(a)
  BY <1>1 DEF Reject, TypeOK, StoreTypeOK, storeVars, PcValues, Ended
<1>2. CASE Begin(a)
  BY <1>2 DEF Begin, TypeOK, StoreTypeOK, storeVars, PcValues
<1>3. CASE RecordNextEdge(a)
  <2> DEFINE e == EdgePairs[file[a]][pos[a]]
  <2>1. e \in IdPairs
    BY <1>3, PairFacts DEF RecordNextEdge, TypeOK
  <2>2. lineageEdges' = lineageEdges \cup {<<RunOf[a], e>>}
    BY <1>3 DEF RecordNextEdge, RecordEdge
  <2>3. lineageEdges' \subseteq Runs \X IdPairs
    BY <2>1, <2>2, RunOfAssumption DEF TypeOK, StoreTypeOK
  <2> QED  BY <1>3, <2>3 DEF RecordNextEdge, TypeOK, StoreTypeOK
<1>4. CASE CheckForjarPresent(a)
  BY <1>4 DEF CheckForjarPresent, TypeOK, StoreTypeOK, storeVars, PcValues
<1>5. CASE MarkRunning(a)
  <2>1. StoreTypeOK'
    BY <1>5, RowWrites, PersistFacts DEF MarkRunning, TypeOK, StoreTypeOK, TaskStates, Outputs
  <2> QED  BY <1>5, <2>1 DEF MarkRunning, TypeOK, More
<1>6. CASE ValidateOk(a)
  BY <1>6 DEF ValidateOk, TypeOK, StoreTypeOK, storeVars, PcValues
<1>7. CASE ValidateFails(a)
  BY <1>7 DEF ValidateFails, TypeOK, StoreTypeOK, storeVars, PcValues
<1>8. CASE MarkFailed(a)
  <2>1. StoreTypeOK'
    BY <1>8, RowWrites, PersistFacts DEF MarkFailed, TypeOK, StoreTypeOK, TaskStates, Outputs
  <2> QED  BY <1>8, <2>1 DEF MarkFailed, TypeOK, More
<1>9. CASE Bail(a)
  BY <1>9 DEF Bail, TypeOK, StoreTypeOK, storeVars, PcValues, Ended
<1>10. CASE Sort(a)
  <2>1. PICK ids \in TopoOrderIds[file[a]] : topo_order' = [topo_order EXCEPT ![a] = ids]
    BY <1>10 DEF Sort
  <2>2. ids \in Bijection(DOMAIN file[a], Range(TaskIdsOf(file[a])))
    BY <2>1, SortFacts
  <2>3. /\ DOMAIN topo_order' = Attempts
        /\ \A b \in Attempts :
             topo_order'[b] \in {<< >>} \cup Bijection(DOMAIN file[b], Range(TaskIdsOf(file[b])))
    BY <2>1, <2>2 DEF TypeOK
  <2> QED  BY <1>10, <2>3 DEF Sort, TypeOK, StoreTypeOK, storeVars, PcValues
<1>11. CASE MarkSucceeded(a)
  <2>1. StoreTypeOK' /\ task_states' \in [Attempts -> [TaskIds -> TaskStates \cup {"unset"}]]
    BY <1>11, RowWrites, PersistFacts DEF MarkSucceeded, TypeOK, StoreTypeOK, TaskStates, Outputs
  <2> QED  BY <1>11, <2>1 DEF MarkSucceeded, TypeOK, More
<1>12. CASE ReturnOk(a)
  BY <1>12 DEF ReturnOk, TypeOK, StoreTypeOK, storeVars, PcValues, Ended
<1>13. CASE ReturnErr(a)
  BY <1>13 DEF ReturnErr, TypeOK, StoreTypeOK, storeVars, PcValues, Ended
<1>14. CASE Crash(a)
  BY <1>14 DEF Crash, TypeOK, StoreTypeOK, storeVars, PcValues, Ended
<1> QED  BY <1>1, <1>2, <1>3, <1>4, <1>5, <1>6, <1>7, <1>8, <1>9, <1>10,
            <1>11, <1>12, <1>13, <1>14 DEF Act, Step

LEMMA NextControl == TypeOK /\ ControlOK /\ [Next]_vars => ControlOK'
<1> SUFFICES ASSUME TypeOK, ControlOK, [Next]_vars PROVE ControlOK'
  OBVIOUS
<1>0. CASE UNCHANGED vars
  BY <1>0 DEF vars, localVars, ControlOK, ControlOf, More, Ordered, Fresh, Did
<1> SUFFICES ASSUME NEW a \in Attempts, Act(a), NEW b \in Attempts
             PROVE  ControlOf(b)'
  BY <1>0 DEF Next, Act, ControlOK
<1>1. ControlOf(b) /\ ControlOf(a) /\ file' = file
  BY FileIsKept DEF ControlOK
<1>2. CASE b # a
  BY <1>1, <1>2, OthersUnchanged DEF ControlOf, More, Ordered, Fresh, Did
<1> SUFFICES ControlOf(a)'
  BY <1>2
<1> USE <1>1 DEF ControlOf, Goto, Advance, Restart, OnlyGoto, More, Ordered, Fresh, Did, TypeOK
<1>3. CASE Reject(a) \/ Begin(a) \/ RecordNextEdge(a) \/ CheckForjarPresent(a)
  BY <1>3 DEF Reject, Begin, RecordNextEdge, CheckForjarPresent
<1>4. CASE MarkRunning(a) \/ ValidateOk(a) \/ ValidateFails(a) \/ MarkFailed(a) \/ Bail(a)
  BY <1>4 DEF MarkRunning, ValidateOk, ValidateFails, MarkFailed, Bail
<1>5. CASE Sort(a)
  BY <1>5 DEF Sort
<1>6. CASE MarkSucceeded(a)
  <2>1. PICK t \in TaskIds : task_states' = [task_states EXCEPT ![a][t] = "Succeeded"]
    BY <1>6, RowWrites DEF MarkSucceeded
  <2> QED  BY <1>6, <2>1 DEF MarkSucceeded
<1>7. CASE ReturnOk(a) \/ ReturnErr(a) \/ Crash(a)
  BY <1>7 DEF ReturnOk, ReturnErr, Crash, Ended
<1> QED  BY <1>3, <1>4, <1>5, <1>6, <1>7 DEF Act, Step

LEMMA TypeCorrect == Spec => [](TypeOK /\ ControlOK)
<1>1. TypeOK /\ ControlOK /\ [Next]_vars => (TypeOK /\ ControlOK)'
  BY NextTypes, NextControl
<1> QED  BY <1>1, InitTypes, PTL DEF Spec

\* The types: among others, an attempt that reports has an order of all the
\* resources of its file, whatever the others do (forjar.rs:142-239).
THEOREM TypesAreKept == Spec => []TypeOK
BY TypeCorrect, PTL

----------------------------------------------------------------------------
(* Rows *)

Writes(a) == MarkRunning(a) \/ MarkFailed(a) \/ MarkSucceeded(a)

\* A step that writes no row moves the program counter forward.
LEMMA QuietStep ==
  ASSUME TypeOK, NEW a \in Attempts, Act(a)
  PROVE  /\ Writes(a) \/ UNCHANGED <<taskRuns, task_states>>
         /\ pc[a] \notin {"idle", "edges"} => pc'[a] \notin {"idle", "edges"}
         /\ pc[a] \in {"failing", "invalid", "err", "crashed"} =>
              pc'[a] \in {"failing", "invalid", "err", "crashed"}
         /\ Writes(a) => pc' = pc /\ pos' = [pos EXCEPT ![a] = @ + 1]
                         /\ UNCHANGED <<topo_order, lineageEdges>>
BY DEF TypeOK, Act, Writes, Reject, Begin, Step, RecordNextEdge, CheckForjarPresent,
       MarkRunning, ValidateOk, ValidateFails, MarkFailed, Bail, Sort, MarkSucceeded,
       ReturnOk, ReturnErr, Crash, OnlyGoto, Goto, Advance, Ended, storeVars

\* The row a step writes, if it writes one.
WritesRow(a, t, state) ==
  /\ More(a)
  /\ DOMAIN taskRuns' = DOMAIN taskRuns \cup {<<RunOf[a], t>>}
  /\ taskRuns'[<<RunOf[a], t>>].by = a
  /\ taskRuns'[<<RunOf[a], t>>].state = state
  /\ \A k \in DOMAIN taskRuns \ {<<RunOf[a], t>>} : taskRuns'[k] = taskRuns[k]
  /\ CASE state = "Running" ->
            pc[a] = "running" /\ t = file[a][pos[a]].id /\ task_states' = task_states
       [] state = "Failed" ->
            pc[a] = "failing" /\ t = file[a][pos[a]].id /\ task_states' = task_states
       [] state = "Succeeded" ->
            /\ pc[a] = "recording" /\ t = topo_order[a][pos[a]]
            /\ taskRuns'[<<RunOf[a], t>>].output = "value"
            /\ task_states' = [task_states EXCEPT ![a][t] = "Succeeded"]

LEMMA WriteStep ==
  ASSUME TypeOK, ControlOK, NEW a \in Attempts, Writes(a)
  PROVE  \E t \in IdsOf(a) : t \in TaskIds /\
           \E state \in {"Running", "Failed", "Succeeded"} : WritesRow(a, t, state)
<1> DEFINE S == TaskStates
<1>1. More(a) /\ pc[a] \in {"running", "failing", "recording"}
  BY DEF Writes, MarkRunning, MarkFailed, MarkSucceeded
<1>2. {"Running", "Failed", "Succeeded"} \subseteq TaskStates /\ {"null", "value"} \subseteq Outputs
  BY DEF TaskStates, Outputs
<1>3. CASE MarkRunning(a)
  <2>1. PICK t \in IdsOf(a) : /\ t \in TaskIds /\ t = file[a][pos[a]].id
                              /\ PersistState(a, t, "Running", "null")
    BY <1>1, <1>3, RowWrites
  <2>2. WritesRow(a, t, "Running")
    BY <1>1, <1>2, <1>3, <2>1, PersistFacts DEF WritesRow, MarkRunning
  <2> QED  BY <2>1, <2>2
<1>4. CASE MarkFailed(a)
  <2>1. PICK t \in IdsOf(a) : /\ t \in TaskIds /\ t = file[a][pos[a]].id
                              /\ PersistState(a, t, "Failed", "null")
    BY <1>1, <1>4, RowWrites
  <2>2. WritesRow(a, t, "Failed")
    BY <1>1, <1>2, <1>4, <2>1, PersistFacts DEF WritesRow, MarkFailed
  <2> QED  BY <2>1, <2>2
<1>5. CASE MarkSucceeded(a)
  <2>1. PICK t \in IdsOf(a) : /\ t \in TaskIds /\ t = topo_order[a][pos[a]]
                              /\ PersistState(a, t, "Succeeded", "value")
                              /\ task_states' = [task_states EXCEPT ![a][t] = "Succeeded"]
    BY <1>1, <1>5, RowWrites
  <2>2. WritesRow(a, t, "Succeeded")
    BY <1>1, <1>2, <1>5, <2>1, PersistFacts DEF WritesRow, MarkSucceeded
  <2> QED  BY <2>1, <2>2
<1> QED  BY <1>3, <1>4, <1>5 DEF Writes

LEMMA InitRows == Init => RowsOK
BY DEF Init, InitSchema, RowsOK

LEMMA NextRows == TypeOK /\ ControlOK /\ RowsOK /\ [Next]_vars => RowsOK'
<1> SUFFICES ASSUME TypeOK, ControlOK, RowsOK, [Next]_vars PROVE RowsOK'
  OBVIOUS
<1>f. file' = file
  BY FileIsKept
<1>0. CASE UNCHANGED vars
  BY <1>0 DEF vars, storeVars, localVars, RowsOK, RowOf, IdsOf, Did, Fresh
<1> SUFFICES ASSUME NEW a \in Attempts, Act(a), NEW k \in DOMAIN taskRuns'
             PROVE  RowOf(k, taskRuns[k].by)'
  BY <1>0 DEF Next, Act, RowsOK
<1>1. \A l \in DOMAIN taskRuns : /\ l \in Runs \X TaskIds /\ taskRuns[l].by \in Attempts
                                 /\ RowOf(l, taskRuns[l].by)
  BY DEF TypeOK, StoreTypeOK, Row, RowsOK
<1>2. \A b \in Attempts :
        /\ pc[b] \notin {"idle", "edges"} => pc'[b] \notin {"idle", "edges"}
        /\ pc[b] \in {"failing", "invalid", "err", "crashed"} =>
             pc'[b] \in {"failing", "invalid", "err", "crashed"}
        /\ b # a => task_states'[b] = task_states[b]
  BY QuietStep, OthersUnchanged
<1>3. CASE UNCHANGED <<taskRuns, task_states>>
  BY <1>f, <1>1, <1>2, <1>3 DEF RowOf, IdsOf, Did, Fresh
<1>4. CASE Writes(a)
  <2>1. PICK t \in IdsOf(a) : t \in TaskIds /\
          \E state \in {"Running", "Failed", "Succeeded"} : WritesRow(a, t, state)
    BY <1>4, WriteStep
  <2>2. PICK state \in {"Running", "Failed", "Succeeded"} : WritesRow(a, t, state)
    BY <2>1
  <2> DEFINE key == <<RunOf[a], t>>
  <2>3. CASE k = key
    <3>1. /\ taskRuns'[k].by = a /\ taskRuns'[k].state = state
          /\ k[1] = RunOf[a] /\ k[2] = t /\ pc'[a] = pc[a] /\ IdsOf(a)' = IdsOf(a)
      BY <1>f, <1>4, <2>2, <2>3, QuietStep DEF WritesRow, IdsOf
    <3>2. CASE state \in {"Running", "Failed"}
      <4>1. /\ pc[a] = IF state = "Running" THEN "running" ELSE "failing"
            /\ task_states' = task_states
        BY <2>2, <3>2 DEF WritesRow
      <4>2. Fresh(a)
        BY <4>1 DEF ControlOK, ControlOf
      <4> QED  BY <2>1, <3>1, <3>2, <4>1, <4>2 DEF RowOf, Fresh, Did
    <3>3. CASE state = "Succeeded"
      <4>1. /\ pc[a] = "recording" /\ taskRuns'[k].output = "value"
            /\ task_states'[a][t] = "Succeeded"
        BY <2>1, <2>2, <2>3, <3>3 DEF WritesRow, TypeOK
      <4> QED  BY <2>1, <3>1, <3>3, <4>1 DEF RowOf, Did
    <3> QED  BY <3>2, <3>3
  <2>4. CASE k # key
    <3>1. k \in DOMAIN taskRuns /\ taskRuns'[k] = taskRuns[k]
      BY <2>2, <2>4 DEF WritesRow
    <3>2. PICK b \in Attempts : b = taskRuns[k].by /\ RowOf(k, b) /\ k \in Runs \X TaskIds
      BY <1>1, <3>1
    <3>3. b = a => k[2] # t
      BY <2>4, <3>2 DEF RowOf
    <3>4. task_states'[b][k[2]] = task_states[b][k[2]]
      <4>1. CASE b # a
        BY <1>2, <3>2, <4>1
      <4>2. CASE b = a
        <5>1. k[2] \in TaskIds /\ k[2] # t
          BY <3>2, <3>3, <4>2
        <5>2. task_states' = task_states \/ task_states' = [task_states EXCEPT ![a][t] = "Succeeded"]
          BY <2>2 DEF WritesRow
        <5> QED  BY <2>1, <4>2, <5>1, <5>2 DEF TypeOK
      <4> QED  BY <4>1, <4>2
    <3>5. taskRuns[k].state = "Failed" => Fresh(b)'
      <4>1. CASE b # a
        BY <1>2, <3>2, <4>1 DEF RowOf, Fresh
      <4>2. CASE b = a
        BY <2>2, <3>2, <4>2 DEF RowOf, Fresh, WritesRow
      <4> QED  BY <4>1, <4>2
    <3>6. RowOf(k, b)'
      BY <1>f, <1>2, <3>1, <3>2, <3>4, <3>5 DEF RowOf, Did, IdsOf
    <3> QED  BY <3>1, <3>2, <3>6
  <2> QED  BY <2>3, <2>4
<1> QED  BY <1>3, <1>4, QuietStep

LEMMA RowsCorrect == Spec => []RowsOK
<1>1. TypeOK /\ ControlOK /\ RowsOK /\ [Next]_vars => RowsOK'
  BY NextRows
<1> QED  BY <1>1, InitRows, TypeCorrect, PTL
  DEF Spec

----------------------------------------------------------------------------
(* The loops over the tasks *)

LEMMA RowsStay ==
  ASSUME TypeOK, ControlOK, NEW a \in Attempts, Act(a)
  PROVE  /\ DOMAIN taskRuns \subseteq DOMAIN taskRuns'
         /\ \A k \in DOMAIN taskRuns' :
              \/ k \in DOMAIN taskRuns /\ taskRuns'[k] = taskRuns[k]
              \/ Writes(a) /\ taskRuns'[k].by = a
<1>1. CASE Writes(a)
  <2>1. PICK t \in IdsOf(a) : \E state \in {"Running", "Failed", "Succeeded"} : WritesRow(a, t, state)
    BY <1>1, WriteStep
  <2> QED  BY <1>1, <2>1 DEF WritesRow
<1>2. CASE ~Writes(a)
  BY <1>2, QuietStep
<1> QED  BY <1>1, <1>2

LEMMA InitProgress == Init => ProgressOK /\ PrefixOK
<1> SUFFICES ASSUME Init PROVE ProgressOK /\ PrefixOK
  OBVIOUS
<1>1. \A a \in Attempts : pc[a] = "idle" /\ \A t \in TaskIds : ~Did(a, t)
  BY DEF Init, Did
<1>2. ProgressOK
  BY <1>1 DEF ProgressOK, ProgressOf
<1>3. \A a \in Attempts : Ordered(a) => \A i \in DOMAIN file[a] : topo_order[a][i] \in TaskIds
  BY InitTypes, OrderOf
<1>4. PrefixOK
  BY <1>1, <1>3 DEF PrefixOK, PrefixOf
<1> QED  BY <1>2, <1>4

LEMMA NextProgress == TypeOK /\ ControlOK /\ ProgressOK /\ [Next]_vars => ProgressOK'
<1> SUFFICES ASSUME TypeOK, ControlOK, ProgressOK, [Next]_vars PROVE ProgressOK'
  OBVIOUS
<1>f. file' = file
  BY FileIsKept
<1>0. CASE UNCHANGED vars
  BY <1>0 DEF vars, storeVars, localVars, ProgressOK, ProgressOf, HasRow, Did
<1> SUFFICES ASSUME NEW a \in Attempts, Act(a), NEW b \in Attempts
             PROVE  ProgressOf(b)'
  BY <1>0 DEF Next, Act, ProgressOK
<1>1. ProgressOf(b) /\ ProgressOf(a)
  BY DEF ProgressOK
<1>2. CASE b # a
  <2>1. /\ pc'[b] = pc[b] /\ pos'[b] = pos[b] /\ task_states'[b] = task_states[b]
        /\ DOMAIN taskRuns \subseteq DOMAIN taskRuns'
    BY <1>2, OthersUnchanged, RowsStay
  <2>2. \A t : HasRow(b, t) => /\ HasRow(b, t)'
                               /\ taskRuns'[<<RunOf[b], t>>].by = b =>
                                    taskRuns'[<<RunOf[b], t>>] = taskRuns[<<RunOf[b], t>>]
    BY <1>2, <2>1, RowsStay DEF HasRow
  <2> QED  BY <1>f, <1>1, <2>1, <2>2 DEF ProgressOf, Did
<1>3. CASE b = a /\ ~Writes(a)
  <2>1. UNCHANGED <<taskRuns, task_states>>
    BY <1>3, QuietStep
  <2>2. \A i \in DOMAIN file[a] : ~More(a) => i < pos[a]
    BY FileOf DEF More, TypeOK
  <2>3. pc'[a] = "running" => pos'[a] = 1 \/ (pc[a] = "running" /\ pos'[a] = pos[a])
    BY <1>3 DEF Act, Writes, Reject, Begin, Step, RecordNextEdge, CheckForjarPresent, ValidateOk,
         ValidateFails, Bail, Sort, ReturnOk, ReturnErr, Crash, OnlyGoto, Goto, Restart, TypeOK
  <2>4. pc'[a] \in {"failing", "valid", "recording", "ok", "invalid"} =>
          \/ pc[a] = "running" /\ ~More(a)
          \/ pc[a] \in {"failing", "valid", "recording", "ok", "invalid"}
    BY <1>3 DEF Act, Writes, Reject, Begin, Step, RecordNextEdge, CheckForjarPresent, ValidateOk,
         ValidateFails, Bail, Sort, ReturnOk, ReturnErr, Crash, OnlyGoto, Goto, TypeOK
  <2>5. pc'[a] \in {"failing", "invalid"} =>
          pos'[a] = 1 \/ (pc[a] \in {"failing", "invalid"} /\ pos'[a] = pos[a])
    BY <1>3 DEF Act, Writes, Reject, Begin, Step, RecordNextEdge, CheckForjarPresent, ValidateOk,
         ValidateFails, Bail, Sort, ReturnOk, ReturnErr, Crash, OnlyGoto, Goto, Restart, TypeOK
  <2>6. \A i \in DOMAIN file[a] : ~(i < 1)
    BY FileOf
  <2> QED  BY <1>f, <1>1, <1>3, <2>1, <2>2, <2>3, <2>4, <2>5, <2>6 DEF ProgressOf, HasRow, Did
<1>4. CASE b = a /\ Writes(a)
  <2>1. PICK t \in IdsOf(a), state \in {"Running", "Failed", "Succeeded"} : WritesRow(a, t, state)
    BY <1>4, WriteStep
  <2>2. pc'[a] = pc[a] /\ pos'[a] = pos[a] + 1 /\ pos[a] \in Nat
    BY <1>4, QuietStep DEF TypeOK
  <2>3. /\ HasRow(a, t)' /\ taskRuns'[<<RunOf[a], t>>].state = state
        /\ \A u : HasRow(a, u) => /\ HasRow(a, u)'
                                  /\ u # t => taskRuns'[<<RunOf[a], u>>] = taskRuns[<<RunOf[a], u>>]
    BY <2>1 DEF WritesRow, HasRow
  <2>4. \A u \in TaskIds : Did(a, u)' => Did(a, u) \/ u = t
    <3>1. task_states' = task_states \/ task_states' = [task_states EXCEPT ![a][t] = "Succeeded"]
      BY <2>1 DEF WritesRow
    <3> QED  BY <3>1 DEF Did, TypeOK
  <2>5. /\ pc[a] \in {"running", "failing"} => t = file[a][pos[a]].id
        /\ pc[a] = "failing" => state = "Failed"
        /\ pc[a] \notin {"valid", "ok", "invalid"}
    BY <2>1 DEF WritesRow
  <2>6. \A i \in DOMAIN file[a] : i < pos'[a] => i < pos[a] \/ i = pos[a]
    BY <2>2, FileOf
  <2> QED  BY <1>f, <1>1, <1>4, <2>2, <2>3, <2>4, <2>5, <2>6 DEF ProgressOf
<1> QED  BY <1>2, <1>3, <1>4

LEMMA NextPrefix == TypeOK /\ ControlOK /\ PrefixOK /\ [Next]_vars => PrefixOK'
<1> SUFFICES ASSUME TypeOK, ControlOK, PrefixOK, [Next]_vars PROVE PrefixOK'
  OBVIOUS
<1>f. file' = file
  BY FileIsKept
<1>0. CASE UNCHANGED vars
  BY <1>0 DEF vars, localVars, PrefixOK, PrefixOf, Did, Ordered
<1> SUFFICES ASSUME NEW a \in Attempts, Act(a), NEW b \in Attempts
             PROVE  PrefixOf(b)'
  BY <1>0 DEF Next, Act, PrefixOK
<1>1. PrefixOf(b) /\ PrefixOf(a)
  BY DEF PrefixOK
<1>2. CASE b # a
  BY <1>f, <1>1, <1>2, OthersUnchanged DEF PrefixOf, Did, Ordered
<1>3. CASE b = a /\ Sort(a)
  <2>1. Fresh(a) /\ task_states' = task_states /\ pos'[a] = 1
    BY <1>3 DEF Sort, Restart, ControlOK, ControlOf, TypeOK
  <2>2. Ordered(a)' => \A i \in DOMAIN file[a] : topo_order'[a][i] \in TaskIds /\ ~(i < 1)
    BY <1>f, FileOf, SortFacts DEF Ordered, IdsOf
  <2>3. Ordered(a)'
    BY <1>f, <1>3 DEF Sort, Ordered, TypeOK
  <2> QED  BY <1>f, <1>3, <2>1, <2>2, <2>3 DEF PrefixOf, Did, Fresh
<1>4. CASE b = a /\ ~Writes(a) /\ ~Sort(a)
  <2>1. UNCHANGED <<topo_order, task_states>>
    BY <1>4 DEF Act, Writes, Reject, Begin, Step, RecordNextEdge, CheckForjarPresent, ValidateOk,
         ValidateFails, Bail, ReturnOk, ReturnErr, Crash, OnlyGoto
  <2>2. pc'[a] \in {"recording", "ok"} => pc[a] \in {"recording", "ok"} /\ pos'[a] = pos[a]
    BY <1>4 DEF Act, Writes, Reject, Begin, Step, RecordNextEdge, CheckForjarPresent, ValidateOk,
         ValidateFails, Bail, ReturnOk, ReturnErr, Crash, OnlyGoto, Goto, TypeOK
  <2> QED  BY <1>f, <1>1, <1>4, <2>1, <2>2 DEF PrefixOf, Did, Ordered
<1>5. CASE b = a /\ Writes(a)
  <2>1. PICK t \in IdsOf(a), state \in {"Running", "Failed", "Succeeded"} : WritesRow(a, t, state)
    BY <1>5, WriteStep
  <2>2. /\ pc'[a] = pc[a] /\ pos'[a] = pos[a] + 1 /\ topo_order' = topo_order
        /\ pos[a] \in Nat /\ t \in TaskIds
    BY <1>5, QuietStep, FileOf DEF TypeOK
  <2>3. CASE state # "Succeeded"
    <3>1. task_states' = task_states /\ pc[a] \notin {"recording", "ok"}
      BY <2>1, <2>3 DEF WritesRow
    <3> QED  BY <1>f, <1>1, <1>5, <2>2, <3>1 DEF PrefixOf, Did, Ordered
  <2>4. CASE state = "Succeeded"
    <3>1. /\ pc[a] = "recording" /\ t = topo_order[a][pos[a]]
          /\ \A u \in TaskIds : Did(a, u)' <=> Did(a, u) \/ u = t
      BY <2>1, <2>2, <2>4 DEF WritesRow, Did, TypeOK
    <3>2. pos[a] \in DOMAIN file[a]
      BY <2>1, TaskOfLoop DEF WritesRow
    <3>3. \A i \in DOMAIN file[a] :
            topo_order[a][i] \in TaskIds /\ (topo_order[a][i] = t => i = pos[a])
      <4>1. Ordered(a)
        BY <3>1 DEF ControlOK, ControlOf
      <4> QED  BY <3>1, <3>2, <4>1, OrderOf
    <3>4. \A i \in DOMAIN file[a] : Did(a, topo_order[a][i])' <=> i < pos'[a]
      BY <1>1, <2>2, <3>1, <3>2, <3>3, FileOf DEF PrefixOf
    <3>5. \A i, j \in DOMAIN file[a] : i < j /\ j < pos'[a] => i < pos'[a]
      BY <2>2, FileOf
    <3> QED  BY <1>f, <1>5, <2>2, <3>4, <3>5 DEF PrefixOf
  <2> QED  BY <2>3, <2>4
<1> QED  BY <1>2, <1>3, <1>4, <1>5

LEMMA ProgressCorrect == Spec => [](ProgressOK /\ PrefixOK)
<1>1. TypeOK /\ ControlOK /\ ProgressOK /\ PrefixOK /\ [Next]_vars => ProgressOK' /\ PrefixOK'
  BY NextProgress, NextPrefix
<1> QED  BY <1>1, InitProgress, TypeCorrect, PTL DEF Spec

----------------------------------------------------------------------------
(* Edges *)

LEMMA InitEdges == Init => EdgesOK
BY DEF Init, InitSchema, EdgesOK, EdgesOf, PastEdges, Wrote

LEMMA NextEdges == TypeOK /\ ControlOK /\ EdgesOK /\ [Next]_vars => EdgesOK'
<1> SUFFICES ASSUME TypeOK, ControlOK, EdgesOK, [Next]_vars PROVE EdgesOK'
  OBVIOUS
<1>f. file' = file
  BY FileIsKept
<1>0. CASE UNCHANGED vars
  BY <1>0 DEF vars, storeVars, localVars, EdgesOK, EdgesOf, Recorded, Wrote
<1> SUFFICES ASSUME NEW a \in Attempts, Act(a) PROVE EdgesOK'
  BY <1>0 DEF Next, Act
<1>1. \A b \in Attempts : pc[b] # "idle" => pc'[b] # "idle"
  BY OthersUnchanged DEF Act, Reject, Begin, Step, RecordNextEdge, CheckForjarPresent, MarkRunning,
       ValidateOk, ValidateFails, MarkFailed, Bail, Sort, MarkSucceeded, ReturnOk, ReturnErr,
       Crash, OnlyGoto, Goto, TypeOK
<1>2. lineageEdges' = lineageEdges \/ RecordNextEdge(a)
  BY DEF Act, Reject, Begin, Step, CheckForjarPresent, MarkRunning, ValidateOk, ValidateFails,
         MarkFailed, Bail, Sort, MarkSucceeded, ReturnOk, ReturnErr, Crash, OnlyGoto, storeVars
<1>3. RecordNextEdge(a) =>
        /\ lineageEdges' = lineageEdges \cup {<<RunOf[a], EdgePairs[file[a]][pos[a]]>>}
        /\ EdgePairs[file[a]][pos[a]] \in Range(EdgePairs[file[a]])
        /\ pc[a] = "edges" /\ pc' = pc /\ pos'[a] = pos[a] + 1 /\ taskRuns' = taskRuns
  BY FileOf, PairFacts DEF RecordNextEdge, RecordEdge, Advance, TypeOK
<1>4. ASSUME NEW l \in lineageEdges'
      PROVE  \E b \in Attempts :
               pc'[b] # "idle" /\ l[1] = RunOf[b] /\ l[2] \in Range(EdgePairs[file[b]])
  <2>1. CASE l \in lineageEdges
    BY <1>1, <2>1 DEF EdgesOK
  <2>2. CASE l \notin lineageEdges
    BY <1>1, <1>2, <1>3, <1>4, <2>2
  <2> QED  BY <2>1, <2>2
<1>5. ASSUME NEW b \in Attempts PROVE EdgesOf(b)'
  <2>1. EdgesOf(b)
    BY DEF EdgesOK
  <2>2. \A e : Recorded(b, e) => Recorded(b, e)'
    BY <1>2, <1>3 DEF Recorded
  <2>3. Wrote(b)' => Wrote(b) \/ (b = a /\ Writes(a))
    BY RowsStay DEF Wrote
  <2>4. Writes(a) => pc[a] \in PastEdges
    BY DEF Writes, MarkRunning, MarkFailed, MarkSucceeded, PastEdges, PcValues, Ended
  <2>5. ASSUME pc'[b] = "edges", NEW i \in DOMAIN EdgePairs[file[b]], i < pos'[b]
        PROVE  Recorded(b, EdgePairs[file[b]][i])'
    <3>1. i \in Nat /\ pos[b] \in Nat
      BY FileOf, PairFacts DEF TypeOK
    <3>2. CASE b # a
      BY <1>f, <2>1, <2>2, <2>5, <3>2, OthersUnchanged DEF EdgesOf
    <3>3. CASE b = a /\ RecordNextEdge(a)
      <4>1. i < pos[b] \/ i = pos[b]
        BY <1>3, <2>5, <3>1, <3>3
      <4> QED  BY <1>f, <1>3, <2>1, <2>2, <2>5, <3>3, <4>1 DEF EdgesOf, Recorded
    <3>4. CASE b = a /\ ~RecordNextEdge(a)
      <4>1. pc[a] = "idle" /\ pos'[a] = pos[a]
        BY <2>5, <3>4 DEF Act, Reject, Begin, Step, CheckForjarPresent, MarkRunning, ValidateOk,
             ValidateFails, MarkFailed, Bail, Sort, MarkSucceeded, ReturnOk, ReturnErr, Crash,
             OnlyGoto, Goto, TypeOK
      <4>2. pos[a] = 1
        BY <4>1 DEF ControlOK, ControlOf
      <4> QED  BY <2>5, <3>4, <4>1, <4>2, FileOf, PairFacts
    <3> QED  BY <3>2, <3>3, <3>4
  <2>6. ASSUME pc'[b] \in PastEdges \/ Wrote(b)', NEW e \in Range(EdgePairs[file[b]])
        PROVE  Recorded(b, e)'
    <3>1. CASE pc[b] \in PastEdges \/ Wrote(b)
      BY <2>1, <2>2, <3>1 DEF EdgesOf
    <3>2. CASE ~(pc[b] \in PastEdges \/ Wrote(b))
      <4>1. pc'[b] \in PastEdges
        BY <2>3, <2>4, <2>6, <3>2
      <4>2. b = a
        BY <3>2, <4>1, OthersUnchanged
      <4>3. CheckForjarPresent(a)
        BY <3>2, <4>1, <4>2 DEF Act, Reject, Begin, Step, RecordNextEdge, MarkRunning, ValidateOk,
             ValidateFails, MarkFailed, Bail, Sort, MarkSucceeded, ReturnOk, ReturnErr, Crash,
             OnlyGoto, Goto, PastEdges, PcValues, Ended, TypeOK
      <4>4. pc[a] = "edges" /\ \A i \in DOMAIN EdgePairs[file[a]] : i < pos[a]
        BY <4>3, FileOf, PairFacts DEF CheckForjarPresent, TypeOK
      <4>5. \E i \in DOMAIN EdgePairs[file[b]] : e = EdgePairs[file[b]][i]
        BY DEF Range
      <4> QED  BY <2>1, <2>2, <4>2, <4>4, <4>5 DEF EdgesOf
    <3> QED  BY <3>1, <3>2
  <2> QED  BY <1>f, <2>5, <2>6 DEF EdgesOf
<1> QED  BY <1>f, <1>4, <1>5 DEF EdgesOK

LEMMA EdgesCorrect == Spec => []EdgesOK
<1>1. TypeOK /\ ControlOK /\ EdgesOK /\ [Next]_vars => EdgesOK'
  BY NextEdges
<1> QED  BY <1>1, InitEdges, TypeCorrect, PTL DEF Spec

----------------------------------------------------------------------------
(* The properties *)

IInv == TypeOK /\ ControlOK /\ RowsOK /\ ProgressOK /\ PrefixOK /\ EdgesOK

\* The inductive invariant, with all its parts.
THEOREM Inductive == Spec => []IInv
BY TypeCorrect, RowsCorrect, ProgressCorrect, EdgesCorrect, PTL DEF IInv

\* Each row, with the attempt that wrote it.
LEMMA RowFacts ==
  ASSUME IInv, NEW k \in DOMAIN taskRuns
  PROVE  \E a \in Attempts : /\ a = taskRuns[k].by /\ RowOf(k, a)
                             /\ k = <<RunOf[a], k[2]>> /\ k[2] \in TaskIds /\ Wrote(a)
<1>1. taskRuns[k].by \in Attempts /\ k \in Runs \X TaskIds
  BY DEF IInv, TypeOK, StoreTypeOK, Row
<1> QED  BY <1>1 DEF IInv, RowsOK, RowOf, Wrote

\* The lineage of a run has every edge of each file that got a row in it, and
\* no edge of any other file (forjar.rs:149-161).
THEOREM LineageIsTheTopology == Spec => []LineageIsTopology
<1>1. IInv => LineageIsTopology
  <2> SUFFICES ASSUME IInv PROVE LineageIsTopology
    OBVIOUS
  <2>1. ASSUME NEW k \in DOMAIN taskRuns, NEW e \in Range(EdgePairs[file[taskRuns[k].by]])
        PROVE  e \in EdgesForRun(k[1])
    <3>1. PICK a \in Attempts : a = taskRuns[k].by /\ RowOf(k, a) /\ Wrote(a)
      BY RowFacts
    <3>2. <<k[1], e>> \in lineageEdges
      BY <2>1, <3>1 DEF IInv, EdgesOK, EdgesOf, Recorded, RowOf
    <3> QED  BY <3>2 DEF EdgesForRun
  <2>2. \A l \in lineageEdges : \E a \in Attempts :
          RunOf[a] = l[1] /\ l[2] \in Range(EdgePairs[file[a]])
    BY DEF IInv, EdgesOK
  <2> QED  BY <2>1, <2>2 DEF LineageIsTopology
<1> QED  BY <1>1, Inductive, PTL

\* No attempt leaves a Failed row beside a Succeeded one (forjar.rs:183-193).
THEOREM OneVerdictHolds == Spec => []OneVerdict
<1>1. IInv => OneVerdict
  <2> SUFFICES ASSUME IInv, NEW k \in DOMAIN taskRuns, NEW l \in DOMAIN taskRuns,
                      taskRuns[k].state = "Failed", taskRuns[l].state = "Succeeded",
                      taskRuns[k].by = taskRuns[l].by
               PROVE  FALSE
    BY DEF OneVerdict
  <2> QED  BY RowFacts DEF RowOf, Fresh, Did
<1> QED  BY <1>1, Inductive, PTL

\* Every edge in the lineage of a run with one active attempt is of its file.
LEMMA LoneEdges ==
  ASSUME IInv, NEW a \in Attempts, pc[a] # "idle", Alone(a), NEW e \in EdgesForRun(RunOf[a])
  PROVE  e \in Range(EdgePairs[file[a]])
<1>1. PICK l \in lineageEdges : l[1] = RunOf[a] /\ l[2] = e
  BY DEF EdgesForRun
<1>2. PICK b \in Attempts : pc[b] # "idle" /\ l[1] = RunOf[b] /\ l[2] \in Range(EdgePairs[file[b]])
  BY DEF IInv, EdgesOK
<1> QED  BY <1>1, <1>2 DEF Alone, Rivals

\* Where one attempt used the run id, a Succeeded row has Succeeded rows
\* upstream, also after a crash in the last loop (forjar.rs:212-230).
THEOREM SucceededInOrder == Spec => []SucceededUpstreamFirst
<1>1. IInv => SucceededUpstreamFirst
  <2> SUFFICES ASSUME IInv, NEW k \in DOMAIN taskRuns, taskRuns[k].state = "Succeeded",
                      Alone(taskRuns[k].by), NEW u \in QueryUpstream(k[1], k[2])
               PROVE  /\ <<k[1], u>> \in DOMAIN taskRuns
                      /\ taskRuns[<<k[1], u>>].state = "Succeeded"
    BY DEF SucceededUpstreamFirst
  <2>1. PICK a \in Attempts : a = taskRuns[k].by /\ RowOf(k, a) /\ k[2] \in TaskIds
    BY RowFacts
  <2>2. k[1] = RunOf[a] /\ pc[a] # "idle" /\ Alone(a) /\ Did(a, k[2])
    BY <2>1 DEF RowOf
  <2>3. PICK e \in EdgesForRun(RunOf[a]) : e[1] = u /\ e[2] = k[2]
    BY <2>2 DEF QueryUpstream
  <2>4. e \in Range(EdgePairs[file[a]])
    BY <2>2, LoneEdges
  <2>5. Ordered(a)
    BY <2>1, <2>2 DEF IInv, ControlOK, ControlOf, Did
  <2>6. PICK i \in DOMAIN file[a], j \in DOMAIN file[a] :
          i < j /\ topo_order[a][i] = u /\ topo_order[a][j] = k[2]
    BY <2>3, <2>4, <2>5, OrderOf DEF IInv
  <2>7. Did(a, u) /\ u \in TaskIds
    BY <2>2, <2>5, <2>6, OrderOf DEF IInv, PrefixOK, PrefixOf
  <2>8. <<k[1], u>> \in DOMAIN taskRuns
    BY <2>2, <2>7 DEF IInv, ProgressOK, ProgressOf, HasRow
  <2>9. PICK b \in Attempts : b = taskRuns[<<k[1], u>>].by /\ RowOf(<<k[1], u>>, b)
    BY <2>8, RowFacts
  <2>10. b = a
    BY <2>2, <2>9 DEF RowOf, Alone, Rivals
  <2> QED  BY <2>7, <2>8, <2>9, <2>10 DEF RowOf
<1> QED  BY <1>1, Inductive, PTL

\* A run that ended because forjar refused the file has a row for each task,
\* and those no one wrote since are Failed (forjar.rs:183-193).
THEOREM RefusalIsSettled == Spec => []RefusedIsSettled
<1>1. IInv => RefusedIsSettled
  <2> SUFFICES ASSUME IInv, NEW a \in Attempts, pc[a] = "invalid", NEW i \in DOMAIN file[a]
               PROVE  LET k == <<RunOf[a], file[a][i].id>> IN
                      /\ k \in DOMAIN taskRuns
                      /\ taskRuns[k].by = a => taskRuns[k].state = "Failed"
    BY DEF RefusedIsSettled
  <2>1. i < pos[a]
    BY FileOf DEF IInv, ControlOK, ControlOf, More, TypeOK
  <2> QED  BY <2>1 DEF IInv, ProgressOK, ProgressOf, HasRow
<1> QED  BY <1>1, Inductive, PTL

\* An attempt of a run whose writers have all ended leaves terminal rows.
LEMMA SettledRow ==
  ASSUME IInv, NEW k \in DOMAIN taskRuns, pc[taskRuns[k].by] \in {"idle", "ok", "invalid"}
  PROVE  taskRuns[k].state \in Terminal
<1>1. PICK b \in Attempts : b = taskRuns[k].by /\ RowOf(k, b) /\ k = <<RunOf[b], k[2]>>
  BY RowFacts
<1>2. CASE pc[b] = "ok"
  <2>1. Ordered(b) /\ k[2] \in IdsOf(b)
    BY <1>1, <1>2 DEF IInv, ControlOK, ControlOf, RowOf
  <2>2. PICK i \in DOMAIN file[b] : topo_order[b][i] = k[2]
    BY <2>1, OrderOf DEF IInv
  <2>3. i < pos[b]
    BY <1>2, FileOf DEF IInv, ControlOK, ControlOf, More, TypeOK
  <2>4. Did(b, k[2])
    BY <1>2, <2>2, <2>3 DEF IInv, PrefixOK, PrefixOf
  <2> QED  BY <1>1, <2>4 DEF RowOf, Terminal
<1>3. CASE pc[b] = "invalid"
  <2>1. PICK i \in DOMAIN file[b] : file[b][i].id = k[2]
    BY <1>1, FileOf DEF IInv, RowOf
  <2>2. i < pos[b]
    BY <1>3, FileOf DEF IInv, ControlOK, ControlOf, More, TypeOK
  <2>3. taskRuns[k].state = "Failed"
    BY <1>1, <1>3, <2>1, <2>2 DEF IInv, ProgressOK, ProgressOf
  <2> QED  BY <2>3 DEF Terminal
<1> QED  BY <1>1, <1>2, <1>3 DEF RowOf

\* A report agrees with the store, task by task, unless another attempt wrote
\* the row since; and its rows are final once all rivals have ended
\* (forjar.rs:214-237).
THEOREM ReportsAreDurable == Spec => []ReportIsDurable
<1>1. IInv => ReportIsDurable
  <2> SUFFICES ASSUME IInv, NEW a \in Attempts, pc[a] = "ok", NEW i \in DOMAIN file[a]
               PROVE  LET id == file[a][i].id
                          k  == <<RunOf[a], id>> IN
                      /\ task_states[a][id] = "Succeeded"
                      /\ id \in Range(topo_order[a])
                      /\ k \in DOMAIN taskRuns
                      /\ taskRuns[k].by = a =>
                           taskRuns[k].state = "Succeeded" /\ taskRuns[k].output = "value"
                      /\ (\A b \in Rivals(a) : pc[b] \in {"idle", "ok", "invalid"}) =>
                           taskRuns[k].state \in Terminal
    BY DEF ReportIsDurable
  <2>1. PICK id \in IdsOf(a) : id = file[a][i].id
    BY FileOf DEF IInv
  <2>2. Ordered(a)
    BY DEF IInv, ControlOK, ControlOf
  <2>3. PICK j \in DOMAIN file[a] : topo_order[a][j] = id
    BY <2>2, OrderOf DEF IInv
  <2>4. DOMAIN topo_order[a] = DOMAIN file[a]
    BY <2>2, FileOf, SortFacts DEF IInv, Ordered
  <2>5. id \in Range(topo_order[a])
    BY <2>3, <2>4 DEF Range
  <2>6. j < pos[a]
    BY FileOf DEF IInv, ControlOK, ControlOf, More, TypeOK
  <2>7. Did(a, id)
    BY <2>3, <2>6 DEF IInv, PrefixOK, PrefixOf
  <2> DEFINE k == <<RunOf[a], id>>
  <2>8. k \in DOMAIN taskRuns
    BY <2>1 DEF IInv, ProgressOK, ProgressOf, HasRow
  <2>9. PICK b \in Attempts : b = taskRuns[k].by /\ RowOf(k, b)
    BY <2>8, RowFacts
  <2>10. b = a \/ b \in Rivals(a)
    BY <2>9 DEF RowOf, Rivals
  <2>11. (\A r \in Rivals(a) : pc[r] \in {"idle", "ok", "invalid"}) => taskRuns[k].state \in Terminal
    BY <2>8, <2>9, <2>10, SettledRow
  <2>12. b = a => taskRuns[k].state = "Succeeded" /\ taskRuns[k].output = "value"
    BY <2>7, <2>9 DEF RowOf
  <2> QED  BY <2>1, <2>5, <2>7, <2>8, <2>9, <2>11, <2>12 DEF Did
<1> QED  BY <1>1, Inductive, PTL

\* A run that returned a report, with no other attempt on its id, has no edge
\* from an unknown task and no self-dependency in its lineage
\* (forjar.rs:149-161, 266-290).
THEOREM ReportedEdgesAreOfTasks == Spec => []ReportedEdgesAreKnown
<1>1. IInv => ReportedEdgesAreKnown
  <2> SUFFICES ASSUME IInv, NEW a \in Attempts, pc[a] = "ok", Alone(a),
                      NEW e \in EdgesForRun(RunOf[a])
               PROVE  /\ e[1] # e[2]
                      /\ \A t \in {e[1], e[2]} : <<RunOf[a], t>> \in DOMAIN taskRuns
    BY DEF ReportedEdgesAreKnown
  <2>1. e \in Range(EdgePairs[file[a]])
    BY LoneEdges
  <2>2. Ordered(a)
    BY DEF IInv, ControlOK, ControlOf
  <2>3. PICK i \in DOMAIN file[a], j \in DOMAIN file[a] :
          i < j /\ topo_order[a][i] = e[1] /\ topo_order[a][j] = e[2]
    BY <2>1, <2>2, OrderOf DEF IInv
  <2>4. i # j
    BY <2>3, FileOf DEF IInv
  <2>5. e[1] # e[2] /\ e[1] \in IdsOf(a) /\ e[2] \in IdsOf(a)
    BY <2>2, <2>3, <2>4, OrderOf DEF IInv
  <2>6. \A t \in IdsOf(a) : <<RunOf[a], t>> \in DOMAIN taskRuns
    BY FileOf DEF IInv, ProgressOK, ProgressOf, HasRow
  <2> QED  BY <2>5, <2>6
<1> QED  BY <1>1, Inductive, PTL

----------------------------------------------------------------------------
(* The length of a run *)

\* The most steps left to an attempt at this label and position, with so many
\* edges and tasks: one for each edge, two for each task, which is marked
\* Running and then Failed or Succeeded, and five for the rest.
StepsFrom(label, i, edges, tasks) ==
  CASE label = "idle"                     -> edges + 2 * tasks + 5
    [] label = "edges"                    -> edges - i + 2 * tasks + 5
    [] label = "running"                  -> 2 * tasks + 4 - i
    [] label = "valid"                    -> tasks + 2
    [] label \in {"failing", "recording"} -> tasks + 2 - i
    [] label \in Ended                    -> 0

StepsLeft(a) == StepsFrom(pc[a], pos[a], Len(EdgePairs[file[a]]), Len(file[a]))

\* The loop over the edges stays within them.
EdgeLoopOK == \A a \in Attempts : pc[a] = "edges" => pos[a] <= Len(EdgePairs[file[a]]) + 1

LEMMA StepsFromLabel ==
  ASSUME NEW i, NEW e, NEW n
  PROVE  /\ StepsFrom("idle", i, e, n) = e + 2 * n + 5
         /\ StepsFrom("edges", i, e, n) = e - i + 2 * n + 5
         /\ StepsFrom("running", i, e, n) = 2 * n + 4 - i
         /\ StepsFrom("valid", i, e, n) = n + 2
         /\ StepsFrom("failing", i, e, n) = n + 2 - i
         /\ StepsFrom("recording", i, e, n) = n + 2 - i
         /\ StepsFrom("ok", i, e, n) = 0
         /\ StepsFrom("err", i, e, n) = 0
         /\ StepsFrom("invalid", i, e, n) = 0
         /\ StepsFrom("crashed", i, e, n) = 0
BY DEF StepsFrom, Ended

\* What bounds the positions of an attempt.
LEMMA LengthFacts ==
  ASSUME TypeOK, ControlOK, EdgeLoopOK, NEW a \in Attempts
  PROVE  /\ Len(file[a]) \in Nat /\ Len(EdgePairs[file[a]]) \in Nat
         /\ pos[a] \in Nat /\ pos[a] # 0 /\ pc[a] \in PcValues
         /\ pc[a] = "idle" => pos[a] = 1
         /\ pc[a] = "edges" => pos[a] <= Len(EdgePairs[file[a]]) + 1
         /\ pc[a] \in {"running", "failing", "recording"} => pos[a] <= Len(file[a]) + 1
<1>1. Len(file[a]) \in Nat /\ file[a] \in Files
  BY FileOf
<1>2. Len(EdgePairs[file[a]]) \in Nat
  BY <1>1, PairFacts
<1> QED  BY <1>1, <1>2 DEF TypeOK, ControlOK, ControlOf, EdgeLoopOK

LEMMA NextEdgeLoop == TypeOK /\ ControlOK /\ EdgeLoopOK /\ [Next]_vars => EdgeLoopOK'
<1> SUFFICES ASSUME TypeOK, ControlOK, EdgeLoopOK, [Next]_vars PROVE EdgeLoopOK'
  OBVIOUS
<1>1. file' = file
  BY FileIsKept
<1>2. CASE UNCHANGED vars
  BY <1>2 DEF vars, localVars, EdgeLoopOK
<1>3. ASSUME NEW a \in Attempts, Act(a)
      PROVE  EdgeLoopOK'
  <2>1. \A b \in Attempts \ {a} : pc'[b] = pc[b] /\ pos'[b] = pos[b]
    BY <1>3, OthersUnchanged
  <2>2. pc'[a] = "edges" => pos'[a] <= Len(EdgePairs[file[a]]) + 1
    BY <1>3, LengthFacts
       DEF Act, Reject, Begin, Step, RecordNextEdge, CheckForjarPresent, MarkRunning, ValidateOk,
           ValidateFails, MarkFailed, Bail, Sort, MarkSucceeded, ReturnOk, ReturnErr, Crash,
           OnlyGoto, Goto, Advance, Restart, TypeOK
  <2> QED  BY <1>1, <2>1, <2>2 DEF EdgeLoopOK
<1> QED  BY <1>2, <1>3 DEF Next, Act

LEMMA StepsLeftIsNat ==
  ASSUME TypeOK, ControlOK, EdgeLoopOK, NEW a \in Attempts
  PROVE  StepsLeft(a) \in Nat /\ (pc[a] \notin Ended => StepsLeft(a) # 0)
<1> DEFINE n == Len(file[a])
           e == Len(EdgePairs[file[a]])
<1>0. /\ n \in Nat /\ e \in Nat /\ pos[a] \in Nat /\ pos[a] # 0 /\ pc[a] \in PcValues
      /\ pc[a] = "edges" => pos[a] <= e + 1
      /\ pc[a] \in {"running", "failing", "recording"} => pos[a] <= n + 1
  BY LengthFacts
<1>1. StepsLeft(a) = StepsFrom(pc[a], pos[a], e, n)
  BY DEF StepsLeft
<1> HIDE DEF n, e
<1>2. CASE pc[a] \in Ended
  BY <1>1, <1>2, StepsFromLabel DEF Ended
<1>3. CASE pc[a] \in {"idle", "edges", "running"}
  BY <1>0, <1>1, <1>3, StepsFromLabel
<1>4. CASE pc[a] \in {"failing", "valid", "recording"}
  BY <1>0, <1>1, <1>4, StepsFromLabel
<1> QED  BY <1>0, <1>2, <1>3, <1>4 DEF PcValues

LEMMA StepShrinks ==
  ASSUME TypeOK, ControlOK, EdgeLoopOK, NEW a \in Attempts, file' = file, Act(a)
  PROVE  StepsLeft(a)' < StepsLeft(a) /\ StepsLeft(a)' <= StepsLeft(a)
<1> DEFINE n == Len(file[a])
           e == Len(EdgePairs[file[a]])
<1>0. /\ n \in Nat /\ e \in Nat /\ pos[a] \in Nat /\ DOMAIN pc = Attempts /\ DOMAIN pos = Attempts
      /\ pc[a] = "idle" => pos[a] = 1
      /\ pc[a] = "edges" => pos[a] <= e + 1
      /\ pc[a] = "running" => pos[a] <= n + 1
  BY LengthFacts DEF TypeOK
<1>1. /\ StepsLeft(a) = StepsFrom(pc[a], pos[a], e, n)
      /\ StepsLeft(a)' = StepsFrom(pc'[a], pos'[a], e, n)
  BY DEF StepsLeft
<1> HIDE DEF n, e
<1>2. CASE pc'[a] \in Ended
  <2>1. StepsLeft(a)' = 0
    BY <1>1, <1>2, StepsFromLabel DEF Ended
  <2>2. pc[a] \notin Ended
    BY DEF Act, Reject, Begin, Step, RecordNextEdge, CheckForjarPresent, MarkRunning, ValidateOk,
       ValidateFails, MarkFailed, Bail, Sort, MarkSucceeded, ReturnOk, ReturnErr, Crash, Ended
  <2> QED  BY <2>1, <2>2, StepsLeftIsNat
<1>3. CASE Begin(a)
  <2>1. pc[a] = "idle" /\ pc'[a] = "edges" /\ pos'[a] = pos[a]
    BY <1>0, <1>3 DEF Begin, OnlyGoto, Goto
  <2> QED  BY <1>0, <1>1, <2>1, StepsFromLabel
<1>4. CASE RecordNextEdge(a)
  <2>1. pc[a] = "edges" /\ pc'[a] = "edges" /\ pos'[a] = pos[a] + 1
    BY <1>0, <1>4 DEF RecordNextEdge, Advance
  <2> QED  BY <1>0, <1>1, <2>1, StepsFromLabel
<1>5. CASE CheckForjarPresent(a)
  <2>1. pc[a] = "edges" /\ pc'[a] = "running" /\ pos'[a] = 1
    BY <1>0, <1>5 DEF CheckForjarPresent, Goto, Restart
  <2> QED  BY <1>0, <1>1, <2>1, StepsFromLabel
<1>6. CASE MarkRunning(a) \/ MarkFailed(a) \/ MarkSucceeded(a)
  <2>1. pc[a] \in {"running", "failing", "recording"} /\ pc'[a] = pc[a] /\ pos'[a] = pos[a] + 1
    BY <1>0, <1>6 DEF MarkRunning, MarkFailed, MarkSucceeded, Advance
  <2> QED  BY <1>0, <1>1, <2>1, StepsFromLabel
<1>7. CASE ValidateOk(a)
  <2>1. pc[a] = "running" /\ pc'[a] = "valid"
    BY <1>0, <1>7 DEF ValidateOk, Goto
  <2> QED  BY <1>0, <1>1, <2>1, StepsFromLabel
<1>8. CASE ValidateFails(a)
  <2>1. pc[a] = "running" /\ pc'[a] = "failing" /\ pos'[a] = 1
    BY <1>0, <1>8 DEF ValidateFails, Goto, Restart
  <2> QED  BY <1>0, <1>1, <2>1, StepsFromLabel
<1>9. CASE Sort(a)
  <2>1. pc[a] = "valid" /\ pc'[a] = "recording" /\ pos'[a] = 1
    BY <1>0, <1>9 DEF Sort, Goto, Restart
  <2> QED  BY <1>0, <1>1, <2>1, StepsFromLabel
<1>10. CASE Reject(a) \/ Bail(a) \/ ReturnOk(a) \/ ReturnErr(a) \/ Crash(a)
  BY <1>0, <1>2, <1>10 DEF Reject, Bail, ReturnOk, ReturnErr, Crash, OnlyGoto, Goto, Ended
<1> QED  BY <1>3, <1>4, <1>5, <1>6, <1>7, <1>8, <1>9, <1>10 DEF Act, Step

\* Every step of an attempt lowers the steps left to it, and no step of another
\* raises them.
StepsLeftShrink ==
  \A a \in Attempts :
    /\ StepsLeft(a)' <= StepsLeft(a)
    /\ Act(a) => StepsLeft(a)' < StepsLeft(a)

\* A run takes at most one step for each dependency, two for each task and five
\* more, whatever forjar answers and the other runs do (forjar.rs:142-239): the
\* steps left to it are a number, which each of its steps lowers.
THEOREM RunsAreBounded ==
  Spec => /\ [](\A a \in Attempts : StepsLeft(a) \in Nat)
          /\ [][StepsLeftShrink]_vars
<1>1. Init => EdgeLoopOK
  BY DEF Init, EdgeLoopOK
<1>2. TypeOK /\ ControlOK /\ EdgeLoopOK => \A a \in Attempts : StepsLeft(a) \in Nat
  BY StepsLeftIsNat
<1>3. TypeOK /\ ControlOK /\ EdgeLoopOK /\ [Next]_vars => [StepsLeftShrink]_vars
  <2> SUFFICES ASSUME TypeOK, ControlOK, EdgeLoopOK, Next,
                      NEW a \in Attempts, Act(a), NEW b \in Attempts
               PROVE  /\ StepsLeft(b)' <= StepsLeft(b)
                      /\ Act(b) => StepsLeft(b)' < StepsLeft(b)
    BY DEF Next, Act, StepsLeftShrink
  <2>1. file' = file
    BY FileIsKept
  <2>2. Act(b) => StepsLeft(b)' < StepsLeft(b) /\ StepsLeft(b)' <= StepsLeft(b)
    BY <2>1, StepShrinks
  <2>3. b # a => StepsLeft(b)' = StepsLeft(b) /\ StepsLeft(b) \in Nat
    BY <2>1, OthersUnchanged, StepsLeftIsNat DEF StepsLeft
  <2> QED  BY <2>2, <2>3
<1> QED  BY <1>1, <1>2, <1>3, NextEdgeLoop, TypeCorrect, PTL DEF Spec

----------------------------------------------------------------------------
(* Retries *)

Retried(a)  == pc[a] = "idle" /\ \A b \in Rivals(a) : pc[b] \in Ended
Owns(a, i)  == taskRuns[<<RunOf[a], file[a][i].id>>].by = a
AfterMarked == {"failing", "valid", "recording", "ok", "invalid"}

\* From a retry on, nobody else writes to the run, and its own first loop has
\* written the rows of all tasks when forjar is asked.
OwnRows(a) ==
  /\ \A b \in Rivals(a) : pc[b] \in Ended
  /\ pc[a] = "running" => \A i \in DOMAIN file[a] : i < pos[a] => Owns(a, i)
  /\ pc[a] \in AfterMarked => \A i \in DOMAIN file[a] : Owns(a, i)

LEMMA OwnRowsAreKept ==
  ASSUME TypeOK, ControlOK, ProgressOK, NEW a \in Attempts, OwnRows(a), [Next]_vars
  PROVE  OwnRows(a)'
<1>f. file' = file
  BY FileIsKept
<1>0. CASE UNCHANGED vars
  BY <1>0 DEF vars, storeVars, localVars, OwnRows, Owns, Rivals
<1> SUFFICES ASSUME NEW b \in Attempts, Act(b) PROVE OwnRows(a)'
  BY <1>0 DEF Next, Act
<1>1. pc[b] \notin Ended
  BY DEF Act, Reject, Begin, Step, RecordNextEdge, CheckForjarPresent, MarkRunning,
         ValidateOk, ValidateFails, MarkFailed, Bail, Sort, MarkSucceeded, ReturnOk,
         ReturnErr, Crash, Ended
<1>2. b \notin Rivals(a) /\ Rivals(a)' = Rivals(a)
  BY <1>1 DEF OwnRows, Rivals
<1>3. \A c \in Rivals(a) : pc'[c] \in Ended
  BY <1>2, OthersUnchanged DEF OwnRows, Rivals
<1>4. ProgressOf(a)
  BY DEF ProgressOK
<1>5. ASSUME NEW i \in DOMAIN file[a], HasRow(a, file[a][i].id), Owns(a, i)
      PROVE  Owns(a, i)'
  <2> DEFINE k == <<RunOf[a], file[a][i].id>>
  <2>1. CASE b = a
    BY <1>f, <1>5, <2>1, RowsStay DEF HasRow, Owns
  <2>2. CASE b # a
    <3>1. RunOf[b] # RunOf[a]
      BY <1>2, <2>2 DEF Rivals
    <3>2. taskRuns'[k] = taskRuns[k]
      <4>1. CASE Writes(b)
        <5>1. PICK t \in IdsOf(b) : \E state \in {"Running", "Failed", "Succeeded"} :
                WritesRow(b, t, state)
          BY <4>1, WriteStep
        <5> QED  BY <1>5, <3>1, <5>1 DEF WritesRow, HasRow
      <4>2. CASE ~Writes(b)
        BY <4>2, QuietStep
      <4> QED  BY <4>1, <4>2
    <3> QED  BY <1>f, <1>5, <3>2 DEF Owns
  <2> QED  BY <2>1, <2>2
<1>6. CASE b # a
  BY <1>f, <1>2, <1>3, <1>4, <1>5, <1>6, OthersUnchanged DEF OwnRows, ProgressOf, AfterMarked
<1>7. CASE b = a /\ ~Writes(a)
  <2>1. \A i \in DOMAIN file[a] : (~More(a) => i < pos[a]) /\ ~(i < 1)
    BY FileOf DEF More, TypeOK
  <2>2. pc'[a] = "running" => pos'[a] = 1 \/ (pc[a] = "running" /\ pos'[a] = pos[a])
    BY <1>7 DEF Act, Writes, Reject, Begin, Step, RecordNextEdge, CheckForjarPresent, ValidateOk,
         ValidateFails, Bail, Sort, ReturnOk, ReturnErr, Crash, OnlyGoto, Goto, Restart, TypeOK
  <2>3. pc'[a] \in AfterMarked => (pc[a] = "running" /\ ~More(a)) \/ pc[a] \in AfterMarked
    BY <1>7 DEF Act, Writes, Reject, Begin, Step, RecordNextEdge, CheckForjarPresent, ValidateOk,
         ValidateFails, Bail, Sort, ReturnOk, ReturnErr, Crash, OnlyGoto, Goto, TypeOK, AfterMarked
  <2> QED  BY <1>f, <1>2, <1>3, <1>4, <1>5, <2>1, <2>2, <2>3 DEF OwnRows, ProgressOf, AfterMarked
<1>8. CASE b = a /\ Writes(a)
  <2>1. PICK t \in IdsOf(a), state \in {"Running", "Failed", "Succeeded"} : WritesRow(a, t, state)
    BY <1>8, WriteStep
  <2>2. pc'[a] = pc[a] /\ pos'[a] = pos[a] + 1 /\ pos[a] \in Nat
    BY <1>8, QuietStep DEF TypeOK
  <2>3. pc[a] = "running" => t = file[a][pos[a]].id /\ taskRuns'[<<RunOf[a], t>>].by = a
    BY <2>1 DEF WritesRow
  <2>4. pc[a] = "running" => \A i \in DOMAIN file[a] : i = pos[a] => Owns(a, i)'
    BY <1>f, <2>3 DEF Owns
  <2>5. \A i \in DOMAIN file[a] : i < pos'[a] => i < pos[a] \/ i = pos[a]
    BY <2>2, FileOf
  <2> QED  BY <1>f, <1>2, <1>3, <1>4, <1>5, <2>2, <2>4, <2>5 DEF OwnRows, ProgressOf, AfterMarked
<1> QED  BY <1>6, <1>7, <1>8

\* Rows left Running by a run whose order could not be computed are repaired by
\* a call made when all others on the run id are over (forjar.rs:175-230).
THEOREM RetriesRepair == Spec => RetryRepairs
<1> DEFINE Inv == IInv /\ RefusedIsSettled /\ ReportIsDurable
           Own(a) == pc[a] \in {"ok", "invalid"} => \A i \in DOMAIN file[a] :
                       LET row == taskRuns[<<RunOf[a], file[a][i].id>>] IN
                       row.by = a /\ row.state \in {"Succeeded", "Failed"}
<1>1. Spec => []Inv
  BY Inductive, RefusalIsSettled, ReportsAreDurable, PTL
<1>2. ASSUME NEW a \in Attempts
      PROVE  Spec => [](Retried(a) => []Own(a))
  <2>1. Inv /\ Retried(a) => OwnRows(a)
    BY DEF Retried, OwnRows, AfterMarked
  <2>2. Inv /\ OwnRows(a) /\ [Next]_vars => OwnRows(a)'
    BY OwnRowsAreKept DEF IInv
  <2>3. Inv /\ OwnRows(a) => Own(a)
    BY DEF OwnRows, Owns, AfterMarked, RefusedIsSettled, ReportIsDurable
  <2> QED  BY <1>1, <2>1, <2>2, <2>3, PTL DEF Spec
<1> QED  BY <1>2 DEF RetryRepairs, Retried

----------------------------------------------------------------------------
(* The refinement *)

Lone == Self \in Attempts /\ Rivals(Self) = {}

Key(i) == <<RunOf[Self], file[Self][i].id>>

\* What the loops over the tasks have yet to do, when nobody else writes to the
\* run: no row is there early, and none is Failed early.
Untouched ==
  /\ pc[Self] = "running" => \A i \in DOMAIN file[Self] :
       i >= pos[Self] => Key(i) \notin DOMAIN taskRuns
  /\ pc[Self] = "failing" => \A i \in DOMAIN file[Self] :
       i >= pos[Self] /\ Key(i) \in DOMAIN taskRuns => taskRuns[Key(i)].state # "Failed"

\* All rows of the run are the attempt's own.
LEMMA LoneRows ==
  ASSUME Lone, TypeOK, RowsOK, NEW k \in DOMAIN taskRuns, k[1] = RunOf[Self]
  PROVE  taskRuns[k].by = Self /\ RowOf(k, Self)
<1>1. PICK b \in Attempts : b = taskRuns[k].by /\ RowOf(k, b)
  BY DEF TypeOK, StoreTypeOK, Row, RowsOK
<1> QED  BY <1>1 DEF RowOf, Lone, Rivals

\* The steps of other attempts leave the rows of the run alone.
LEMMA OthersElsewhere ==
  ASSUME Lone, TypeOK, ControlOK, NEW b \in Attempts \ {Self}, Act(b), NEW t
  PROVE  /\ <<RunOf[Self], t>> \in DOMAIN taskRuns' <=> <<RunOf[Self], t>> \in DOMAIN taskRuns
         /\ <<RunOf[Self], t>> \in DOMAIN taskRuns =>
              taskRuns'[<<RunOf[Self], t>>] = taskRuns[<<RunOf[Self], t>>]
<1>1. RunOf[b] # RunOf[Self]
  BY DEF Lone, Rivals
<1>2. CASE Writes(b)
  <2>1. PICK u \in IdsOf(b) : \E state \in {"Running", "Failed", "Succeeded"} :
          WritesRow(b, u, state)
    BY <1>2, WriteStep
  <2> QED  BY <1>1, <2>1 DEF WritesRow
<1>3. CASE ~Writes(b)
  BY <1>3, QuietStep
<1> QED  BY <1>2, <1>3

LEMMA NextUntouched ==
  ASSUME Lone, TypeOK, ControlOK, RowsOK, Untouched, [Next]_vars
  PROVE  Untouched'
<1> DEFINE D == DOMAIN file[Self]
<1>f. file' = file /\ \A i : Key(i)' = Key(i) /\ Key(i) = <<RunOf[Self], file[Self][i].id>>
  BY FileIsKept DEF Key
<1>0. CASE UNCHANGED vars
  BY <1>f, <1>0 DEF vars, storeVars, localVars, Untouched
<1> SUFFICES ASSUME NEW b \in Attempts, Act(b) PROVE Untouched'
  BY <1>0 DEF Next, Act
<1>1. CASE b # Self
  <2>1. pc'[Self] = pc[Self] /\ pos'[Self] = pos[Self]
    BY <1>1, OthersUnchanged DEF Lone
  <2>2. \A t : /\ <<RunOf[Self], t>> \in DOMAIN taskRuns' <=> <<RunOf[Self], t>> \in DOMAIN taskRuns
               /\ <<RunOf[Self], t>> \in DOMAIN taskRuns =>
                    taskRuns'[<<RunOf[Self], t>>] = taskRuns[<<RunOf[Self], t>>]
    BY <1>1, OthersElsewhere
  <2>3. \A i \in D : /\ Key(i) \in DOMAIN taskRuns' <=> Key(i) \in DOMAIN taskRuns
                     /\ Key(i) \in DOMAIN taskRuns => taskRuns'[Key(i)] = taskRuns[Key(i)]
    BY <1>f, <2>2
  <2> QED  BY <1>f, <2>1, <2>3 DEF Untouched
\* The row a step writes is that of the position it leaves.
<1>2. CASE b = Self /\ Writes(Self)
  <2>1. PICK t \in IdsOf(Self), state \in {"Running", "Failed", "Succeeded"} :
          WritesRow(Self, t, state)
    BY <1>2, WriteStep
  <2>2. /\ pc'[Self] = pc[Self] /\ pos'[Self] = pos[Self] + 1 /\ pos[Self] \in Nat
        /\ D \subseteq Nat /\ pos[Self] \in D /\ IsInjective(TaskIdsOf(file[Self]))
        /\ \A i \in D : TaskIdsOf(file[Self])[i] = file[Self][i].id
    BY <1>2, <2>1, QuietStep, FileOf, TaskOfLoop, FileFacts DEF TypeOK, Lone, WritesRow
  <2>3. ASSUME pc[Self] \in {"running", "failing"}, NEW i \in D, i >= pos'[Self]
        PROVE  /\ Key(i) \in DOMAIN taskRuns' <=> Key(i) \in DOMAIN taskRuns
               /\ Key(i) \in DOMAIN taskRuns => taskRuns'[Key(i)] = taskRuns[Key(i)]
    <3>1. t = file[Self][pos[Self]].id
      BY <2>1, <2>3 DEF WritesRow
    <3>2. i # pos[Self]
      BY <2>2, <2>3
    <3>3. file[Self][i].id # t
      BY <2>2, <3>1, <3>2, FileOf DEF IsInjective, TaskIdsOf, Lone
    <3> QED  BY <1>f, <2>1, <3>3 DEF WritesRow
  <2>4. \A i \in D : i >= pos'[Self] => i >= pos[Self]
    BY <2>2
  <2> QED  BY <1>f, <2>2, <2>3, <2>4 DEF Untouched
<1>3. CASE b = Self /\ ~Writes(Self)
  <2>1. taskRuns' = taskRuns
    BY <1>3, QuietStep
  <2>2. /\ pc'[Self] = "running" => pc[Self] = "edges" \/ (pc[Self] = "running" /\ pos'[Self] = pos[Self])
        /\ pc'[Self] = "failing" => pc[Self] = "running" \/ (pc[Self] = "failing" /\ pos'[Self] = pos[Self])
    BY <1>3 DEF Act, Writes, Reject, Begin, Step, RecordNextEdge, CheckForjarPresent, ValidateOk,
         ValidateFails, Bail, Sort, ReturnOk, ReturnErr, Crash, OnlyGoto, Goto, Restart, TypeOK, Lone
  <2>3. \A i \in D : Key(i) \in DOMAIN taskRuns => RowOf(Key(i), Self)
    BY <1>f, LoneRows
  <2>4. pc[Self] = "edges" => \A i \in D : Key(i) \notin DOMAIN taskRuns
    BY <2>3 DEF RowOf
  <2>5. pc[Self] = "running" => \A i \in D :
          Key(i) \in DOMAIN taskRuns => taskRuns[Key(i)].state # "Failed"
    BY <2>3 DEF RowOf
  <2> QED  BY <1>f, <2>1, <2>2, <2>4, <2>5 DEF Untouched
<1> QED  BY <1>1, <1>2, <1>3

LEMMA UntouchedCorrect == Lone => (Spec => []Untouched)
<1> SUFFICES ASSUME Lone PROVE Spec => []Untouched
  OBVIOUS
<1>1. Init => Untouched
  BY DEF Init, Untouched, Lone
<1>2. IInv /\ Untouched /\ [Next]_vars => Untouched'
  BY NextUntouched DEF IInv
<1> QED  BY <1>1, <1>2, Inductive, PTL DEF Spec

Known == IInv /\ Untouched

\* What the store shows of a task is what the attempt made of it.
LEMMA StatusFacts ==
  ASSUME Lone, IInv, NEW t \in IdsOf(Self)
  PROVE  /\ StatusInStore[t] = "Pending" <=> ~HasRow(Self, t)
         /\ StatusInStore[t] \in {"Pending", "Running", "Failed", "Succeeded"}
         /\ HasRow(Self, t) => StatusInStore[t] = taskRuns[<<RunOf[Self], t>>].state
         /\ StatusInStore[t] = "Succeeded" <=> Did(Self, t)
         /\ StatusInStore[t] = "Failed" =>
              pc[Self] \in {"failing", "invalid", "err", "crashed"} /\ Fresh(Self)
<1> DEFINE k == <<RunOf[Self], t>>
<1>1. StatusInStore[t] = IF k \in DOMAIN taskRuns THEN taskRuns[k].state ELSE "Pending"
  BY DEF StatusInStore, RowKey, IdsOf
<1>2. k \in DOMAIN taskRuns => RowOf(k, Self)
  BY LoneRows DEF IInv
<1>3. t \in TaskIds /\ (Did(Self, t) => HasRow(Self, t))
  BY FileOf DEF IInv, Lone, ProgressOK, ProgressOf
<1> QED  BY <1>1, <1>2, <1>3 DEF RowOf, HasRow

LEMMA InitRefines == Lone /\ Init => Abstract!Init
<1> SUFFICES ASSUME Lone, Init PROVE Abstract!Init
  OBVIOUS
<1>1. file[Self] \in Files /\ Outcome = "open"
  BY DEF Init, Lone, Outcome
<1>2. StatusInStore = [t \in Range(TaskIdsOf(file[Self])) |-> "Pending"]
  BY DEF Init, InitSchema, StatusInStore
<1>3. \A e \in Range(EdgePairs[file[Self]]) : e[2] \in Range(TaskIdsOf(file[Self]))
  BY <1>1, PairFacts
<1> QED  BY <1>1, <1>2, <1>3 DEF Abstract!Init

\* A step that writes no row, and leaves the run open, is not seen.
LEMMA QuietIsUnseen ==
  ASSUME file' = file, taskRuns' = taskRuns
  PROVE  StatusInStore' = StatusInStore
BY DEF StatusInStore, RowKey

\* A write changes the status of its task.
LEMMA WriteIsSeen ==
  ASSUME Lone, IInv, NEW t \in IdsOf(Self), NEW state, WritesRow(Self, t, state), file' = file
  PROVE  StatusInStore' = [StatusInStore EXCEPT ![t] = state]
<1> DEFINE T == IdsOf(Self)
           k == <<RunOf[Self], t>>
<1>1. /\ DOMAIN taskRuns' = DOMAIN taskRuns \cup {k} /\ taskRuns'[k].state = state
      /\ \A l \in DOMAIN taskRuns \ {k} : taskRuns'[l] = taskRuns[l]
  BY DEF WritesRow
<1>2. \A u : RowKey(u) = <<RunOf[Self], u>> /\ RowKey(u)' = RowKey(u)
  BY DEF RowKey
<1>3. \A u : u # t => RowKey(u) # k
  BY <1>2
<1>4. RowKey(t) = k
  BY <1>2
<1> HIDE DEF k
<1>5. StatusInStore' = [u \in T |-> IF u = t THEN state ELSE StatusInStore[u]]
  BY <1>1, <1>2, <1>3, <1>4 DEF StatusInStore, IdsOf
<1>6. StatusInStore = [u \in T |-> StatusInStore[u]]
  BY DEF StatusInStore, IdsOf
<1> QED  BY <1>5, <1>6

LEMMA SelfRefines ==
  ASSUME Lone, Known, Act(Self), file' = file
  PROVE  [Abstract!Next]_(Abstract!vars)
<1> DEFINE T == Range(TaskIdsOf(file[Self]))
           E == Range(EdgePairs[file[Self]])
           D == DOMAIN file[Self]
<1>0. /\ Self \in Attempts /\ TypeOK /\ ControlOf(Self) /\ ProgressOf(Self) /\ PrefixOf(Self)
      /\ T = IdsOf(Self) /\ T \subseteq TaskIds /\ D = 1..Len(file[Self])
      /\ \A t \in T : \E i \in D : file[Self][i].id = t
      /\ \A i \in D : file[Self][i].id \in T
      /\ pos[Self] \in Nat /\ pos[Self] # 0 /\ Len(file[Self]) \in Nat
  BY FileOf DEF Lone, Known, IInv, TypeOK, ControlOK, ProgressOK, PrefixOK, IdsOf
<1>1. CASE ~Writes(Self) /\ pc'[Self] \notin Ended
  <2>1. StatusInStore' = StatusInStore
    BY <1>0, <1>1, QuietStep, QuietIsUnseen
  <2>2. pc[Self] \notin Ended
    BY DEF Act, Reject, Begin, Step, RecordNextEdge, CheckForjarPresent, MarkRunning,
           ValidateOk, ValidateFails, MarkFailed, Bail, Sort, MarkSucceeded, ReturnOk,
           ReturnErr, Crash, Ended
  <2>3. Outcome' = Outcome
    BY <1>1, <2>2 DEF Outcome, Ended
  <2> QED  BY <2>1, <2>3 DEF Abstract!vars
<1>2. CASE Reject(Self) \/ ReturnErr(Self) \/ Crash(Self)
  <2>1. taskRuns' = taskRuns /\ pc[Self] \notin Ended /\ pc'[Self] \in {"err", "crashed"}
    BY <1>0, <1>2 DEF Reject, ReturnErr, Crash, OnlyGoto, Goto, Ended, TypeOK, storeVars
  <2>2. Outcome = "open" /\ Outcome' = "err"
    BY <2>1 DEF Outcome, Ended
  <2>3. StatusInStore' = StatusInStore
    BY <2>1, QuietIsUnseen
  <2> QED  BY <2>2, <2>3 DEF Abstract!Next, Abstract!Abort, Abstract!End
<1>3. CASE Bail(Self)
  <2>1. taskRuns' = taskRuns /\ pc[Self] = "failing" /\ ~More(Self) /\ pc'[Self] = "invalid"
    BY <1>0, <1>3 DEF Bail, OnlyGoto, Goto, TypeOK, storeVars
  <2>2. Outcome = "open" /\ Outcome' = "refused"
    BY <2>1 DEF Outcome
  <2>3. ASSUME NEW t \in T PROVE StatusInStore[t] = "Failed"
    <3>1. PICK i \in D : file[Self][i].id = t
      BY <1>0
    <3>2. i < pos[Self]
      BY <1>0, <2>1 DEF More
    <3>3. HasRow(Self, t)
      BY <1>0, <2>1, <3>1 DEF ProgressOf
    <3>4. taskRuns[<<RunOf[Self], t>>].by = Self
      BY <3>3, LoneRows DEF HasRow, Known, IInv
    <3>5. taskRuns[<<RunOf[Self], t>>].state = "Failed"
      BY <1>0, <2>1, <3>1, <3>2, <3>4 DEF ProgressOf
    <3> QED  BY <1>0, <3>3, <3>5, StatusFacts DEF Known
  <2>4. StatusInStore' = StatusInStore
    BY <2>1, QuietIsUnseen
  <2> QED  BY <2>2, <2>3, <2>4 DEF Abstract!Next, Abstract!Refuse, Abstract!AllAre, Abstract!End
<1>4. CASE ReturnOk(Self)
  <2>1. taskRuns' = taskRuns /\ pc[Self] = "recording" /\ ~More(Self) /\ pc'[Self] = "ok"
    BY <1>0, <1>4 DEF ReturnOk, OnlyGoto, Goto, TypeOK, storeVars
  <2>2. Outcome = "open" /\ Outcome' = "ok"
    BY <2>1 DEF Outcome
  <2>3. ASSUME NEW t \in T PROVE StatusInStore[t] = "Succeeded"
    <3>1. PICK i \in D : topo_order[Self][i] = t
      BY <1>0, <2>1, OrderOf DEF ControlOf
    <3>2. i < pos[Self]
      BY <1>0, <2>1 DEF More
    <3>3. Did(Self, t)
      BY <1>0, <2>1, <3>1, <3>2 DEF PrefixOf
    <3> QED  BY <1>0, <3>3, StatusFacts DEF Known
  <2>4. StatusInStore' = StatusInStore
    BY <2>1, QuietIsUnseen
  <2> QED  BY <2>2, <2>3, <2>4 DEF Abstract!Next, Abstract!Return, Abstract!AllAre, Abstract!End
\* The three writes.
<1>5. ASSUME Writes(Self), NEW t \in T, NEW state, WritesRow(Self, t, state)
      PROVE  Outcome = "open" /\ Abstract!Set(t, state)
  <2>1. StatusInStore' = [StatusInStore EXCEPT ![t] = state]
    BY <1>0, <1>5, WriteIsSeen DEF Known
  <2>2. pc' = pc /\ pc[Self] \in {"running", "failing", "recording"}
    BY <1>0, <1>5, QuietStep DEF Writes, MarkRunning, MarkFailed, MarkSucceeded
  <2>3. Outcome = "open" /\ Outcome' = "open"
    BY <2>2 DEF Outcome
  <2> QED  BY <2>1, <2>3 DEF Abstract!Set
<1>6. CASE Writes(Self)
  <2>1. PICK t \in T, state \in {"Running", "Failed", "Succeeded"} : WritesRow(Self, t, state)
    <3>1. PICK t \in IdsOf(Self), state \in {"Running", "Failed", "Succeeded"} :
            WritesRow(Self, t, state)
      BY <1>6, WriteStep DEF Known, IInv, Lone
    <3>2. t \in T
      BY <1>0
    <3> QED  BY <3>1, <3>2
  <2>2. Outcome = "open" /\ Abstract!Set(t, state)
    BY <1>5, <1>6, <2>1
  <2>3. t \in IdsOf(Self) /\ pos[Self] \in D
    BY <1>0, <2>1 DEF WritesRow, More
  <2>4. CASE state = "Running"
    <3>1. pc[Self] = "running" /\ t = file[Self][pos[Self]].id
      BY <2>1, <2>4 DEF WritesRow
    <3>2. ~HasRow(Self, t)
      BY <1>0, <2>3, <3>1 DEF Known, Untouched, Key, HasRow
    <3>3. \A u \in T : StatusInStore[u] \notin {"Failed", "Succeeded"}
      BY <1>0, <3>1, StatusFacts DEF Known, ControlOf, Fresh, Did
    <3>4. StatusInStore[t] = "Pending"
      BY <2>3, <3>2, StatusFacts DEF Known
    <3> QED  BY <2>2, <2>4, <3>3, <3>4 DEF Abstract!Next, Abstract!Start, Abstract!NoneIs
  <2>5. CASE state = "Failed"
    <3>1. pc[Self] = "failing" /\ t = file[Self][pos[Self]].id
      BY <2>1, <2>5 DEF WritesRow
    <3>2. \A u \in T : HasRow(Self, u)
      BY <1>0, <3>1 DEF ProgressOf
    <3>3. \A u \in T : StatusInStore[u] \notin {"Pending", "Succeeded"}
      BY <1>0, <3>1, <3>2, StatusFacts DEF Known, ControlOf, Fresh, Did
    <3>4. taskRuns[<<RunOf[Self], t>>].state # "Failed"
      BY <1>0, <2>3, <3>1, <3>2 DEF Known, Untouched, Key, HasRow
    <3>5. StatusInStore[t] = "Running"
      BY <1>0, <2>3, <3>2, <3>3, <3>4, StatusFacts DEF Known
    <3> QED  BY <2>2, <2>5, <3>3, <3>5
             DEF Abstract!Next, Abstract!Fail, Abstract!Started, Abstract!NoneIs
  <2>6. CASE state = "Succeeded"
    <3>1. pc[Self] = "recording" /\ t = topo_order[Self][pos[Self]] /\ Ordered(Self)
      BY <1>0, <2>1, <2>6 DEF WritesRow, ControlOf
    <3>2. \A u \in T : HasRow(Self, u)
      BY <1>0, <3>1 DEF ProgressOf
    <3>3. \A u \in T : StatusInStore[u] \notin {"Pending", "Failed"}
      BY <1>0, <3>1, <3>2, StatusFacts DEF Known
    <3>4. ~Did(Self, t)
      BY <1>0, <2>3, <3>1 DEF PrefixOf
    <3>5. StatusInStore[t] = "Running"
      BY <2>3, <1>0, <3>3, <3>4, StatusFacts DEF Known
    <3>6. ASSUME NEW e \in E, e[2] = t PROVE e[1] \in T /\ StatusInStore[e[1]] = "Succeeded"
      <4>1. PICK i \in D, j \in D : i < j /\ topo_order[Self][i] = e[1] /\ topo_order[Self][j] = t
        <5>1. \A d \in E : \E i, j \in D :
                i < j /\ topo_order[Self][i] = d[1] /\ topo_order[Self][j] = d[2]
          BY <1>0, <3>1, OrderOf
        <5> QED  BY <3>6, <5>1
      <4>2. j = pos[Self] /\ e[1] \in IdsOf(Self)
        <5>1. /\ \A x \in D : topo_order[Self][x] \in IdsOf(Self)
              /\ \A x, y \in D : topo_order[Self][x] = topo_order[Self][y] => x = y
          BY <1>0, <3>1, OrderOf
        <5> HIDE DEF D
        <5> QED  BY <2>3, <3>1, <4>1, <5>1
      <4>3. Did(Self, e[1])
        BY <1>0, <3>1, <4>1, <4>2 DEF PrefixOf
      <4> QED  BY <1>0, <4>2, <4>3, StatusFacts DEF Known
    <3> QED  BY <2>2, <2>6, <3>3, <3>5, <3>6
             DEF Abstract!Next, Abstract!Succeed, Abstract!Started, Abstract!NoneIs
  <2> QED  BY <2>1, <2>4, <2>5, <2>6
<1>7. ~Writes(Self) /\ pc'[Self] \in Ended =>
        Reject(Self) \/ ReturnErr(Self) \/ Crash(Self) \/ Bail(Self) \/ ReturnOk(Self)
  BY <1>0 DEF Act, Writes, Begin, Step, RecordNextEdge, CheckForjarPresent, ValidateOk,
       ValidateFails, Sort, OnlyGoto, Goto, TypeOK, Ended
<1> QED  BY <1>1, <1>2, <1>3, <1>4, <1>6, <1>7

LEMMA NextRefines == Lone /\ Known /\ [Next]_vars => [Abstract!Next]_(Abstract!vars)
<1> SUFFICES ASSUME Lone, Known, [Next]_vars PROVE [Abstract!Next]_(Abstract!vars)
  OBVIOUS
<1>1. file' = file
  BY FileIsKept
<1>2. CASE UNCHANGED vars
  <2>1. UNCHANGED <<StatusInStore, Outcome>>
    BY <1>2 DEF vars, storeVars, localVars, StatusInStore, RowKey, Outcome
  <2> QED  BY <1>1, <2>1 DEF Abstract!vars
<1>3. ASSUME NEW b \in Attempts \ {Self}, Act(b)
      PROVE  UNCHANGED (Abstract!vars)
  <2>1. pc'[Self] = pc[Self]
    BY <1>3, OthersUnchanged DEF Lone, Known, IInv
  <2>2. \A t : /\ RowKey(t) = <<RunOf[Self], t>> /\ RowKey(t)' = RowKey(t)
               /\ RowKey(t) \in DOMAIN taskRuns' <=> RowKey(t) \in DOMAIN taskRuns
               /\ RowKey(t) \in DOMAIN taskRuns => taskRuns'[RowKey(t)] = taskRuns[RowKey(t)]
    BY <1>3, OthersElsewhere DEF Known, IInv, RowKey
  <2>3. StatusInStore' = StatusInStore
    BY <1>1, <2>2 DEF StatusInStore
  <2>4. Outcome' = Outcome
    BY <2>1 DEF Outcome
  <2> QED  BY <1>1, <2>3, <2>4 DEF Abstract!vars
<1> QED  BY <1>1, <1>2, <1>3, SelfRefines DEF Next, Act, Lone

\* A run whose id no other attempt has implements FileRun as the store shows
\* it, with crashes at any point and other runs beside it (forjar.rs:142-239).
THEOREM RunsImplementFileRun == Lone => (Spec => ImplementsFileRun)
<1> SUFFICES ASSUME Lone PROVE Spec => ImplementsFileRun
  OBVIOUS
<1>1. Spec => []Known
  BY Inductive, UntouchedCorrect, PTL DEF Known
<1>2. Init => Abstract!Init
  BY InitRefines
<1>3. Known /\ [Next]_vars => [Abstract!Next]_(Abstract!vars)
  BY NextRefines
<1> QED  BY <1>1, <1>2, <1>3, PTL DEF Spec, ImplementsFileRun, Abstract!Spec
=============================================================================
