-------------------------- MODULE GraphBuilderProof -------------------------
(***************************************************************************)
(* What holds of every graph that is built and of every graph that is      *)
(* rejected for a cycle, for graphs of any size: the waves are the levels  *)
(* of the forward edges, a cycle is found exactly when there is one, the   *)
(* graph is in one piece, and a back edge's cycle runs from its target to  *)
(* its source.                                                             *)
(***************************************************************************)
EXTENDS GraphBuilder, FiniteSetTheorems, TLAPS

(* Every set of numbers has a least one, which is what an induction needs. *)
LEMMA LeastExists ==
  ASSUME NEW T \in SUBSET Nat, T # {}
  PROVE  \E n \in T : \A m \in T : n <= m
<1> DEFINE R == OpToRel(<, Nat)
<1>1. \E x \in T : \A y \in T : ~ (<<y, x>> \in R)
  <2> HIDE DEF R
  <2>1. IsWellFoundedOn(R, Nat)
    BY NatLessThanWellFounded, Zenon DEF R
  <2> QED
    BY <2>1, WFMin, Zenon
<1>2. \A x, y \in Nat : <<y, x>> \in R <=> y < x
  BY DEF OpToRel
<1> HIDE DEF R
<1>3. PICK n \in T : \A y \in T : ~ (<<y, n>> \in R)
  BY <1>1
<1>4. ASSUME NEW m \in T
      PROVE  n <= m
  <2>1. n \in Nat /\ m \in Nat /\ ~ (<<m, n>> \in R)
    BY <1>3
  <2>2. ~ (m < n)
    BY <1>2, <2>1
  <2> QED
    BY <2>1, <2>2
<1> QED
  BY <1>4

-----------------------------------------------------------------------------
(* What is reachable: the start, whatever a pair leads to from there, and  *)
(* nothing else.                                                           *)

Step(seen, R) == seen \cup {p[2] : p \in {q \in R : q[1] \in seen}}

\* f[k] is what paths of at most k pairs reach.
IsLayers(f, start, R, n) == f = [k \in 0..n |-> IF k = 0 THEN {start} ELSE Step(f[k-1], R)]

Closed(S, R) == \A p \in R : p[1] \in S => p[2] \in S

LEMMA StepClosed ==
  ASSUME NEW S, NEW R
  PROVE  /\ S \subseteq Step(S, R) /\ (Closed(S, R) <=> Step(S, R) = S)
         /\ Step(S, R) \subseteq S \cup {p[2] : p \in R}
         /\ \A T : S \subseteq T /\ Closed(T, R) => Step(S, R) \subseteq T
BY DEF Step, Closed

LEMMA LayersExist ==
  ASSUME NEW start, NEW R, NEW n \in Nat
  PROVE  \E f : IsLayers(f, start, R, n)
<1> SUFFICES ASSUME ~ \E f : IsLayers(f, start, R, n) PROVE FALSE
  OBVIOUS
<1> DEFINE T == {m \in Nat : ~ \E f : IsLayers(f, start, R, m)}
<1>1. PICK m \in T : \A k \in T : m <= k
  BY LeastExists
<1>2. CASE m = 0
  <2> DEFINE f == [k \in 0..0 |-> {start}]
  <2>1. IsLayers(f, start, R, 0)
    BY DEF IsLayers
  <2> QED
    BY <1>1, <1>2, <2>1
<1>3. CASE m # 0
  <2>1. m \in Nat /\ m - 1 \in Nat /\ m - 1 \notin T
    BY <1>1, <1>3
  <2>2. PICK f : IsLayers(f, start, R, m - 1)
    BY <2>1
  <2>3. f = [k \in 0..(m - 1) |-> IF k = 0 THEN {start} ELSE Step(f[k-1], R)]
    BY <2>2 DEF IsLayers
  <2> DEFINE g == [k \in 0..m |-> IF k = m THEN Step(f[m-1], R) ELSE f[k]]
  <2>4. ASSUME NEW k \in 0..m
        PROVE  g[k] = IF k = 0 THEN {start} ELSE Step(g[k-1], R)
    <3>1. CASE k = m
      <4>1. g[m] = Step(f[m-1], R) /\ m - 1 \in 0..m /\ m - 1 # m
        BY <2>1
      <4>2. g[m-1] = f[m-1]
        BY <4>1
      <4> QED
        BY <1>3, <3>1, <4>1, <4>2
    <3>2. CASE k # m
      <4>1. k \in 0..(m - 1) /\ g[k] = f[k]
        BY <2>1, <3>2
      <4>2. k # 0 => k - 1 \in 0..m /\ k - 1 # m /\ g[k-1] = f[k-1]
        BY <2>1, <3>2
      <4>3. f[k] = IF k = 0 THEN {start} ELSE Step(f[k-1], R)
        BY <2>3, <4>1
      <4> QED
        BY <4>1, <4>2, <4>3
    <3> QED
      BY <3>1, <3>2
  <2>5. g = [k \in 0..m |-> g[k]]
    OBVIOUS
  <2> HIDE DEF g
  <2>6. IsLayers(g, start, R, m)
    BY <2>4, <2>5 DEF IsLayers
  <2> QED
    BY <1>1, <2>6
<1> QED
  BY <1>2, <1>3

(* The layers of a search, of which the last is the result.                *)
Finds(f, start, R, n) ==
  /\ CollectReachable(start, R) = f[n] /\ f[0] = {start}
  /\ \A k \in 1..n : f[k] = Step(f[k-1], R)

LEMMA Layers ==
  ASSUME NEW start, NEW R, IsFiniteSet(R)
  PROVE  Cardinality(R) \in Nat /\ \E f : Finds(f, start, R, Cardinality(R))
<1>1. Cardinality(R) \in Nat
  BY FS_CardinalityType
<1> DEFINE n == Cardinality(R)
           f == CHOOSE g : g = [k \in 0..n |-> IF k = 0 THEN {start} ELSE Step(g[k-1], R)]
<1>2. CollectReachable(start, R) = f[n]
  BY DEF CollectReachable, Step
<1>3. f = [k \in 0..n |-> IF k = 0 THEN {start} ELSE Step(f[k-1], R)]
  <2>1. \E g : g = [k \in 0..n |-> IF k = 0 THEN {start} ELSE Step(g[k-1], R)]
    <3>1. n \in Nat
      BY <1>1
    <3> HIDE DEF n
    <3>2. PICK g : IsLayers(g, start, R, n)
      BY <3>1, LayersExist
    <3> QED
      BY <3>2 DEF IsLayers
  <2> QED
    BY <2>1
<1> HIDE DEF n, f
<1>4. n \in Nat
  BY <1>1 DEF n
<1>5. f[0] = {start}
  BY <1>3, <1>4
<1>6. ASSUME NEW k \in 1..n
      PROVE  f[k] = Step(f[k-1], R)
  <2>1. k \in 0..n /\ k # 0
    BY <1>4
  <2> QED
    BY <1>3, <2>1
<1>7. Finds(f, start, R, n)
  BY <1>2, <1>5, <1>6 DEF Finds
<1> QED
  BY <1>4, <1>7 DEF n

(* Nothing else is reachable than what every closed set has.               *)
LEMMA ReachesNoMore ==
  ASSUME NEW start, NEW R, IsFiniteSet(R), NEW S, start \in S, Closed(S, R)
  PROVE  CollectReachable(start, R) \subseteq S
<1>0. PICK f : Finds(f, start, R, Cardinality(R))
  BY Layers
<1>1. /\ Cardinality(R) \in Nat /\ CollectReachable(start, R) = f[Cardinality(R)]
      /\ f[0] = {start}
      /\ \A k \in 1..Cardinality(R) : f[k] = Step(f[k-1], R)
  BY <1>0, Layers DEF Finds
<1> SUFFICES ASSUME ~ (f[Cardinality(R)] \subseteq S) PROVE FALSE
  BY <1>1
<1> DEFINE T == {k \in 0..Cardinality(R) : ~ (f[k] \subseteq S)}
<1>2. T \in SUBSET Nat /\ Cardinality(R) \in T
  BY <1>1
<1>3. PICK k \in T : \A m \in T : k <= m
  BY <1>2, LeastExists
<1>4. k # 0
  BY <1>1, <1>3
<1>5. k \in 1..Cardinality(R) /\ k - 1 \in 0..Cardinality(R) /\ k - 1 \notin T
  BY <1>1, <1>3, <1>4
<1>6. f[k-1] \subseteq S /\ f[k] = Step(f[k-1], R)
  BY <1>1, <1>5
<1>7. f[k] \subseteq S
  BY <1>6, StepClosed
<1> QED
  BY <1>3, <1>7

(* Whatever can be reached is reached: as long as a layer is larger than   *)
(* the one before it, it is larger than its number, and there are no more  *)
(* targets than pairs.                                                     *)
LEMMA ReachesAll ==
  ASSUME NEW start, NEW R, IsFiniteSet(R)
  PROVE  start \in CollectReachable(start, R) /\ Closed(CollectReachable(start, R), R)
<1> DEFINE n == Cardinality(R)
           Targets == {p[2] : p \in R}
           All == {start} \cup Targets
<1>0. PICK f : Finds(f, start, R, n)
  BY Layers
<1>1. /\ n \in Nat /\ CollectReachable(start, R) = f[n]
      /\ f[0] = {start}
      /\ \A k \in 1..n : f[k] = Step(f[k-1], R)
  BY <1>0, Layers DEF Finds
<1>2. IsFiniteSet(Targets) /\ Cardinality(Targets) <= n
  <2> DEFINE g == [p \in R |-> p[2]]
  <2>1. g \in Surjection(R, Targets)
    BY DEF Surjection
  <2> QED
    BY <2>1, FS_Surjection
<1>3. IsFiniteSet(All) /\ Cardinality(All) <= n + 1 /\ Cardinality(All) \in Nat
  <2>0. All = Targets \cup {start}
    OBVIOUS
  <2> HIDE DEF Targets, All, n
  <2>1. IsFiniteSet(Targets \cup {start})
        /\ Cardinality(Targets \cup {start}) =
             IF start \in Targets THEN Cardinality(Targets) ELSE Cardinality(Targets) + 1
    BY <1>2, FS_AddElement
  <2>2. Cardinality(Targets) \in Nat
    BY <1>2, FS_CardinalityType
  <2> QED
    BY <1>1, <1>2, <2>0, <2>1, <2>2
<1> HIDE DEF n, Targets, All
<1>4. ASSUME NEW k \in 0..n
      PROVE  start \in f[k] /\ f[k] \subseteq All
  <2> SUFFICES ASSUME ~ (start \in f[k] /\ f[k] \subseteq All) PROVE FALSE
    OBVIOUS
  <2> DEFINE T == {m \in 0..n : ~ (start \in f[m] /\ f[m] \subseteq All)}
  <2>1. T \in SUBSET Nat /\ k \in T
    BY <1>1
  <2>2. PICK m \in T : \A j \in T : m <= j
    BY <2>1, LeastExists
  <2>3. m # 0
    BY <1>1, <2>2 DEF All
  <2>4. m \in 1..n /\ m - 1 \in 0..n /\ m - 1 \notin T
    BY <1>1, <2>2, <2>3
  <2>5. start \in f[m-1] /\ f[m-1] \subseteq All /\ f[m] = Step(f[m-1], R)
    BY <1>1, <2>4
  <2>6. start \in f[m] /\ f[m] \subseteq All
    BY <2>5, StepClosed DEF Targets, All
  <2> QED
    BY <2>2, <2>6
<1>5. CASE \E j \in 1..n : f[j] = f[j-1]
  <2>1. PICK j \in 1..n : f[j] = f[j-1]
    BY <1>5
  <2>2. f[j] = Step(f[j], R)
    BY <1>1, <2>1
  <2>3. f[n] = f[j]
    <3> SUFFICES ASSUME f[n] # f[j] PROVE FALSE
      OBVIOUS
    <3> DEFINE T == {m \in j..n : f[m] # f[j]}
    <3>1. T \in SUBSET Nat /\ n \in T
      BY <1>1
    <3>2. PICK m \in T : \A i \in T : m <= i
      BY <3>1, LeastExists
    <3>3. m # j
      BY <3>2
    <3>4. m \in 1..n /\ m - 1 \in j..n /\ m - 1 \notin T
      BY <1>1, <3>2, <3>3
    <3>5. f[m-1] = f[j] /\ f[m] = Step(f[m-1], R)
      BY <1>1, <3>4
    <3> QED
      BY <2>2, <3>2, <3>5
  <2>4. Closed(f[n], R)
    BY <2>2, <2>3, StepClosed
  <2> QED
    BY <1>1, <1>4, <2>4
<1>6. CASE \A j \in 1..n : f[j] # f[j-1]
  <2>1. ASSUME NEW k \in 0..n
        PROVE  IsFiniteSet(f[k]) /\ Cardinality(f[k]) \in Nat /\ Cardinality(f[k]) <= Cardinality(All)
    <3>1. f[k] \in SUBSET All
      BY <1>4
    <3> QED
      BY <1>3, <3>1, FS_Subset, FS_CardinalityType
  <2>2. Cardinality(f[n]) >= n + 1
    <3> SUFFICES ASSUME ~ (Cardinality(f[n]) >= n + 1) PROVE FALSE
      OBVIOUS
    <3> DEFINE T == {m \in 0..n : ~ (Cardinality(f[m]) >= m + 1)}
    <3>1. T \in SUBSET Nat /\ n \in T
      BY <1>1
    <3>2. PICK m \in T : \A i \in T : m <= i
      BY <3>1, LeastExists
    <3>3. m # 0
      <4>1. Cardinality(f[0]) = 1
        BY <1>1, FS_Singleton
      <4> QED
        BY <3>2, <4>1
    <3>4. m \in 1..n /\ m \in 0..n /\ m - 1 \in 0..n /\ m - 1 \notin T
      BY <1>1, <3>2, <3>3
    <3>5. Cardinality(f[m-1]) >= m /\ f[m-1] \subseteq f[m] /\ f[m-1] # f[m]
      BY <1>1, <1>6, <3>4, StepClosed
    <3>6. Cardinality(f[m-1]) <= Cardinality(f[m]) /\ Cardinality(f[m-1]) # Cardinality(f[m])
      <4>1. IsFiniteSet(f[m]) /\ f[m-1] \in SUBSET f[m]
        BY <2>1, <3>4, <3>5
      <4> QED
        BY <3>5, <4>1, FS_Subset
    <3>7. Cardinality(f[m-1]) \in Nat /\ Cardinality(f[m]) \in Nat
      BY <2>1, <3>4
    <3> QED
      BY <3>2, <3>4, <3>5, <3>6, <3>7
  <2>3. f[n] = All
    <3>1. n \in 0..n /\ f[n] \in SUBSET All
      BY <1>1, <1>4
    <3>2. Cardinality(f[n]) = Cardinality(All)
      BY <1>1, <1>3, <2>1, <2>2, <3>1
    <3> QED
      BY <1>3, <3>1, <3>2, FS_Subset
  <2>4. Closed(f[n], R)
    BY <2>3 DEF Closed, Targets, All
  <2> QED
    BY <1>1, <1>4, <2>4
<1> QED
  BY <1>5, <1>6

(* What is neither the start nor led to from what is reached is not.       *)
LEMMA ReachedFrom ==
  ASSUME NEW start, NEW R, IsFiniteSet(R), NEW id \in CollectReachable(start, R), id # start
  PROVE  \E p \in R : p[2] = id /\ p[1] \in CollectReachable(start, R)
<1> SUFFICES ASSUME ~ \E p \in R : p[2] = id /\ p[1] \in CollectReachable(start, R) PROVE FALSE
  OBVIOUS
<1> DEFINE S == CollectReachable(start, R) \ {id}
<1>1. start \in S /\ Closed(S, R)
  BY ReachesAll DEF Closed
<1>2. CollectReachable(start, R) \subseteq S
  <2> HIDE DEF S
  <2> QED
    BY <1>1, ReachesNoMore
<1> QED
  BY <1>2

(* When an id is reached from one end forwards and from the other end      *)
(* backwards, each end is reached from the other.                          *)
LEMMA EndsMeet ==
  ASSUME NEW a, NEW b, NEW R, NEW Q, IsFiniteSet(R), IsFiniteSet(Q),
         \A x, y : <<x, y>> \in R => <<y, x>> \in Q,
         \A p \in R : p = <<p[1], p[2]>>,
         CollectReachable(a, R) \cap CollectReachable(b, Q) # {}
  PROVE  a \in CollectReachable(b, Q)
<1> SUFFICES ASSUME a \notin CollectReachable(b, Q) PROVE FALSE
  OBVIOUS
<1> DEFINE S == CollectReachable(a, R) \ CollectReachable(b, Q)
<1>1. a \in S
  BY ReachesAll
<1>2. Closed(S, R)
  <2> SUFFICES ASSUME NEW p \in R, p[1] \in S PROVE p[2] \in S
    BY DEF Closed
  <2>1. p[2] \in CollectReachable(a, R)
    BY ReachesAll DEF Closed
  <2>2. <<p[2], p[1]>> \in Q
    OBVIOUS
  <2>3. p[2] \in CollectReachable(b, Q) => p[1] \in CollectReachable(b, Q)
    BY <2>2, ReachesAll DEF Closed
  <2> QED
    BY <2>1, <2>3
<1>3. CollectReachable(a, R) \subseteq S
  <2> HIDE DEF S
  <2> QED
    BY <1>1, <1>2, ReachesNoMore
<1> QED
  BY <1>3

-----------------------------------------------------------------------------
(* The forward edges of an input.                                          *)

LEMMA EdgesTyped ==
  ASSUME NEW in \in Inputs
  PROVE  /\ Len(in.edges) \in Nat /\ DOMAIN in.edges = 1..Len(in.edges)
         /\ \A n \in DOMAIN in.edges : in.edges[n] \in Edge
         /\ Forward(in) \subseteq Edge /\ BackEdges(in) \subseteq Edge
         /\ Forward(in) \cup BackEdges(in) \subseteq Range(in.edges)
BY InputsAssumption DEF Forward, BackEdges, Range

LEMMA PairsFinite ==
  ASSUME NEW in \in Inputs
  PROVE  /\ IsFiniteSet(Pairs(Forward(in))) /\ IsFiniteSet(Converse(Pairs(Forward(in))))
         /\ \A x, y : <<x, y>> \in Pairs(Forward(in)) <=> <<y, x>> \in Converse(Pairs(Forward(in)))
         /\ \A p \in Pairs(Forward(in)) : p = <<p[1], p[2]>>
         /\ \A p \in Converse(Pairs(Forward(in))) : p = <<p[1], p[2]>>
<1> DEFINE N == {n \in DOMAIN in.edges : in.edges[n] \in Forward(in)}
           P == Pairs(Forward(in))
<1>1. IsFiniteSet(N)
  <2>1. IsFiniteSet(1..Len(in.edges)) /\ N \in SUBSET (1..Len(in.edges))
    <3>1. Len(in.edges) \in Int /\ 1 \in Int
      BY EdgesTyped
    <3> QED
      BY <3>1, EdgesTyped, FS_Interval
  <2> HIDE DEF N
  <2> QED
    BY <2>1, FS_Subset
<1>2. IsFiniteSet(P)
  <2> DEFINE f == [n \in N |-> <<in.edges[n].from, in.edges[n].to>>]
  <2>1. \A e \in Forward(in) : \E n \in N : in.edges[n] = e
    BY EdgesTyped DEF Range
  <2>2. f \in Surjection(N, P)
    BY <2>1 DEF Surjection, Pairs
  <2> HIDE DEF f, N, P
  <2> QED
    BY <1>1, <2>2, FS_Surjection
<1>3. IsFiniteSet(Converse(P))
  <2> DEFINE f == [p \in P |-> <<p[2], p[1]>>]
  <2>1. f \in Surjection(P, Converse(P))
    BY DEF Surjection, Converse
  <2> HIDE DEF f, P
  <2> QED
    BY <1>2, <2>1, FS_Surjection
<1>4. (\A p \in P : p = <<p[1], p[2]>>) /\ \A p \in Converse(P) : p = <<p[1], p[2]>>
  BY DEF Pairs, Converse
<1> HIDE DEF P
<1>5. \A x, y : <<x, y>> \in P => <<y, x>> \in Converse(P)
  BY DEF Converse
<1>6. ASSUME NEW x, NEW y, <<y, x>> \in Converse(P)
      PROVE  <<x, y>> \in P
  <2>1. PICK p \in P : <<y, x>> = <<p[2], p[1]>>
    BY <1>6 DEF Converse
  <2> QED
    BY <1>4, <2>1
<1> QED
  BY <1>2, <1>3, <1>4, <1>5, <1>6 DEF P

(* What the validations leave.                                             *)
Valid(in) ==
  /\ in \in Inputs /\ in.entry \in Ids(in) /\ Orphans(in) = {}
  /\ \A e \in Range(in.edges) : e.from \in Ids(in) /\ e.to \in Ids(in)

LEMMA NoErrorIsValid ==
  ASSUME NEW in \in Inputs, FirstError(in) = "none"
  PROVE  Valid(in)
BY DEF FirstError, Valid, EntryMissing, Dangling

LEMMA EdgesCounted ==
  ASSUME input \in Inputs, NEW id, NEW S
  PROVE  /\ IsFiniteSet(EdgesFrom(S, id)) /\ EdgesInto(id, S) \in Nat
         /\ EdgesInto(id, S) = 0 <=> ~HasSource(id, S)
         /\ \A T \in SUBSET S : EdgesInto(id, S \ T) = EdgesInto(id, S) - EdgesInto(id, T)
<1> DEFINE All == 1..Len(input.edges)
<1>1. IsFiniteSet(All)
  <2>1. Len(input.edges) \in Int /\ 1 \in Int
    BY EdgesTyped
  <2> QED
    BY <2>1, FS_Interval
<1> HIDE DEF All
<1>2. ASSUME NEW U
      PROVE  IsFiniteSet(EdgesFrom(U, id)) /\ EdgesInto(id, U) \in Nat
  <2>1. EdgesFrom(U, id) \in SUBSET All
    BY EdgesTyped DEF EdgesFrom, All
  <2>2. IsFiniteSet(EdgesFrom(U, id))
    BY <1>1, <2>1, FS_Subset
  <2> QED
    BY <2>2, FS_CardinalityType DEF EdgesInto
<1>3. EdgesInto(id, S) = 0 <=> ~HasSource(id, S)
  <2>1. EdgesInto(id, S) = 0 <=> EdgesFrom(S, id) = {}
    BY <1>2, FS_EmptySet DEF EdgesInto
  <2>2. \A e \in Forward(input) : \E n \in DOMAIN input.edges : input.edges[n] = e
    BY EdgesTyped DEF Range
  <2>3. EdgesFrom(S, id) = {} <=> ~HasSource(id, S)
    BY <2>2 DEF EdgesFrom, HasSource
  <2> QED
    BY <2>1, <2>3
<1>4. ASSUME NEW T \in SUBSET S
      PROVE  EdgesInto(id, S \ T) = EdgesInto(id, S) - EdgesInto(id, T)
  <2>1. /\ EdgesFrom(S \ T, id) = EdgesFrom(S, id) \ EdgesFrom(T, id)
        /\ EdgesFrom(S, id) \cap EdgesFrom(T, id) = EdgesFrom(T, id)
    BY DEF EdgesFrom
  <2>2. Cardinality(EdgesFrom(S, id) \ EdgesFrom(T, id)) =
          Cardinality(EdgesFrom(S, id)) - Cardinality(EdgesFrom(S, id) \cap EdgesFrom(T, id))
    BY <1>2, FS_Difference
  <2> QED
    BY <2>1, <2>2 DEF EdgesInto
<1> QED
  BY <1>2, <1>3, <1>4

-----------------------------------------------------------------------------
(* The waves, while they are found.                                        *)

Counted ==
  inDegree \in [Ids(input) -> Nat] /\ \A id \in Ids(input) : inDegree[id] = EdgesInto(id, remaining)

\* Every id is in one wave or remains.
Split ==
  /\ waves \in Seq(SUBSET Ids(input)) /\ remaining \subseteq Ids(input)
  /\ \A id \in Ids(input) : id \in remaining \/ \E w \in DOMAIN waves : id \in waves[w]
  /\ \A w \in DOMAIN waves : waves[w] \cap remaining = {}
  /\ \A v, w \in DOMAIN waves : v # w => waves[v] \cap waves[w] = {}

\* An id of a wave has all its sources in earlier waves.
SourcesFirst ==
  \A e \in Forward(input), w \in DOMAIN waves :
    e.to \in waves[w] => \E v \in DOMAIN waves : v < w /\ e.from \in waves[v]

\* It has one in the wave before its own; one that remains has one there or
\* among those that remain.
NoLater ==
  /\ \A w \in DOMAIN waves \ {1} : \A id \in waves[w] : HasSource(id, waves[w-1])
  /\ Len(waves) # 0 => \A id \in remaining : HasSource(id, waves[Len(waves)] \cup remaining)

SortInv ==
  /\ input \in Inputs
  /\ pc \in {"validate", "sort", "built", "rejected"}
  /\ pc = "validate" => waves = <<>>
  /\ pc \in {"sort", "built"} => Valid(input) /\ Counted /\ Split /\ SourcesFirst /\ NoLater
  /\ pc = "built" => remaining = {}
  /\ pc = "rejected" /\ error = "cycle" => \E S \in SUBSET Ids(input) : Deadlocked(S)

LEMMA SortInit == Init => SortInv
BY DEF Init, SortInv

LEMMA SortValidate ==
  ASSUME SortInv, Validate
  PROVE  SortInv'
<1>1. /\ input' = input /\ waves' = <<>> /\ pc' = "sort" /\ remaining' = Ids(input)
      /\ inDegree' = [id \in Ids(input) |-> EdgesInto(id, Ids(input))]
      /\ input \in Inputs /\ Valid(input)
  BY NoErrorIsValid DEF Validate, SortInv
<1>2. Counted'
  <2>1. \A id \in Ids(input) : EdgesInto(id, Ids(input)) \in Nat
    BY <1>1, EdgesCounted
  <2> QED
    BY <1>1, <2>1 DEF Counted, Ids, EdgesInto, EdgesFrom
<1>3. Len(<<>>) = 0 /\ DOMAIN <<>> = {}
  OBVIOUS
<1>4. Split' /\ SourcesFirst' /\ NoLater'
  BY <1>1, <1>3 DEF Split, SourcesFirst, NoLater, Ids
<1>5. Valid(input)'
  BY <1>1
<1> QED
  BY <1>1, <1>2, <1>4, <1>5 DEF SortInv

LEMMA SortTakeWave ==
  ASSUME SortInv, TakeWave
  PROVE  SortInv'
<1> DEFINE n == Len(waves)
<1>1. /\ input' = input /\ pc' = "sort" /\ waves' = Append(waves, Wave) /\ remaining' = remaining \ Wave
      /\ inDegree' = [id \in Ids(input) |-> inDegree[id] - EdgesInto(id, Wave)]
      /\ input \in Inputs /\ Valid(input) /\ Counted /\ Split /\ SourcesFirst /\ NoLater
  BY DEF TakeWave, SortInv
<1>2. PICK wave : wave = Wave
  OBVIOUS
<1>3. wave \subseteq remaining /\ wave \in SUBSET Ids(input)
  BY <1>1, <1>2 DEF Wave, Split
<1>4. /\ n \in Nat /\ DOMAIN waves = 1..n /\ waves' \in Seq(SUBSET Ids(input))
      /\ DOMAIN waves' = 1..(n + 1) /\ Len(waves') = n + 1 /\ waves'[n + 1] = wave
      /\ \A w \in 1..n : waves'[w] = waves[w]
  <2>1. waves \in Seq(SUBSET Ids(input)) /\ waves' = Append(waves, wave)
    BY <1>1, <1>2 DEF Split
  <2> QED
    BY <1>3, <2>1
<1>5. \A id \in wave : ~HasSource(id, remaining)
  <2> SUFFICES ASSUME NEW id \in wave PROVE ~HasSource(id, remaining)
    OBVIOUS
  <2>1. inDegree[id] = 0 /\ id \in Ids(input)
    BY <1>2, <1>3 DEF Wave, Ready
  <2> QED
    BY <1>1, <2>1, EdgesCounted DEF Counted
<1>6. \A id \in remaining \ wave : HasSource(id, remaining)
  <2> SUFFICES ASSUME NEW id \in remaining \ wave PROVE HasSource(id, remaining)
    OBVIOUS
  <2>1. inDegree[id] # 0 /\ id \in Ids(input)
    BY <1>1, <1>2 DEF Wave, Ready, Split
  <2> QED
    BY <1>1, <2>1, EdgesCounted DEF Counted
<1> HIDE DEF n
<1>7. \A w \in 1..(n + 1) : w \in 1..n \/ w = n + 1
  BY <1>4
<1>8. Counted'
  <2>1. ASSUME NEW id \in Ids(input)
        PROVE  /\ inDegree[id] - EdgesInto(id, wave) = EdgesInto(id, remaining \ wave)
               /\ EdgesInto(id, remaining \ wave) \in Nat
    <3>1. inDegree[id] = EdgesInto(id, remaining)
      BY <1>1 DEF Counted
    <3> QED
      BY <1>1, <1>3, <3>1, EdgesCounted
  <2>2. inDegree' = [id \in Ids(input) |-> EdgesInto(id, remaining \ wave)]
    BY <1>1, <1>2, <2>1
  <2> QED
    BY <1>1, <1>2, <2>1, <2>2 DEF Counted, Ids, EdgesInto, EdgesFrom
<1>9. Split'
  <2>1. ASSUME NEW id \in Ids(input)
        PROVE  id \in remaining \ wave \/ \E w \in 1..(n + 1) : id \in waves'[w]
    <3>1. CASE id \in wave
      <4>1. n + 1 \in 1..(n + 1)
        BY <1>4
      <4> QED
        BY <1>4, <3>1, <4>1
    <3>2. CASE id \notin wave /\ id \notin remaining
      <4>1. PICK w \in 1..n : id \in waves[w]
        BY <1>1, <1>4, <3>2 DEF Split
      <4>2. w \in 1..(n + 1)
        BY <1>4
      <4> QED
        BY <1>4, <4>1, <4>2
    <3> QED
      BY <3>1, <3>2
  <2>2. ASSUME NEW w \in 1..(n + 1)
        PROVE  waves'[w] \cap (remaining \ wave) = {}
    BY <1>1, <1>4, <1>7 DEF Split
  <2>3. ASSUME NEW v \in 1..(n + 1), NEW w \in 1..(n + 1), v # w
        PROVE  waves'[v] \cap waves'[w] = {}
    <3>1. \A x \in 1..n : waves[x] \cap wave = {}
      BY <1>1, <1>3, <1>4 DEF Split
    <3>2. CASE v \in 1..n /\ w \in 1..n
      BY <1>1, <1>4, <2>3, <3>2 DEF Split
    <3>3. CASE v = n + 1 \/ w = n + 1
      BY <1>4, <1>7, <2>3, <3>1, <3>3
    <3> QED
      BY <1>7, <3>2, <3>3
  <2>4. remaining \ wave \subseteq Ids(input)
    BY <1>1 DEF Split
  <2> QED
    BY <1>1, <1>2, <1>4, <2>1, <2>2, <2>3, <2>4 DEF Split, Ids
<1>10. SourcesFirst'
  <2> SUFFICES ASSUME NEW e \in Forward(input), NEW w \in 1..(n + 1), e.to \in waves'[w]
               PROVE  \E v \in 1..(n + 1) : v < w /\ e.from \in waves'[v]
    BY <1>1, <1>4 DEF SourcesFirst, Forward, Range
  <2>1. PICK v \in 1..n : v < w /\ e.from \in waves[v]
    <3>1. CASE w \in 1..n
      BY <1>1, <1>4, <3>1 DEF SourcesFirst
    <3>2. CASE w = n + 1
      <4>1. e.from \notin remaining
        BY <1>4, <1>5, <3>2 DEF HasSource
      <4>2. e.from \in Ids(input)
        BY <1>1, EdgesTyped DEF Valid
      <4>3. PICK v \in 1..n : e.from \in waves[v]
        BY <1>1, <1>4, <4>1, <4>2 DEF Split
      <4> QED
        BY <1>4, <3>2, <4>3
    <3> QED
      BY <1>7, <3>1, <3>2
  <2>2. v \in 1..(n + 1)
    BY <1>4
  <2> QED
    BY <1>4, <2>1, <2>2
<1>11. NoLater'
  <2>1. ASSUME NEW w \in 1..(n + 1), w # 1, NEW id \in waves'[w]
        PROVE  HasSource(id, waves'[w-1])
    <3>1. CASE w \in 1..n
      <4>1. w - 1 \in 1..n
        BY <1>4, <2>1, <3>1
      <4> QED
        BY <1>1, <1>4, <2>1, <3>1, <4>1 DEF NoLater
    <3>2. CASE w = n + 1
      <4>1. n # 0 /\ w - 1 = n /\ n \in 1..n
        BY <1>4, <2>1, <3>2
      <4>2. HasSource(id, waves[n] \cup remaining) /\ ~HasSource(id, remaining)
        BY <1>1, <1>3, <1>4, <1>5, <2>1, <3>2, <4>1 DEF NoLater, n
      <4> QED
        BY <1>4, <4>1, <4>2 DEF HasSource
    <3> QED
      BY <1>7, <3>1, <3>2
  <2>2. ASSUME NEW id \in remaining \ wave
        PROVE  HasSource(id, wave \cup (remaining \ wave))
    <3>1. wave \cup (remaining \ wave) = remaining
      BY <1>3
    <3> QED
      BY <1>6, <3>1
  <2> QED
    BY <1>1, <1>2, <1>4, <2>1, <2>2 DEF NoLater, HasSource, Forward, Range
<1>12. Valid(input)'
  BY <1>1
<1> QED
  BY <1>1, <1>8, <1>9, <1>10, <1>11, <1>12 DEF SortInv

LEMMA SortKept ==
  ASSUME UNCHANGED <<input, inDegree, remaining, waves>>
  PROVE  /\ Valid(input)' = Valid(input) /\ Counted' = Counted /\ Split' = Split
         /\ SourcesFirst' = SourcesFirst /\ NoLater' = NoLater
         /\ \A S : Deadlocked(S)' = Deadlocked(S)
<1>1. Valid(input)' = Valid(input)
  OBVIOUS
<1>2. \A id, S : /\ HasSource(id, S)' = HasSource(id, S) /\ EdgesInto(id, S)' = EdgesInto(id, S)
  BY DEF HasSource, EdgesInto, EdgesFrom
<1>3. Counted' = Counted
  BY <1>2 DEF Counted, EdgesInto, EdgesFrom
<1>4. Split' = Split
  BY DEF Split
<1>5. SourcesFirst' = SourcesFirst
  BY DEF SourcesFirst
<1>6. NoLater' = NoLater
  BY <1>2 DEF NoLater, HasSource
<1>7. \A S : Deadlocked(S)' = Deadlocked(S)
  BY <1>2 DEF Deadlocked, HasSource
<1> QED
  BY <1>1, <1>3, <1>4, <1>5, <1>6, <1>7

LEMMA SortEnds ==
  ASSUME SortInv, ValidationFails \/ DetectCycle \/ Built \/ UNCHANGED vars
  PROVE  SortInv'
<1>1. CASE UNCHANGED vars
  BY <1>1, SortKept DEF vars, SortInv
<1>2. CASE ValidationFails
  <2>1. FirstError(input) # "cycle"
    BY DEF FirstError
  <2> QED
    BY <1>2, <2>1 DEF ValidationFails, Reject, SortInv
<1>3. CASE DetectCycle
  <2>1. Counted /\ Split /\ remaining # {} /\ input \in Inputs /\ input' = input /\ pc' = "rejected"
    BY <1>3 DEF DetectCycle, Reject, SortInv
  <2>2. ASSUME NEW id \in remaining
        PROVE  HasSource(id, remaining)
    <3>1. inDegree[id] # 0 /\ id \in Ids(input)
      BY <1>3, <2>1 DEF DetectCycle, Wave, Ready, Split
    <3> QED
      BY <2>1, <3>1, EdgesCounted DEF Counted
  <2>3. remaining \in SUBSET Ids(input) /\ Deadlocked(remaining)
    BY <2>1, <2>2 DEF Deadlocked, Split
  <2>4. \E S \in SUBSET Ids(input') : Deadlocked(S)'
    BY <2>1, <2>3 DEF Deadlocked, HasSource
  <2> QED
    BY <2>1, <2>4 DEF SortInv
<1>4. CASE Built
  BY <1>4, SortKept DEF Built, SortInv
<1> QED
  BY <1>1, <1>2, <1>3, <1>4

LEMMA SortInvOK == Spec => []SortInv
<1>1. SortInv /\ [Next]_vars => SortInv'
  BY SortValidate, SortTakeWave, SortEnds DEF Next
<1> QED
  BY <1>1, SortInit, PTL DEF Spec

-----------------------------------------------------------------------------
(* What a built graph guarantees.                                          *)

(* In a built graph every id has its place, and an edge goes to a later    *)
(* wave.                                                                   *)
LEMMA EdgesGoLater ==
  ASSUME SortInv, pc = "built"
  PROVE  /\ \A e \in Forward(input) : Earlier(e.from, e.to) /\ e.from \in Ids(input) /\ e.to \in Ids(input)
         /\ \A x, y, z : Earlier(x, y) /\ Earlier(y, z) => Earlier(x, z)
<1>1. Valid(input) /\ Split /\ SourcesFirst /\ remaining = {} /\ waves \in Seq(SUBSET Ids(input))
  BY DEF SortInv, Split
<1>2. Len(waves) \in Nat /\ DOMAIN waves = 1..Len(waves)
  BY <1>1
<1>3. ASSUME NEW e \in Forward(input)
      PROVE  Earlier(e.from, e.to) /\ e.from \in Ids(input) /\ e.to \in Ids(input)
  <2>1. e.from \in Ids(input) /\ e.to \in Ids(input)
    BY <1>1, EdgesTyped DEF Valid
  <2>2. PICK w \in DOMAIN waves : e.to \in waves[w]
    BY <1>1, <2>1 DEF Split
  <2>3. PICK v \in DOMAIN waves : v < w /\ e.from \in waves[v]
    BY <1>1, <2>2 DEF SourcesFirst
  <2> QED
    BY <2>1, <2>2, <2>3 DEF Earlier
<1>4. ASSUME NEW x, NEW y, NEW z, Earlier(x, y), Earlier(y, z)
      PROVE  Earlier(x, z)
  <2>1. PICK u \in DOMAIN waves, v \in DOMAIN waves : u < v /\ x \in waves[u] /\ y \in waves[v]
    BY <1>4 DEF Earlier
  <2>2. PICK t \in DOMAIN waves, w \in DOMAIN waves : t < w /\ y \in waves[t] /\ z \in waves[w]
    BY <1>4 DEF Earlier
  <2>3. t = v
    BY <1>1, <2>1, <2>2 DEF Split
  <2>4. u < w
    BY <1>2, <2>1, <2>2, <2>3
  <2> QED
    BY <2>1, <2>2, <2>4 DEF Earlier
<1> QED
  BY <1>3, <1>4

(* In every graph that is built each node is in exactly one wave, forward  *)
(* edges go to later waves, and a node waits no longer than it must.       *)
THEOREM WavesLevelled == Spec => []WavesAreLevels
<1>1. SortInv => WavesAreLevels
  <2> SUFFICES ASSUME SortInv, pc = "built"
               PROVE  /\ UNION Range(waves) = Ids(input)
                      /\ \A v, w \in DOMAIN waves : v # w => waves[v] \cap waves[w] = {}
                      /\ \A e \in Forward(input) : Earlier(e.from, e.to)
                      /\ \A w \in DOMAIN waves \ {1} : \A id \in waves[w] : HasSource(id, waves[w-1])
    BY DEF WavesAreLevels
  <2>1. Split /\ NoLater /\ remaining = {}
    BY DEF SortInv
  <2>2. UNION Range(waves) = Ids(input)
    <3>1. \A w \in DOMAIN waves : waves[w] \subseteq Ids(input)
      BY <2>1 DEF Split
    <3>2. \A id \in Ids(input) : \E w \in DOMAIN waves : id \in waves[w]
      BY <2>1 DEF Split
    <3> QED
      BY <3>1, <3>2 DEF Range
  <2> QED
    BY <2>1, <2>2, EdgesGoLater DEF Split, NoLater
<1> QED
  BY <1>1, SortInvOK, PTL

(* toposort finds a cycle exactly when there is one: no set of nodes that  *)
(* wait for each other is built, and what is rejected has such a set.      *)
THEOREM CyclesFound == Spec => []CyclesRejected
<1>1. SortInv => CyclesRejected
  <2> SUFFICES ASSUME SortInv, pc = "built", NEW S \in SUBSET Ids(input), Deadlocked(S)
               PROVE  FALSE
    BY DEF CyclesRejected, SortInv
  <2>1. Split /\ SourcesFirst /\ remaining = {} /\ waves \in Seq(SUBSET Ids(input))
    BY DEF SortInv, Split
  <2> DEFINE T == {w \in DOMAIN waves : waves[w] \cap S # {}}
  <2>2. T \in SUBSET Nat /\ T # {}
    <3>1. DOMAIN waves = 1..Len(waves) /\ Len(waves) \in Nat
      BY <2>1
    <3>2. PICK id : id \in S
      BY DEF Deadlocked
    <3>3. PICK w \in DOMAIN waves : id \in waves[w]
      BY <2>1, <3>2 DEF Split
    <3> QED
      BY <3>1, <3>2, <3>3
  <2>3. PICK w \in T : \A v \in T : w <= v
    BY <2>2, LeastExists
  <2>4. PICK id : id \in waves[w] /\ id \in S
    BY <2>3
  <2>5. PICK e \in Forward(input) : e.to = id /\ e.from \in S
    BY <2>4 DEF Deadlocked, HasSource
  <2>6. PICK v \in DOMAIN waves : v < w /\ e.from \in waves[v]
    BY <2>1, <2>3, <2>4, <2>5 DEF SourcesFirst
  <2>7. v \in T /\ v \in Nat /\ w \in Nat
    BY <2>2, <2>3, <2>5, <2>6
  <2> QED
    BY <2>3, <2>6, <2>7
<1> QED
  BY <1>1, SortInvOK, PTL

(* A graph that is built is in one piece: the search that looks for        *)
(* orphans reaches everything it can, and reached every node.              *)
THEOREM OnePiece == Spec => []BuiltIsConnected
<1>1. SortInv => BuiltIsConnected
  <2> SUFFICES ASSUME SortInv, pc = "built", NEW S \in SUBSET Ids(input), input.entry \in S,
                      \A e \in Forward(input) : (e.from \in S) = (e.to \in S)
               PROVE  S = Ids(input)
    BY DEF BuiltIsConnected
  <2> DEFINE F == Pairs(Forward(input))
             R == F \cup Converse(F)
  <2>1. input \in Inputs /\ Orphans(input) = {}
    BY DEF SortInv, Valid
  <2>2. Ids(input) \subseteq CollectReachable(input.entry, R)
    BY <2>1 DEF Orphans
  <2>3. IsFiniteSet(R)
    BY <2>1, PairsFinite, FS_Union
  <2>4. Closed(S, R)
    <3> SUFFICES ASSUME NEW p \in R, p[1] \in S PROVE p[2] \in S
      BY DEF Closed
    <3>1. PICK e \in Forward(input) :
            \/ p[1] = e.from /\ p[2] = e.to
            \/ p[1] = e.to /\ p[2] = e.from
      BY DEF Pairs, Converse
    <3> QED
      BY <3>1
  <2> HIDE DEF R
  <2>5. CollectReachable(input.entry, R) \subseteq S
    BY <2>3, <2>4, ReachesNoMore
  <2> QED
    BY <2>2, <2>5
<1> QED
  BY <1>1, SortInvOK, PTL

(* An iteration of a back edge runs from the edge's target to its source,  *)
(* each node after one of its sources and before none: whatever the order  *)
(* within a wave.                                                          *)
THEOREM CyclesRun == Spec => []CyclesRunFromTargetToSource
<1>1. SortInv => CyclesRunFromTargetToSource
  <2> SUFFICES ASSUME SortInv, pc = "built", NEW b \in BackEdges(input), CycleNodes(b) # {}
               PROVE  /\ {b.from, b.to} \subseteq CycleNodes(b)
                      /\ \A id \in CycleNodes(b) : id = b.to \/ Earlier(b.to, id)
                      /\ \A id \in CycleNodes(b) : id = b.from \/ Earlier(id, b.from)
                      /\ \A id \in CycleNodes(b) \ {b.to} :
                           HasSource(id, {other \in CycleNodes(b) : Earlier(other, id)})
                      /\ \A id \in CycleNodes(b) :
                           ~HasSource(id, CycleNodes(b) \ {other \in CycleNodes(b) : Earlier(other, id)})
    BY DEF CyclesRunFromTargetToSource
  <2> DEFINE F == Pairs(Forward(input))
             C == Converse(F)
             V == CollectReachable(b.to, F)
             U == CollectReachable(b.from, C)
  <2>1. CycleNodes(b) = Ids(input) \cap V \cap U
    BY DEF CycleNodes
  <2>2. input \in Inputs /\ b.from \in Ids(input) /\ b.to \in Ids(input)
    BY EdgesTyped DEF SortInv, Valid
  <2>3. /\ IsFiniteSet(F) /\ IsFiniteSet(C)
        /\ \A x, y : <<x, y>> \in F <=> <<y, x>> \in C
        /\ \A p \in F : p = <<p[1], p[2]>>
        /\ \A p \in C : p = <<p[1], p[2]>>
    BY <2>2, PairsFinite
  <2>4. /\ \A p \in F : Earlier(p[1], p[2]) /\ p[1] \in Ids(input) /\ p[2] \in Ids(input)
        /\ \A x, y, z : Earlier(x, y) /\ Earlier(y, z) => Earlier(x, z)
        /\ \A id, S : HasSource(id, S) <=> \E p \in F : p[2] = id /\ p[1] \in S
    <3>1. ASSUME NEW p \in F
          PROVE  Earlier(p[1], p[2]) /\ p[1] \in Ids(input) /\ p[2] \in Ids(input)
      <4>1. PICK e \in Forward(input) : p = <<e.from, e.to>>
        BY DEF Pairs
      <4> QED
        BY <4>1, EdgesGoLater
    <3>2. ASSUME NEW id, NEW S
          PROVE  HasSource(id, S) <=> \E p \in F : p[2] = id /\ p[1] \in S
      <4>1. ASSUME HasSource(id, S)
            PROVE  \E p \in F : p[2] = id /\ p[1] \in S
        <5>1. PICK e \in Forward(input) : e.to = id /\ e.from \in S
          BY <4>1 DEF HasSource
        <5>2. <<e.from, e.to>> \in F
          BY DEF Pairs
        <5> QED
          BY <5>1, <5>2
      <4>2. ASSUME NEW p \in F, p[2] = id, p[1] \in S
            PROVE  HasSource(id, S)
        <5>1. PICK e \in Forward(input) : p = <<e.from, e.to>>
          BY DEF Pairs
        <5> QED
          BY <4>2, <5>1 DEF HasSource
      <4> QED
        BY <4>1, <4>2
    <3> QED
      BY <3>1, <3>2, EdgesGoLater
  <2> HIDE DEF F, C
  <2>5. ASSUME NEW p \in C
        PROVE  Earlier(p[2], p[1]) /\ p[1] \in Ids(input) /\ p[2] \in Ids(input)
    <3>1. <<p[2], p[1]>> \in F
      BY <2>3
    <3> DEFINE q == <<p[2], p[1]>>
    <3>2. q[1] = p[2] /\ q[2] = p[1] /\ q \in F
      BY <3>1
    <3> QED
      BY <2>4, <3>2
  <2>6. b.to \in V /\ b.from \in U /\ Closed(V, F) /\ Closed(U, C)
    BY <2>3, ReachesAll
  <2>7. b.to \in U
    BY <2>1, <2>3, EndsMeet
  <2>8. b.from \in V
    <3>1. CollectReachable(b.from, C) \cap CollectReachable(b.to, F) # {}
      BY <2>1
    <3> QED
      BY <2>3, <3>1, EndsMeet
  <2>9. \A id \in V : id = b.to \/ Earlier(b.to, id)
    <3> DEFINE S == {id \in Ids(input) : id = b.to \/ Earlier(b.to, id)}
    <3>1. b.to \in S /\ Closed(S, F)
      BY <2>2, <2>4 DEF Closed
    <3>2. V \subseteq S
      <4> HIDE DEF S
      <4> QED
        BY <2>3, <3>1, ReachesNoMore
    <3> QED
      BY <3>2
  <2>10. \A id \in U : id = b.from \/ Earlier(id, b.from)
    <3> DEFINE S == {id \in Ids(input) : id = b.from \/ Earlier(id, b.from)}
    <3>1. b.from \in S /\ Closed(S, C)
      BY <2>2, <2>4, <2>5 DEF Closed
    <3>2. U \subseteq S
      <4> HIDE DEF S
      <4> QED
        BY <2>3, <3>1, ReachesNoMore
    <3> QED
      BY <3>2
  <2>11. ASSUME NEW id \in CycleNodes(b), id # b.to
         PROVE  HasSource(id, {other \in CycleNodes(b) : Earlier(other, id)})
    <3>1. PICK p \in F : p[2] = id /\ p[1] \in V
      BY <2>1, <2>3, <2>11, ReachedFrom
    <3>2. p[1] \in U
      <4>1. <<p[2], p[1]>> \in C
        BY <2>3
      <4> QED
        BY <2>1, <2>6, <3>1, <4>1 DEF Closed
    <3> QED
      BY <2>1, <2>4, <3>1, <3>2
  <2>12. ASSUME NEW id \in CycleNodes(b)
         PROVE  ~HasSource(id, CycleNodes(b) \ {other \in CycleNodes(b) : Earlier(other, id)})
    BY <2>4
  <2> QED
    BY <2>1, <2>2, <2>6, <2>7, <2>8, <2>9, <2>10, <2>11, <2>12
<1> QED
  BY <1>1, SortInvOK, PTL

=============================================================================
