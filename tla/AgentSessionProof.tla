-------------------------- MODULE AgentSessionProof -------------------------
(***************************************************************************)
(* What holds of an agent's runs in one session, for any number of runs,   *)
(* iterations and calls, any windows and strategies: the messages that are *)
(* stored are those that were said and as they were said, and a call is    *)
(* never separated from its results without one of four reasons.           *)
(***************************************************************************)
EXTENDS AgentSession, SequenceTheorems, WellFoundedInduction, TLAPS

IdsOf(m) == ToSet(m.uses) \cup ToSet(m.results)

(* A message makes calls or holds results.                                 *)
Proper(m) ==
  /\ m \in Message
  /\ m.uses = <<>> \/ m.results = <<>>
  /\ m.uses # <<>> => m.role = "assistant"
  /\ m.results # <<>> => m.role \in {"user", "tool"}
  /\ m.pruned \subseteq ToSet(m.results)

ProperList(ms) == ms \in Seq(Message) /\ \A i \in DOMAIN ms : Proper(ms[i])

TurnIds == ToSet(Ids(call))

ShapeInv ==
  /\ strategy \in Strategy
  /\ pc \in {"idle", "iterate", "llm", "tools", "handoff", "ended", "persist"}
  /\ iteration \in 0..MaxIterations /\ lastId \in Nat /\ start \in Nat
  /\ shared \in BOOLEAN /\ compacted \in BOOLEAN
  /\ \A ms \in {store, unsaved, messages, kept, said} : ProperList(ms)
  /\ call \in Seq([id : Id, kind : Kind])
  /\ shared => messages = kept
  /\ call # <<>> <=> pc \in {"tools", "handoff"}
  /\ settled \subseteq TurnIds
  /\ handed.count \in 0..Len(OfKind("handoff"))
  /\ unsaved # <<>> => pc = "persist"
  /\ pc = "idle" => messages = <<>> /\ kept = <<>> /\ said = <<>> /\ start = 0 /\ shared

(* What was said, and with it what is stored.                              *)
Said(m) == m.pruned = {} /\ m.text \notin {"memory", "input"}

SaidInv ==
  /\ \A i \in DOMAIN said : Said(said[i])
  /\ \A i \in DOMAIN store : store[i].pruned = {}
  /\ \A i \in DOMAIN unsaved : unsaved[i].pruned = {}

(* The persisted array: b messages the run began with, then what was said  *)
(* before the loop went on with another array.                             *)
KeptFrom(b) ==
  /\ b <= start + 1
  /\ Len(kept) - b <= Len(said)
  /\ \A i \in 1..(Len(kept) - b) : kept[b + i] = said[i]
  /\ b = start + 1 => kept[b] = Input
  /\ ~compacted => b >= start
  /\ shared => Len(kept) - b = Len(said)
  /\ ~shared => Orphans(SubSeq(said, 1, Len(kept) - b)) \subseteq excused

KeptInv == \E b \in 0..Len(kept) : KeptFrom(b)

(* A run adds nothing to the store before it is over.                      *)
SavedInv ==
  /\ pc \notin {"idle", "persist"} => began = store
  /\ pc = "persist" /\ shared /\ ~compacted => AllIsStored

(* The ids of one turn, which its messages have in common.                 *)
Groups(ms) == {IdsOf(ms[i]) : i \in DOMAIN ms}

Alike(groups) == \A G, H \in groups : G \cap H # {} => G = H

AllGroups ==
  Groups(store) \cup Groups(unsaved) \cup Groups(messages) \cup Groups(kept) \cup Groups(said)
    \cup {TurnIds}

GroupInv == Alike(AllGroups) /\ UNION AllGroups \subseteq 1..lastId

OnceEach(ms) ==
  \A i, j \in DOMAIN ms : i # j =>
    ToSet(ms[i].uses) \cap ToSet(ms[j].uses) = {} /\ ToSet(ms[i].results) \cap ToSet(ms[j].results) = {}

OnceInv ==
  /\ OnceEach(store \o unsaved) /\ OnceEach(messages) /\ OnceEach(said)
  /\ pc # "persist" => (UNION Groups(store)) \cap (UNION Groups(said)) = {}

TurnInv ==
  /\ pc # "idle" => messages # <<>> /\ IdsOf(messages[1]) = {}
  /\ pc \in {"tools", "handoff"} =>
       \A ms \in {messages, said} :
         /\ ms # <<>> /\ ms[Len(ms)] = CallMessage(Ids(call))
         /\ TurnIds \cap ResultIds(ms) = {}

PairInv ==
  /\ Orphans(messages) \subseteq excused \cup TurnIds
  /\ Orphans(said) \subseteq excused \cup TurnIds
  /\ pc # "persist" => Orphans(FromStored(store)) \subseteq excused
  /\ pc = "persist" /\ ~compacted => Orphans(FromStored(store \o unsaved)) \subseteq excused

(* Every set of numbers has a least one, which is what an induction needs. *)
LEMMA LeastExists ==
  ASSUME NEW T \in SUBSET Nat, T # {}
  PROVE  \E n \in T : \A m \in T : n <= m
<1> DEFINE R == OpToRel(<, Nat)
<1>1. \E x \in T : \A y \in T : ~ (<<y, x>> \in R)
  <2> HIDE DEF R
  <2>1. IsWellFoundedOn(R, Nat)
    BY NatLessThanWellFounded, Zenon DEF R
  <2> QED
    BY <2>1, WFMin, Zenon
<1>2. \A x, y \in Nat : <<y, x>> \in R <=> y < x
  BY DEF OpToRel
<1> HIDE DEF R
<1>3. PICK n \in T : \A y \in T : ~ (<<y, n>> \in R)
  BY <1>1
<1>4. ASSUME NEW m \in T
      PROVE  n <= m
  <2>1. n \in Nat /\ m \in Nat /\ ~ (<<m, n>> \in R)
    BY <1>3
  <2>2. ~ (m < n)
    BY <1>2, <2>1
  <2> QED
    BY <2>1, <2>2
<1> QED
  BY <1>4

-----------------------------------------------------------------------------
(* Filter: the empty list, one element more.                               *)

Kept(list, e, S) == IF e \in S THEN Append(list, e) ELSE list

\* f[k] is the filtered list of the first k elements.
IsScan(f, s, S, n) == f = [k \in 0..n |-> IF k = 0 THEN <<>> ELSE Kept(f[k-1], s[k], S)]

LEMMA ScanExists ==
  ASSUME NEW s, NEW S, NEW n \in Nat
  PROVE  \E f : IsScan(f, s, S, n)
<1> SUFFICES ASSUME ~ \E f : IsScan(f, s, S, n) PROVE FALSE
  OBVIOUS
<1> DEFINE T == {m \in Nat : ~ \E f : IsScan(f, s, S, m)}
<1>1. PICK m \in T : \A k \in T : m <= k
  BY LeastExists
<1>2. CASE m = 0
  <2> DEFINE f == [k \in 0..0 |-> <<>>]
  <2>1. IsScan(f, s, S, 0)
    BY DEF IsScan
  <2> QED
    BY <1>1, <1>2, <2>1
<1>3. CASE m # 0
  <2>1. m \in Nat /\ m - 1 \in Nat /\ m - 1 \notin T
    BY <1>1, <1>3
  <2>2. PICK f : IsScan(f, s, S, m - 1)
    BY <2>1
  <2>3. f = [k \in 0..(m - 1) |-> IF k = 0 THEN <<>> ELSE Kept(f[k-1], s[k], S)]
    BY <2>2 DEF IsScan
  <2> DEFINE g == [k \in 0..m |-> IF k = m THEN Kept(f[m-1], s[m], S) ELSE f[k]]
  <2>4. ASSUME NEW k \in 0..m
        PROVE  g[k] = IF k = 0 THEN <<>> ELSE Kept(g[k-1], s[k], S)
    <3>1. CASE k = m
      <4>1. g[m] = Kept(f[m-1], s[m], S) /\ m - 1 \in 0..m /\ m - 1 # m
        BY <2>1
      <4>2. g[m-1] = f[m-1]
        BY <4>1
      <4> QED
        BY <1>3, <3>1, <4>1, <4>2
    <3>2. CASE k # m
      <4>1. k \in 0..(m - 1) /\ g[k] = f[k]
        BY <2>1, <3>2
      <4>2. k # 0 => k - 1 \in 0..m /\ k - 1 # m /\ g[k-1] = f[k-1]
        BY <2>1, <3>2
      <4>3. f[k] = IF k = 0 THEN <<>> ELSE Kept(f[k-1], s[k], S)
        BY <2>3, <4>1
      <4> QED
        BY <4>1, <4>2, <4>3
    <3> QED
      BY <3>1, <3>2
  <2>5. g = [k \in 0..m |-> g[k]]
    OBVIOUS
  <2> HIDE DEF g
  <2>6. IsScan(g, s, S, m)
    BY <2>4, <2>5 DEF IsScan
  <2> QED
    BY <1>1, <2>6
<1> QED
  BY <1>2, <1>3

LEMMA ScanSteps ==
  ASSUME NEW f, NEW s, NEW S, NEW n \in Nat, IsScan(f, s, S, n)
  PROVE  f[0] = <<>> /\ \A k \in 1..n : f[k] = Kept(f[k-1], s[k], S)
<1>1. f = [k \in 0..n |-> IF k = 0 THEN <<>> ELSE Kept(f[k-1], s[k], S)]
  BY DEF IsScan
<1>2. ASSUME NEW k \in 1..n
      PROVE  f[k] = Kept(f[k-1], s[k], S)
  <2>1. k \in 0..n /\ k # 0
    OBVIOUS
  <2> QED
    BY <1>1, <2>1
<1>3. 0 \in 0..n
  OBVIOUS
<1> QED
  BY <1>1, <1>2, <1>3

LEMMA ScansAgree ==
  ASSUME NEW s, NEW t, NEW S, NEW n \in Nat, \A k \in 1..n : s[k] = t[k],
         NEW m \in Nat, n <= m,
         NEW f, IsScan(f, s, S, n), NEW g, IsScan(g, t, S, m)
  PROVE  f[n] = g[n]
<1> SUFFICES ASSUME f[n] # g[n] PROVE FALSE
  OBVIOUS
<1> DEFINE T == {k \in 0..n : f[k] # g[k]}
<1>1. T \in SUBSET Nat /\ n \in T
  OBVIOUS
<1>2. PICK k \in T : \A j \in T : k <= j
  BY <1>1, LeastExists
<1>3. f[0] = g[0]
  BY ScanSteps
<1>4. k \in 1..n /\ k \in 1..m /\ k - 1 \in 0..n /\ f[k] # g[k]
  BY <1>2, <1>3
<1>5. k - 1 \notin T
  BY <1>2, <1>4
<1>6. f[k-1] = g[k-1] /\ s[k] = t[k]
  BY <1>4, <1>5
<1>7. f[k] = Kept(f[k-1], s[k], S)
  BY <1>4, ScanSteps
<1>8. g[k] = Kept(g[k-1], t[k], S)
  BY <1>4, ScanSteps
<1> QED
  BY <1>4, <1>6, <1>7, <1>8

LEMMA FilterScans ==
  ASSUME NEW T, NEW s \in Seq(T), NEW S
  PROVE  \E f : IsScan(f, s, S, Len(s)) /\ Filter(s, S) = f[Len(s)]
<1> DEFINE n == Len(s)
           f == CHOOSE g : g = [k \in 0..n |-> IF k = 0 THEN <<>>
                                 ELSE IF s[k] \in S THEN Append(g[k-1], s[k]) ELSE g[k-1]]
<1>1. Filter(s, S) = f[n]
  BY DEF Filter
<1>2. n \in Nat
  OBVIOUS
<1>3. PICK h : IsScan(h, s, S, n)
  <2> HIDE DEF n
  <2> QED
    BY <1>2, ScanExists
<1>4. h = [k \in 0..n |-> IF k = 0 THEN <<>>
              ELSE IF s[k] \in S THEN Append(h[k-1], s[k]) ELSE h[k-1]]
  <2> HIDE DEF n
  <2> QED
    BY <1>3 DEF IsScan, Kept
<1>5. f = [k \in 0..n |-> IF k = 0 THEN <<>>
              ELSE IF s[k] \in S THEN Append(f[k-1], s[k]) ELSE f[k-1]]
  BY <1>4
<1> HIDE DEF n, f
<1>6. IsScan(f, s, S, n)
  BY <1>5 DEF IsScan, Kept
<1> QED
  BY <1>1, <1>6 DEF n

LEMMA FilterEmpty ==
  ASSUME NEW S
  PROVE  Filter(<<>>, S) = <<>>
<1>1. <<>> \in Seq({}) /\ Len(<<>>) = 0
  OBVIOUS
<1>2. PICK f : IsScan(f, <<>>, S, 0) /\ Filter(<<>>, S) = f[0]
  BY <1>1, FilterScans
<1> QED
  BY <1>2, ScanSteps

LEMMA FilterAppend ==
  ASSUME NEW T, NEW s \in Seq(T), NEW e \in T, NEW S
  PROVE  Filter(Append(s, e), S) = Kept(Filter(s, S), e, S)
<1> DEFINE t == Append(s, e)
           n == Len(s)
<1>1. /\ t \in Seq(T) /\ n \in Nat /\ Len(t) = n + 1 /\ t[n + 1] = e
      /\ \A k \in 1..n : s[k] = t[k]
  OBVIOUS
<1> HIDE DEF t
<1>2. PICK f : IsScan(f, s, S, n) /\ Filter(s, S) = f[n]
  BY FilterScans
<1>3. PICK g : IsScan(g, t, S, n + 1) /\ Filter(t, S) = g[n + 1]
  BY <1>1, FilterScans
<1> HIDE DEF n
<1>4. f[n] = g[n]
  <2>1. n \in Nat /\ n + 1 \in Nat /\ n <= n + 1
    BY <1>1
  <2> QED
    BY <1>1, <1>2, <1>3, <2>1, ScansAgree
<1>5. g[n + 1] = Kept(g[n], e, S)
  <2>1. n + 1 \in Nat /\ n + 1 \in 1..(n + 1) /\ (n + 1) - 1 = n
    BY <1>1
  <2>2. \A k \in 1..(n + 1) : g[k] = Kept(g[k-1], t[k], S)
    BY <1>3, <2>1, ScanSteps
  <2> QED
    BY <1>1, <2>1, <2>2
<1> QED
  BY <1>2, <1>3, <1>4, <1>5 DEF t

(* A list that is not empty is a shorter one and a last element.           *)
LEMMA FrontAndLast ==
  ASSUME NEW T, NEW s \in Seq(T), s # <<>>
  PROVE  \E r \in Seq(T), e \in T : s = Append(r, e) /\ Len(r) \in Nat /\ Len(s) = Len(r) + 1
<1>1. PICK r \in Seq(T), e \in T : s = Append(r, e)
  BY SequenceEmptyOrAppend
<1>2. Len(s) = Len(r) + 1 /\ Len(r) \in Nat
  BY <1>1, AppendProperties
<1> QED
  BY <1>1, <1>2

LEMMA ConcatAppends ==
  ASSUME NEW T, NEW s \in Seq(T), NEW t \in Seq(T), NEW e \in T
  PROVE  s \o Append(t, e) = Append(s \o t, e) /\ s \o t \in Seq(T)
<1> DEFINE u == <<e>>
<1>1. u \in Seq(T) /\ s \o t \in Seq(T)
  BY ConcatProperties
<1>2. Append(t, e) = t \o u /\ Append(s \o t, e) = (s \o t) \o u
  BY <1>1, AppendIsConcat
<1> HIDE DEF u
<1>3. (s \o t) \o u = s \o (t \o u)
  BY <1>1, ConcatAssociative
<1> QED
  BY <1>1, <1>2, <1>3

(* The filtered list is what h picks: increasing places, and every place   *)
(* that holds an element of S.                                             *)
Picks(h, t, s, S) ==
  /\ h \in [1..Len(t) -> 1..Len(s)]
  /\ \A n \in 1..Len(t) : t[n] = s[h[n]] /\ t[n] \in S
  /\ \A m, n \in 1..Len(t) : m < n => h[m] < h[n]
  /\ \A i \in 1..Len(s) : s[i] \in S => \E n \in 1..Len(t) : h[n] = i

LEMMA PicksMore ==
  ASSUME NEW T, NEW s \in Seq(T), NEW e \in T, NEW S, NEW t \in Seq(T), NEW h, Picks(h, t, s, S)
  PROVE  \E g : Picks(g, Kept(t, e, S), Append(s, e), S)
<1> DEFINE n == Len(s)
           m == Len(t)
           r == Append(s, e)
           u == Append(t, e)
<1>1. /\ n \in Nat /\ m \in Nat /\ Len(r) = n + 1 /\ r[n + 1] = e
      /\ \A i \in 1..n : r[i] = s[i]
      /\ Len(u) = m + 1 /\ u[m + 1] = e
      /\ \A i \in 1..m : u[i] = t[i]
  OBVIOUS
<1>2. /\ h \in [1..m -> 1..n]
      /\ \A k \in 1..m : t[k] = s[h[k]] /\ t[k] \in S
      /\ \A j, k \in 1..m : j < k => h[j] < h[k]
      /\ \A i \in 1..n : s[i] \in S => \E k \in 1..m : h[k] = i
  BY DEF Picks
<1> HIDE DEF n, m, r, u
<1>3. CASE e \notin S
  <2>1. h \in [1..m -> 1..(n + 1)]
    BY <1>1, <1>2
  <2>2. \A k \in 1..m : h[k] \in 1..n /\ t[k] = r[h[k]] /\ t[k] \in S
    BY <1>1, <1>2
  <2>3. ASSUME NEW i \in 1..(n + 1), r[i] \in S
        PROVE  \E k \in 1..m : h[k] = i
    <3>1. i \in 1..n
      BY <1>1, <1>3, <2>3
    <3> QED
      BY <1>1, <1>2, <2>3, <3>1
  <2>4. Picks(h, t, r, S)
    BY <1>1, <1>2, <2>1, <2>2, <2>3 DEF Picks, m
  <2> QED
    BY <1>3, <2>4 DEF Kept, r
<1>4. CASE e \in S
  <2> DEFINE g == [k \in 1..(m + 1) |-> IF k = m + 1 THEN n + 1 ELSE h[k]]
  <2>1. /\ g \in [1..(m + 1) -> 1..(n + 1)] /\ g[m + 1] = n + 1
        /\ \A k \in 1..m : g[k] = h[k] /\ h[k] \in 1..n
    BY <1>1, <1>2
  <2> HIDE DEF g
  <2>2. ASSUME NEW k \in 1..(m + 1)
        PROVE  u[k] = r[g[k]] /\ u[k] \in S
    <3>1. CASE k = m + 1
      BY <1>1, <1>4, <2>1, <3>1
    <3>2. CASE k # m + 1
      <4>1. k \in 1..m
        BY <1>1, <3>2
      <4>2. u[k] = t[k] /\ g[k] = h[k] /\ h[k] \in 1..n
        BY <1>1, <2>1, <4>1
      <4>3. r[h[k]] = s[h[k]]
        BY <1>1, <4>2
      <4> QED
        BY <1>2, <4>1, <4>2, <4>3
    <3> QED
      BY <3>1, <3>2
  <2>3. ASSUME NEW j \in 1..(m + 1), NEW k \in 1..(m + 1), j < k
        PROVE  g[j] < g[k]
    <3>1. j \in 1..m
      BY <1>1, <2>3
    <3>2. CASE k = m + 1
      <4>1. g[j] \in 1..n
        BY <2>1, <3>1
      <4> QED
        BY <1>1, <2>1, <3>2, <4>1
    <3>3. CASE k # m + 1
      <4>1. k \in 1..m
        BY <1>1, <3>3
      <4> QED
        BY <1>2, <2>1, <2>3, <3>1, <4>1
    <3> QED
      BY <3>2, <3>3
  <2>4. ASSUME NEW i \in 1..(n + 1), r[i] \in S
        PROVE  \E k \in 1..(m + 1) : g[k] = i
    <3>1. CASE i = n + 1
      <4>1. m + 1 \in 1..(m + 1)
        BY <1>1
      <4> QED
        BY <2>1, <3>1, <4>1
    <3>2. CASE i # n + 1
      <4>1. i \in 1..n
        BY <1>1, <3>2
      <4>2. PICK k \in 1..m : h[k] = i
        BY <1>1, <1>2, <2>4, <4>1
      <4>3. k \in 1..(m + 1)
        BY <1>1
      <4> QED
        BY <2>1, <4>2, <4>3
    <3> QED
      BY <3>1, <3>2
  <2>5. Picks(g, u, r, S)
    BY <1>1, <2>1, <2>2, <2>3, <2>4 DEF Picks
  <2> QED
    BY <1>4, <2>5 DEF Kept, r, u
<1> QED
  BY <1>3, <1>4

Filtered(T, s, S) ==
  /\ Filter(s, S) \in Seq(T) /\ Len(Filter(s, S)) <= Len(s)
  /\ \E h : Picks(h, Filter(s, S), s, S)

LEMMA FilterPicks ==
  ASSUME NEW T, NEW s \in Seq(T), NEW S
  PROVE  Filtered(T, s, S)
<1> SUFFICES ASSUME ~ Filtered(T, s, S) PROVE FALSE
  OBVIOUS
<1> DEFINE N == {n \in Nat : \E r \in Seq(T) : Len(r) = n /\ ~ Filtered(T, r, S)}
<1>1. Len(s) \in N
  OBVIOUS
<1>2. PICK n \in N : \A m \in N : n <= m
  <2> HIDE DEF N
  <2>1. N \in SUBSET Nat
    BY DEF N
  <2> QED
    BY <1>1, <2>1, LeastExists
<1>3. PICK r \in Seq(T) : Len(r) = n /\ ~ Filtered(T, r, S)
  BY <1>2
<1>4. CASE r = <<>>
  <2>1. Filter(r, S) = <<>>
    BY <1>4, FilterEmpty
  <2>2. <<>> \in Seq(T) /\ Len(<<>>) = 0
    OBVIOUS
  <2> DEFINE h == [k \in 1..0 |-> k]
  <2>3. Picks(h, <<>>, <<>>, S)
    BY <2>2 DEF Picks
  <2> QED
    BY <1>3, <1>4, <2>1, <2>2, <2>3 DEF Filtered
<1>5. CASE r # <<>>
  <2>1. PICK q \in Seq(T), e \in T : r = Append(q, e) /\ Len(q) \in Nat /\ Len(r) = Len(q) + 1
    BY <1>5, FrontAndLast
  <2>2. Len(q) \in Nat /\ Len(q) < n
    BY <1>3, <2>1
  <2>3. Filtered(T, q, S)
    BY <1>2, <2>2
  <2> DEFINE t == Filter(q, S)
  <2>4. PICK h : Picks(h, t, q, S)
    BY <2>3 DEF Filtered
  <2>5. t \in Seq(T) /\ Len(t) <= Len(q)
    BY <2>3 DEF Filtered
  <2>6. Filter(r, S) = Kept(t, e, S)
    BY <2>1, FilterAppend
  <2> HIDE DEF t
  <2>7. \E g : Picks(g, Kept(t, e, S), r, S)
    BY <2>1, <2>4, <2>5, PicksMore
  <2>8. Kept(t, e, S) \in Seq(T) /\ Len(Kept(t, e, S)) <= Len(t) + 1
    BY <2>5 DEF Kept
  <2>9. Len(Kept(t, e, S)) <= Len(r)
    <3>1. Len(Kept(t, e, S)) \in Nat /\ Len(t) \in Nat /\ Len(q) \in Nat
      BY <2>5, <2>8
    <3> QED
      BY <2>1, <2>5, <2>8, <3>1
  <2> QED
    BY <1>3, <2>6, <2>7, <2>8, <2>9 DEF Filtered
<1> QED
  BY <1>4, <1>5

(* Nothing is filtered out.                                                *)
LEMMA FilterAll ==
  ASSUME NEW T, NEW s \in Seq(T), NEW S, \A i \in 1..Len(s) : s[i] \in S
  PROVE  Filter(s, S) = s
<1> SUFFICES ASSUME Filter(s, S) # s PROVE FALSE
  OBVIOUS
<1> DEFINE Odd(r) == (\A i \in 1..Len(r) : r[i] \in S) /\ Filter(r, S) # r
           N == {n \in Nat : \E r \in Seq(T) : Len(r) = n /\ Odd(r)}
<1>1. Len(s) \in N
  OBVIOUS
<1>2. PICK n \in N : \A m \in N : n <= m
  <2> HIDE DEF N
  <2>1. N \in SUBSET Nat
    BY DEF N
  <2> QED
    BY <1>1, <2>1, LeastExists
<1>3. PICK r \in Seq(T) : Len(r) = n /\ Odd(r)
  BY <1>2
<1>4. r # <<>>
  BY <1>3, FilterEmpty
<1>5. PICK q \in Seq(T), e \in T : r = Append(q, e) /\ Len(q) \in Nat /\ Len(r) = Len(q) + 1
  BY <1>4, FrontAndLast
<1>6. Len(q) \in Nat /\ Len(q) < n /\ Len(q) \notin N
  BY <1>2, <1>3, <1>5
<1>7. e \in S /\ \A i \in 1..Len(q) : q[i] \in S
  <2>1. \A i \in 1..Len(q) : r[i] = q[i] /\ i \in 1..Len(r)
    BY <1>5, <1>6
  <2>2. r[Len(r)] = e /\ Len(r) \in 1..Len(r)
    BY <1>5, <1>6
  <2> QED
    BY <1>3, <2>1, <2>2
<1>8. Filter(q, S) = q
  BY <1>6, <1>7
<1>9. Filter(r, S) = Append(q, e)
  BY <1>5, <1>7, <1>8, FilterAppend DEF Kept
<1> QED
  BY <1>3, <1>5, <1>9

(* What is filtered piece by piece is filtered.                            *)
LEMMA FilterSplits ==
  ASSUME NEW T, NEW s \in Seq(T), NEW t \in Seq(T), NEW S
  PROVE  Filter(s \o t, S) = Filter(s, S) \o Filter(t, S)
<1> SUFFICES ASSUME Filter(s \o t, S) # Filter(s, S) \o Filter(t, S) PROVE FALSE
  OBVIOUS
<1> DEFINE Odd(r) == Filter(s \o r, S) # Filter(s, S) \o Filter(r, S)
           N == {n \in Nat : \E r \in Seq(T) : Len(r) = n /\ Odd(r)}
<1>1. Len(t) \in N
  OBVIOUS
<1>2. PICK n \in N : \A m \in N : n <= m
  <2> HIDE DEF N
  <2>1. N \in SUBSET Nat
    BY DEF N
  <2> QED
    BY <1>1, <2>1, LeastExists
<1>3. PICK r \in Seq(T) : Len(r) = n /\ Odd(r)
  BY <1>2
<1> DEFINE f == Filter(s, S)
<1>4. f \in Seq(T)
  BY FilterPicks DEF Filtered
<1>5. r # <<>>
  <2>1. s \o <<>> = s /\ f \o <<>> = f
    <3> HIDE DEF f
    <3> QED
      BY <1>4
  <2> QED
    BY <1>3, <2>1, FilterEmpty
<1>6. PICK q \in Seq(T), e \in T : r = Append(q, e) /\ Len(q) \in Nat /\ Len(r) = Len(q) + 1
  BY <1>5, FrontAndLast
<1>7. Len(q) \in Nat /\ Len(q) < n /\ Len(q) \notin N
  <2>1. Len(q) \in Nat /\ Len(q) < n /\ n \in Nat
    BY <1>3, <1>6
  <2> HIDE DEF N
  <2> QED
    BY <1>2, <2>1
<1> DEFINE g == Filter(q, S)
<1>8. g \in Seq(T)
  BY FilterPicks DEF Filtered
<1>9. Filter(s \o q, S) = f \o g
  BY <1>7
<1>10. s \o r = Append(s \o q, e) /\ s \o q \in Seq(T)
  <2>1. q \in Seq(T) /\ e \in T
    BY <1>6
  <2>2. s \o Append(q, e) = Append(s \o q, e) /\ s \o q \in Seq(T)
    BY <2>1, ConcatAppends, Zenon
  <2> QED
    BY <1>6, <2>2
<1>11. Filter(s \o r, S) = Kept(f \o g, e, S)
  BY <1>9, <1>10, FilterAppend
<1>12. Filter(r, S) = Kept(g, e, S)
  BY <1>6, FilterAppend
<1>13. Kept(f \o g, e, S) = f \o Kept(g, e, S)
  <2> HIDE DEF f, g
  <2>1. f \o Append(g, e) = Append(f \o g, e) /\ f \o g \in Seq(T)
    <3>1. f \in Seq(T) /\ g \in Seq(T) /\ e \in T
      BY <1>4, <1>6, <1>8
    <3> QED
      BY <3>1, ConcatAppends, Zenon
  <2> QED
    BY <2>1 DEF Kept
<1> QED
  BY <1>3, <1>11, <1>12, <1>13

-----------------------------------------------------------------------------
(* Lists that keep some of the messages of another, with the same calls    *)
(* and results.                                                            *)

Same(m, n) == m.uses = n.uses /\ m.results = n.results

Joined(ms, c) ==
  \E i \in DOMAIN ms : /\ i + 1 \in DOMAIN ms
                       /\ c \in ToSet(ms[i].uses) /\ c \in ToSet(ms[i + 1].results)

LEMMA OrphansAre ==
  ASSUME NEW ms, NEW c
  PROVE  c \in Orphans(ms) <=> (\E i \in DOMAIN ms : c \in IdsOf(ms[i])) /\ ~Joined(ms, c)
BY DEF Orphans, UseIds, ResultIds, IdsOf, Joined

Thins(h, t, s) ==
  /\ h \in [1..Len(t) -> 1..Len(s)]
  /\ \A n \in 1..Len(t) : Same(t[n], s[h[n]])
  /\ \A m, n \in 1..Len(t) : m < n => h[m] < h[n]

Hits(h, t, i) == \E n \in 1..Len(t) : h[n] = i

LEMMA ThinJoined ==
  ASSUME NEW s \in Seq(Message), NEW t \in Seq(Message), NEW h, Thins(h, t, s),
         NEW c, NEW i \in 1..Len(s), NEW j \in 1..Len(s), i < j,
         Hits(h, t, i), Hits(h, t, j), \A k \in 1..Len(s) : i < k /\ k < j => ~Hits(h, t, k),
         c \in ToSet(s[i].uses), c \in ToSet(s[j].results)
  PROVE  Joined(t, c)
<1>1. /\ Len(s) \in Nat /\ Len(t) \in Nat /\ DOMAIN t = 1..Len(t)
      /\ h \in [1..Len(t) -> 1..Len(s)]
      /\ \A n \in 1..Len(t) : Same(t[n], s[h[n]])
      /\ \A m, n \in 1..Len(t) : m < n => h[m] < h[n]
  BY DEF Thins
<1>2. PICK m \in 1..Len(t) : h[m] = i
  BY DEF Hits
<1>3. PICK n \in 1..Len(t) : h[n] = j
  BY DEF Hits
<1>4. m < n
  <2>1. n < m => h[n] < h[m]
    BY <1>1
  <2>2. n # m
    BY <1>2, <1>3
  <2> QED
    BY <1>1, <1>2, <1>3, <2>1, <2>2
<1>5. n = m + 1
  <2>1. SUFFICES ASSUME n # m + 1 PROVE FALSE
    OBVIOUS
  <2>2. m + 1 \in 1..Len(t) /\ m < m + 1 /\ m + 1 < n
    BY <1>1, <1>4, <2>1
  <2>3. h[m] < h[m + 1] /\ h[m + 1] < h[n] /\ h[m + 1] \in 1..Len(s)
    BY <1>1, <2>2
  <2>4. Hits(h, t, h[m + 1])
    BY <2>2 DEF Hits
  <2> QED
    BY <1>2, <1>3, <2>3, <2>4
<1>6. c \in ToSet(t[m].uses) /\ c \in ToSet(t[m + 1].results)
  BY <1>1, <1>2, <1>3, <1>5 DEF Same
<1> QED
  BY <1>1, <1>2, <1>3, <1>5, <1>6 DEF Joined

LEMMA ThinOnce ==
  ASSUME NEW s \in Seq(Message), NEW t \in Seq(Message), NEW h, Thins(h, t, s), OnceEach(s)
  PROVE  OnceEach(t)
<1>1. /\ Len(s) \in Nat /\ Len(t) \in Nat /\ DOMAIN t = 1..Len(t) /\ DOMAIN s = 1..Len(s)
      /\ h \in [1..Len(t) -> 1..Len(s)]
      /\ \A n \in 1..Len(t) : Same(t[n], s[h[n]])
      /\ \A m, n \in 1..Len(t) : m < n => h[m] < h[n]
  BY DEF Thins
<1> SUFFICES ASSUME NEW m \in 1..Len(t), NEW n \in 1..Len(t), m # n
             PROVE  /\ ToSet(t[m].uses) \cap ToSet(t[n].uses) = {}
                    /\ ToSet(t[m].results) \cap ToSet(t[n].results) = {}
  BY <1>1 DEF OnceEach
<1>2. h[m] # h[n] /\ h[m] \in 1..Len(s) /\ h[n] \in 1..Len(s)
  <2>1. m < n \/ n < m
    OBVIOUS
  <2>2. h[m] < h[n] \/ h[n] < h[m]
    BY <1>1, <2>1
  <2>3. h[m] \in 1..Len(s) /\ h[n] \in 1..Len(s)
    BY <1>1
  <2>4. h[m] \in Nat /\ h[n] \in Nat
    BY <1>1, <2>3
  <2> QED
    BY <2>2, <2>3, <2>4
<1>3. /\ ToSet(s[h[m]].uses) \cap ToSet(s[h[n]].uses) = {}
      /\ ToSet(s[h[m]].results) \cap ToSet(s[h[n]].results) = {}
  BY <1>1, <1>2 DEF OnceEach
<1> QED
  BY <1>1, <1>3 DEF Same

LEMMA ThinGroups ==
  ASSUME NEW s \in Seq(Message), NEW t \in Seq(Message), NEW h, Thins(h, t, s)
  PROVE  Groups(t) \subseteq Groups(s)
<1>1. /\ DOMAIN t = 1..Len(t) /\ DOMAIN s = 1..Len(s)
      /\ \A n \in 1..Len(t) : Same(t[n], s[h[n]]) /\ h[n] \in 1..Len(s)
  BY DEF Thins
<1> SUFFICES ASSUME NEW n \in 1..Len(t) PROVE IdsOf(t[n]) \in Groups(s)
  BY <1>1 DEF Groups
<1>2. IdsOf(t[n]) = IdsOf(s[h[n]])
  BY <1>1 DEF Same, IdsOf
<1> QED
  BY <1>1, <1>2 DEF Groups

LEMMA ThinOrphans ==
  ASSUME NEW s \in Seq(Message), NEW t \in Seq(Message), NEW h, Thins(h, t, s),
         \A i \in 1..Len(s) : IdsOf(s[i]) # {} => Hits(h, t, i)
  PROVE  Orphans(t) \subseteq Orphans(s)
<1>1. /\ Len(s) \in Nat /\ DOMAIN t = 1..Len(t) /\ DOMAIN s = 1..Len(s)
      /\ \A n \in 1..Len(t) : Same(t[n], s[h[n]]) /\ h[n] \in 1..Len(s)
  BY DEF Thins
<1> SUFFICES ASSUME NEW c \in Orphans(t), c \notin Orphans(s) PROVE FALSE
  OBVIOUS
<1>2. PICK n \in 1..Len(t) : c \in IdsOf(t[n])
  BY <1>1, OrphansAre
<1>3. c \in IdsOf(s[h[n]]) /\ h[n] \in DOMAIN s
  BY <1>1, <1>2 DEF Same, IdsOf
<1>4. Joined(s, c)
  BY <1>3, OrphansAre
<1>5. PICK i \in 1..Len(s) : /\ i + 1 \in 1..Len(s)
                             /\ c \in ToSet(s[i].uses) /\ c \in ToSet(s[i + 1].results)
  BY <1>1, <1>4 DEF Joined
<1>6. Hits(h, t, i) /\ Hits(h, t, i + 1)
  BY <1>5 DEF IdsOf
<1>7. i < i + 1 /\ \A k \in 1..Len(s) : ~ (i < k /\ k < i + 1)
  BY <1>1
<1>8. Joined(t, c)
  BY <1>5, <1>6, <1>7, ThinJoined
<1> QED
  BY <1>8, OrphansAre

(* A part of a list.                                                       *)
LEMMA EmptySet == ToSet(<<>>) = {}
BY DEF ToSet

LEMMA Tabulated ==
  ASSUME NEW S, NEW n \in Nat, NEW f \in [1..n -> S]
  PROVE  f \in Seq(S) /\ Len(f) = n
<1>1. f \in Seq(S)
  BY SeqDef
<1>2. DOMAIN f = 1..n /\ DOMAIN f = 1..Len(f) /\ Len(f) \in Nat
  BY <1>1
<1> QED
  BY <1>1, <1>2

LEMMA MessageFields ==
  ASSUME NEW m \in Message
  PROVE  /\ m.role \in {"system", "user", "assistant", "tool"} /\ m.text \in Text
         /\ m.uses \in Seq(Nat) /\ m.results \in Seq(Nat) /\ m.pruned \in SUBSET Nat
BY DEF Message

LEMMA LoadedSame ==
  ASSUME NEW m \in Message
  PROVE  /\ Loaded(m) \in Message /\ Same(Loaded(m), m)
         /\ Loaded(m).text = m.text /\ Loaded(m).pruned = m.pruned
         /\ Proper(m) => Proper(Loaded(m))
<1>1. Loaded(m) \in Message
  BY DEF Loaded, Message
<1>2. /\ Loaded(m).uses = m.uses /\ Loaded(m).results = m.results
      /\ Loaded(m).text = m.text /\ Loaded(m).pruned = m.pruned
      /\ m.role # "tool" => Loaded(m).role = m.role
      /\ m.role = "tool" => Loaded(m).role = "user"
  BY DEF Loaded, Message
<1>3. Proper(m) => Proper(Loaded(m))
  BY <1>1, <1>2 DEF Proper
<1> QED
  BY <1>1, <1>2, <1>3 DEF Same

LEMMA PayloadSame ==
  ASSUME NEW m \in Message, Proper(m)
  PROVE  /\ Payload(m) \in Message /\ Same(Payload(m), m)
         /\ Payload(m).pruned = m.pruned /\ Proper(Payload(m))
         /\ IdsOf(m) # {} => Payload(m) \in Durable
<1> DEFINE p == Payload(m)
<1>1. p \in Message
  BY DEF Payload, Message, Text
<1>2. /\ p.uses = m.uses /\ p.results = m.results /\ p.pruned = m.pruned
      /\ p.role = m.role \/ (m.role = "user" /\ m.results # <<>> /\ p.role = "tool")
      /\ m.role = "user" /\ m.results # <<>> => p.role = "tool"
  BY DEF Payload, Message
<1> HIDE DEF p
<1>3. Proper(p)
  BY <1>1, <1>2 DEF Proper
<1>4. ASSUME IdsOf(m) # {}
      PROVE  p \in Durable
  <2>1. m.uses # <<>> \/ m.results # <<>>
    BY <1>4, EmptySet DEF IdsOf
  <2>2. m.uses # <<>> => p.role = "assistant"
    BY <1>2 DEF Proper
  <2>3. m.results # <<>> => p.role = "tool"
    BY <1>2 DEF Proper
  <2> QED
    BY <1>1, <2>1, <2>2, <2>3 DEF Durable
<1> QED
  BY <1>1, <1>2, <1>3, <1>4 DEF Same, p

(* A list of messages whose calls and results are those of another.        *)
Copies(t, s) ==
  /\ t \in Seq(Message) /\ Len(t) = Len(s) /\ \A i \in 1..Len(s) : Same(t[i], s[i])

LEMMA LoadedList ==
  ASSUME NEW ms \in Seq(Message)
  PROVE  LET t == [i \in DOMAIN ms |-> Loaded(ms[i])]
         IN  Copies(t, ms) /\ \A i \in 1..Len(ms) : t[i] = Loaded(ms[i])
<1> DEFINE t == [i \in DOMAIN ms |-> Loaded(ms[i])]
<1>1. Len(ms) \in Nat /\ DOMAIN ms = 1..Len(ms) /\ \A i \in 1..Len(ms) : ms[i] \in Message
  OBVIOUS
<1>2. \A i \in 1..Len(ms) : t[i] = Loaded(ms[i]) /\ t[i] \in Message /\ Same(t[i], ms[i])
  BY <1>1, LoadedSame
<1>3. t \in [1..Len(ms) -> Message]
  BY <1>1, <1>2
<1> HIDE DEF t
<1>4. t \in Seq(Message) /\ Len(t) = Len(ms)
  BY <1>1, <1>3, Tabulated
<1>5. Copies(t, ms)
  BY <1>2, <1>4 DEF Copies
<1> QED
  BY <1>2, <1>5 DEF t

LEMMA PayloadList ==
  ASSUME NEW ms, ProperList(ms)
  PROVE  LET t == [i \in DOMAIN ms |-> Payload(ms[i])]
         IN  Copies(t, ms) /\ \A i \in 1..Len(ms) : t[i] = Payload(ms[i])
<1> DEFINE t == [i \in DOMAIN ms |-> Payload(ms[i])]
<1>1. /\ ms \in Seq(Message) /\ Len(ms) \in Nat /\ DOMAIN ms = 1..Len(ms)
      /\ \A i \in 1..Len(ms) : ms[i] \in Message /\ Proper(ms[i])
  BY DEF ProperList
<1>2. \A i \in 1..Len(ms) : t[i] = Payload(ms[i]) /\ t[i] \in Message /\ Same(t[i], ms[i])
  BY <1>1, PayloadSame
<1>3. t \in [1..Len(ms) -> Message]
  BY <1>1, <1>2
<1> HIDE DEF t
<1>4. t \in Seq(Message) /\ Len(t) = Len(ms)
  BY <1>1, <1>3, Tabulated
<1>5. Copies(t, ms)
  BY <1>2, <1>4 DEF Copies
<1> QED
  BY <1>2, <1>5 DEF t

LEMMA FilterThins ==
  ASSUME NEW ms \in Seq(Message), NEW t, Copies(t, ms), NEW S
  PROVE  /\ Filter(t, S) \in Seq(Message) /\ Len(Filter(t, S)) <= Len(ms)
         /\ \A n \in 1..Len(Filter(t, S)) : \E i \in 1..Len(ms) : Filter(t, S)[n] = t[i] /\ t[i] \in S
         /\ \E h : /\ Thins(h, Filter(t, S), ms)
                   /\ \A i \in 1..Len(ms) : t[i] \in S => Hits(h, Filter(t, S), i)
                   /\ \A i \in 1..Len(ms) : Hits(h, Filter(t, S), i) => t[i] \in S
<1>1. t \in Seq(Message) /\ Len(t) = Len(ms) /\ \A i \in 1..Len(ms) : Same(t[i], ms[i])
  BY DEF Copies
<1> DEFINE f == Filter(t, S)
<1>2. Filtered(Message, t, S)
  BY <1>1, FilterPicks
<1>3. f \in Seq(Message) /\ Len(f) <= Len(ms)
  BY <1>1, <1>2 DEF Filtered
<1>4. PICK h : Picks(h, f, t, S)
  BY <1>2 DEF Filtered
<1> HIDE DEF f
<1>5. /\ h \in [1..Len(f) -> 1..Len(ms)]
      /\ \A n \in 1..Len(f) : f[n] = t[h[n]] /\ f[n] \in S
      /\ \A m, n \in 1..Len(f) : m < n => h[m] < h[n]
      /\ \A i \in 1..Len(ms) : t[i] \in S => \E n \in 1..Len(f) : h[n] = i
  BY <1>1, <1>4 DEF Picks
<1>6. \A n \in 1..Len(f) : h[n] \in 1..Len(ms) /\ Same(f[n], ms[h[n]])
  BY <1>1, <1>5
<1>7. Thins(h, f, ms)
  BY <1>5, <1>6 DEF Thins
<1>8. \A i \in 1..Len(ms) : t[i] \in S => Hits(h, f, i)
  BY <1>5 DEF Hits
<1>9. \A i \in 1..Len(ms) : Hits(h, f, i) => t[i] \in S
  BY <1>5 DEF Hits
<1>10. \A n \in 1..Len(f) : \E i \in 1..Len(ms) : f[n] = t[i] /\ t[i] \in S
  BY <1>5, <1>6
<1> QED
  BY <1>3, <1>7, <1>8, <1>9, <1>10 DEF f

LEMMA FilterHas ==
  ASSUME NEW s \in Seq(Message), NEW S, NEW f, f = Filter(s, S)
  PROVE  /\ f \in Seq(Message) /\ Len(f) <= Len(s)
         /\ \E h : Thins(h, f, s)
<1>1. Copies(s, s)
  BY DEF Copies, Same
<1>2. f \in Seq(Message) /\ Len(f) <= Len(s)
  BY <1>1, FilterThins
<1>3. \E h : Thins(h, f, s)
  BY <1>1, FilterThins
<1> QED
  BY <1>2, <1>3

LEMMA FilterElement ==
  ASSUME NEW s \in Seq(Message), NEW S, NEW f, f = Filter(s, S), NEW n \in 1..Len(f)
  PROVE  \E i \in 1..Len(s) : f[n] = s[i] /\ s[i] \in S
<1>1. Copies(s, s)
  BY DEF Copies, Same
<1>2. \A k \in 1..Len(f) : \E i \in 1..Len(s) : f[k] = s[i] /\ s[i] \in S
  BY <1>1, FilterThins
<1> QED
  BY <1>2

-----------------------------------------------------------------------------
(* One list after another.                                                 *)

LEMMA ConcatAt ==
  ASSUME NEW T, NEW a \in Seq(T), NEW b \in Seq(T)
  PROVE  /\ a \o b \in Seq(T) /\ Len(a) \in Nat /\ Len(b) \in Nat
         /\ Len(a \o b) = Len(a) + Len(b)
         /\ \A i \in 1..Len(a) : i \in 1..Len(a \o b) /\ (a \o b)[i] = a[i]
         /\ \A i \in 1..Len(b) : Len(a) + i \in 1..Len(a \o b) /\ (a \o b)[Len(a) + i] = b[i]
         /\ \A i \in 1..Len(a \o b) : \/ i \in 1..Len(a) /\ (a \o b)[i] = a[i]
                                      \/ i - Len(a) \in 1..Len(b) /\ (a \o b)[i] = b[i - Len(a)]
<1>1. Len(a) \in Nat /\ Len(b) \in Nat
  OBVIOUS
<1>2. /\ a \o b \in Seq(T) /\ Len(a \o b) = Len(a) + Len(b)
      /\ \A i \in 1..Len(a) + Len(b) :
           (a \o b)[i] = IF i <= Len(a) THEN a[i] ELSE b[i - Len(a)]
  OBVIOUS
<1> DEFINE ab == a \o b
           m == Len(a)
           n == Len(b)
<1>3. /\ m \in Nat /\ n \in Nat /\ Len(ab) = m + n
      /\ \A i \in 1..(m + n) : ab[i] = IF i <= m THEN a[i] ELSE b[i - m]
  BY <1>1, <1>2
<1> HIDE DEF ab, m, n
<1>4. \A i \in 1..m : i \in 1..Len(ab) /\ ab[i] = a[i]
  BY <1>3
<1>5. \A i \in 1..n : m + i \in 1..Len(ab) /\ ab[m + i] = b[i]
  <2> TAKE i \in 1..n
  <2>1. m + i \in 1..(m + n) /\ ~ (m + i <= m) /\ (m + i) - m = i
    BY <1>3
  <2> QED
    BY <1>3, <2>1
<1>6. \A i \in 1..Len(ab) : (i \in 1..m /\ ab[i] = a[i]) \/ (i - m \in 1..n /\ ab[i] = b[i - m])
  BY <1>3
<1> QED
  BY <1>1, <1>2, <1>4, <1>5, <1>6 DEF ab, m, n

LEMMA ProperJoin ==
  ASSUME NEW a, NEW b, ProperList(a), ProperList(b)
  PROVE  ProperList(a \o b)
<1>1. a \in Seq(Message) /\ b \in Seq(Message)
  BY DEF ProperList
<1>2. /\ \A i \in 1..Len(a) : Proper(a[i])
      /\ \A i \in 1..Len(b) : Proper(b[i])
  BY <1>1 DEF ProperList
<1>3. \A i \in 1..Len(a \o b) : Proper((a \o b)[i])
  <2> TAKE i \in 1..Len(a \o b)
  <2>1. \/ i \in 1..Len(a) /\ (a \o b)[i] = a[i]
        \/ i - Len(a) \in 1..Len(b) /\ (a \o b)[i] = b[i - Len(a)]
    BY <1>1, ConcatAt
  <2> QED
    BY <1>2, <2>1
<1>4. a \o b \in Seq(Message)
  BY <1>1
<1> QED
  BY <1>3, <1>4 DEF ProperList

LEMMA GroupsJoin ==
  ASSUME NEW a \in Seq(Message), NEW b \in Seq(Message)
  PROVE  Groups(a \o b) = Groups(a) \cup Groups(b)
<1>1. a \o b \in Seq(Message)
  OBVIOUS
<1>2. ASSUME NEW G \in Groups(a \o b)
      PROVE  G \in Groups(a) \cup Groups(b)
  <2>1. PICK i \in 1..Len(a \o b) : G = IdsOf((a \o b)[i])
    BY <1>1, <1>2 DEF Groups
  <2>2. \/ i \in 1..Len(a) /\ (a \o b)[i] = a[i]
        \/ i - Len(a) \in 1..Len(b) /\ (a \o b)[i] = b[i - Len(a)]
    BY ConcatAt
  <2> QED
    BY <2>1, <2>2 DEF Groups
<1>3. ASSUME NEW G \in Groups(a)
      PROVE  G \in Groups(a \o b)
  <2>1. PICK i \in 1..Len(a) : G = IdsOf(a[i])
    BY <1>3 DEF Groups
  <2>2. i \in 1..Len(a \o b) /\ (a \o b)[i] = a[i]
    BY ConcatAt
  <2> QED
    BY <1>1, <2>1, <2>2 DEF Groups
<1>4. ASSUME NEW G \in Groups(b)
      PROVE  G \in Groups(a \o b)
  <2>1. PICK i \in 1..Len(b) : G = IdsOf(b[i])
    BY <1>4 DEF Groups
  <2>2. Len(a) + i \in 1..Len(a \o b) /\ (a \o b)[Len(a) + i] = b[i]
    BY ConcatAt
  <2> QED
    BY <1>1, <2>1, <2>2 DEF Groups
<1> QED
  BY <1>2, <1>3, <1>4

LEMMA JoinedLeft ==
  ASSUME NEW a \in Seq(Message), NEW b \in Seq(Message), NEW c, Joined(a, c)
  PROVE  Joined(a \o b, c)
<1>1. PICK i \in 1..Len(a) : /\ i + 1 \in 1..Len(a)
                             /\ c \in ToSet(a[i].uses) /\ c \in ToSet(a[i + 1].results)
  BY DEF Joined
<1>2. \A k \in 1..Len(a) : k \in 1..Len(a \o b) /\ (a \o b)[k] = a[k]
  BY ConcatAt
<1>3. /\ i \in 1..Len(a \o b) /\ (a \o b)[i] = a[i]
      /\ i + 1 \in 1..Len(a \o b) /\ (a \o b)[i + 1] = a[i + 1]
  BY <1>1, <1>2
<1>4. DOMAIN (a \o b) = 1..Len(a \o b)
  OBVIOUS
<1> QED
  BY <1>1, <1>3, <1>4 DEF Joined

LEMMA JoinedRight ==
  ASSUME NEW a \in Seq(Message), NEW b \in Seq(Message), NEW c, Joined(b, c)
  PROVE  Joined(a \o b, c)
<1>1. PICK i \in 1..Len(b) : /\ i + 1 \in 1..Len(b)
                             /\ c \in ToSet(b[i].uses) /\ c \in ToSet(b[i + 1].results)
  BY DEF Joined
<1>2. \A k \in 1..Len(b) : Len(a) + k \in 1..Len(a \o b) /\ (a \o b)[Len(a) + k] = b[k]
  BY ConcatAt
<1>3. /\ Len(a) + i \in 1..Len(a \o b) /\ (a \o b)[Len(a) + i] = b[i]
      /\ Len(a) + (i + 1) \in 1..Len(a \o b) /\ (a \o b)[Len(a) + (i + 1)] = b[i + 1]
  BY <1>1, <1>2
<1>4. Len(a) + (i + 1) = (Len(a) + i) + 1
  <2>1. Len(a) \in Nat /\ i \in Nat
    OBVIOUS
  <2> QED
    BY <2>1
<1>5. DOMAIN (a \o b) = 1..Len(a \o b)
  OBVIOUS
<1> QED
  BY <1>1, <1>3, <1>4, <1>5 DEF Joined

LEMMA OrphansJoin ==
  ASSUME NEW a \in Seq(Message), NEW b \in Seq(Message)
  PROVE  Orphans(a \o b) \subseteq Orphans(a) \cup Orphans(b)
<1> SUFFICES ASSUME NEW c \in Orphans(a \o b), c \notin Orphans(a), c \notin Orphans(b)
             PROVE  FALSE
  OBVIOUS
<1>1. ~Joined(a \o b, c) /\ \E i \in DOMAIN (a \o b) : c \in IdsOf((a \o b)[i])
  BY OrphansAre
<1>2. PICK G \in Groups(a \o b) : c \in G
  BY <1>1 DEF Groups
<1>3. \/ \E i \in DOMAIN a : c \in IdsOf(a[i])
      \/ \E i \in DOMAIN b : c \in IdsOf(b[i])
  BY <1>2, GroupsJoin DEF Groups
<1>4. Joined(a, c) \/ Joined(b, c)
  BY <1>3, OrphansAre
<1> QED
  BY <1>1, <1>4, JoinedLeft, JoinedRight

LEMMA OnceJoin ==
  ASSUME NEW a \in Seq(Message), NEW b \in Seq(Message), OnceEach(a), OnceEach(b),
         (UNION Groups(a)) \cap (UNION Groups(b)) = {}
  PROVE  OnceEach(a \o b)
<1> DEFINE ab == a \o b
           Apart(m, n) == ToSet(m.uses) \cap ToSet(n.uses) = {}
                            /\ ToSet(m.results) \cap ToSet(n.results) = {}
<1>1. DOMAIN ab = 1..Len(ab) /\ Len(a) \in Nat /\ Len(b) \in Nat
  OBVIOUS
<1>2. \A i \in 1..Len(ab) : \/ i \in 1..Len(a) /\ ab[i] = a[i]
                            \/ i - Len(a) \in 1..Len(b) /\ ab[i] = b[i - Len(a)]
  BY ConcatAt
<1>3. /\ \A i, j \in 1..Len(a) : i # j => Apart(a[i], a[j])
      /\ \A i, j \in 1..Len(b) : i # j => Apart(b[i], b[j])
  <2>1. DOMAIN a = 1..Len(a) /\ DOMAIN b = 1..Len(b)
    OBVIOUS
  <2> QED
    BY <2>1 DEF OnceEach
<1>4. \A i \in 1..Len(a), j \in 1..Len(b) : Apart(a[i], b[j]) /\ Apart(b[j], a[i])
  <2> TAKE i \in 1..Len(a), j \in 1..Len(b)
  <2>1. IdsOf(a[i]) \subseteq UNION Groups(a) /\ IdsOf(b[j]) \subseteq UNION Groups(b)
    BY DEF Groups
  <2>2. IdsOf(a[i]) \cap IdsOf(b[j]) = {}
    BY <2>1
  <2> QED
    BY <2>2 DEF IdsOf
<1> HIDE DEF ab, Apart
<1>5. ASSUME NEW i \in 1..Len(ab), NEW j \in 1..Len(ab), i # j
      PROVE  Apart(ab[i], ab[j])
  <2>1. \/ i \in 1..Len(a) /\ ab[i] = a[i]
        \/ i - Len(a) \in 1..Len(b) /\ ab[i] = b[i - Len(a)]
    BY <1>2
  <2>2. \/ j \in 1..Len(a) /\ ab[j] = a[j]
        \/ j - Len(a) \in 1..Len(b) /\ ab[j] = b[j - Len(a)]
    BY <1>2
  <2>3. i - Len(a) # j - Len(a)
    BY <1>1, <1>5
  <2> QED
    BY <1>3, <1>4, <1>5, <2>1, <2>2, <2>3
<1> QED
  BY <1>1, <1>5 DEF OnceEach, ab, Apart

LEMMA OnceFirst ==
  ASSUME NEW a \in Seq(Message), NEW b \in Seq(Message), OnceEach(a \o b)
  PROVE  OnceEach(a)
<1>1. /\ DOMAIN (a \o b) = 1..Len(a \o b) /\ DOMAIN a = 1..Len(a)
      /\ \A i \in 1..Len(a) : i \in 1..Len(a \o b) /\ (a \o b)[i] = a[i]
  BY ConcatAt
<1> QED
  BY <1>1 DEF OnceEach

-----------------------------------------------------------------------------
(* The conversions of messages.                                            *)

Converts(t, s) ==
  /\ ProperList(t) /\ Len(t) <= Len(s)
  /\ Groups(t) \subseteq Groups(s)
  /\ Orphans(t) \subseteq Orphans(s)
  /\ OnceEach(s) => OnceEach(t)

LEMMA LoadedConverts ==
  ASSUME NEW ms, ProperList(ms)
  PROVE  Converts(FromStored(ms), ms)
<1> DEFINE t == [i \in DOMAIN ms |-> Loaded(ms[i])]
           f == FromStored(ms)
<1>1. ms \in Seq(Message) /\ Len(ms) \in Nat /\ \A i \in 1..Len(ms) : ms[i] \in Message /\ Proper(ms[i])
  BY DEF ProperList
<1>2. Copies(t, ms) /\ \A i \in 1..Len(ms) : t[i] = Loaded(ms[i])
  BY <1>1, LoadedList
<1>3. f = Filter(t, Loadable)
  BY DEF FromStored
<1> HIDE DEF t, f
<1>4. f \in Seq(Message) /\ Len(f) <= Len(ms)
  BY <1>1, <1>2, <1>3, FilterThins
<1>5. PICK h : /\ Thins(h, f, ms)
               /\ \A i \in 1..Len(ms) : t[i] \in Loadable => Hits(h, f, i)
  BY <1>1, <1>2, <1>3, FilterThins
<1>6. \A i \in 1..Len(ms) : IdsOf(ms[i]) # {} => t[i] \in Loadable
  <2> TAKE i \in 1..Len(ms)
  <2>1. t[i] \in Message /\ t[i].uses = ms[i].uses /\ t[i].results = ms[i].results
    BY <1>1, <1>2, LoadedSame DEF Same
  <2>2. IdsOf(ms[i]) # {} => ms[i].uses # <<>> \/ ms[i].results # <<>>
    BY EmptySet DEF IdsOf
  <2> QED
    BY <2>1, <2>2 DEF Loadable
<1>7. \A n \in 1..Len(f) : Proper(f[n])
  <2>1. \A n \in 1..Len(f) : \E i \in 1..Len(ms) : f[n] = t[i]
    BY <1>1, <1>2, <1>3, FilterThins
  <2> QED
    BY <1>1, <1>2, <2>1, LoadedSame
<1>8. ProperList(f)
  BY <1>4, <1>7 DEF ProperList
<1>9. Groups(f) \subseteq Groups(ms) /\ (OnceEach(ms) => OnceEach(f))
  BY <1>1, <1>4, <1>5, ThinGroups, ThinOnce
<1>10. \A i \in 1..Len(ms) : IdsOf(ms[i]) # {} => Hits(h, f, i)
  BY <1>5, <1>6
<1>11. Orphans(f) \subseteq Orphans(ms)
  BY <1>1, <1>4, <1>5, <1>10, ThinOrphans
<1> QED
  BY <1>4, <1>8, <1>9, <1>11 DEF Converts, f

LEMMA StoredConverts ==
  ASSUME NEW ms, ProperList(ms)
  PROVE  /\ Converts(ToStored(ms), ms)
         /\ (\A i \in DOMAIN ms : ms[i].pruned = {}) =>
               \A i \in DOMAIN ToStored(ms) : ToStored(ms)[i].pruned = {}
<1> DEFINE t == [i \in DOMAIN ms |-> Payload(ms[i])]
           f == ToStored(ms)
<1>1. ms \in Seq(Message) /\ Len(ms) \in Nat /\ \A i \in 1..Len(ms) : ms[i] \in Message /\ Proper(ms[i])
  BY DEF ProperList
<1>2. Copies(t, ms) /\ \A i \in 1..Len(ms) : t[i] = Payload(ms[i])
  BY PayloadList
<1>3. f = Filter(t, Durable)
  BY DEF ToStored
<1> HIDE DEF t, f
<1>4. f \in Seq(Message) /\ Len(f) <= Len(ms)
  BY <1>1, <1>2, <1>3, FilterThins
<1>5. PICK h : /\ Thins(h, f, ms)
               /\ \A i \in 1..Len(ms) : t[i] \in Durable => Hits(h, f, i)
  BY <1>1, <1>2, <1>3, FilterThins
<1>6. \A i \in 1..Len(ms) : IdsOf(ms[i]) # {} => t[i] \in Durable
  BY <1>1, <1>2, PayloadSame
<1>7. \A n \in 1..Len(f) : \E i \in 1..Len(ms) : f[n] = t[i]
  BY <1>1, <1>2, <1>3, FilterThins
<1>8. \A n \in 1..Len(f) : Proper(f[n])
  BY <1>1, <1>2, <1>7, PayloadSame
<1>9. ProperList(f)
  BY <1>4, <1>8 DEF ProperList
<1>10. Groups(f) \subseteq Groups(ms) /\ (OnceEach(ms) => OnceEach(f))
  BY <1>1, <1>4, <1>5, ThinGroups, ThinOnce
<1>11. \A i \in 1..Len(ms) : IdsOf(ms[i]) # {} => Hits(h, f, i)
  BY <1>5, <1>6
<1>12. Orphans(f) \subseteq Orphans(ms)
  BY <1>1, <1>4, <1>5, <1>11, ThinOrphans
<1>13. ASSUME \A i \in DOMAIN ms : ms[i].pruned = {}
       PROVE  \A i \in DOMAIN f : f[i].pruned = {}
  BY <1>1, <1>2, <1>4, <1>7, <1>13, PayloadSame
<1> QED
  BY <1>4, <1>9, <1>10, <1>12, <1>13 DEF Converts, f

(* What is loaded is loaded piece by piece.                                *)
LEMMA LoadedSplits ==
  ASSUME NEW a \in Seq(Message), NEW b \in Seq(Message)
  PROVE  FromStored(a \o b) = FromStored(a) \o FromStored(b)
<1> DEFINE L(s) == [i \in DOMAIN s |-> Loaded(s[i])]
<1>1. /\ a \o b \in Seq(Message) /\ Len(a \o b) = Len(a) + Len(b)
      /\ Len(a) \in Nat /\ Len(b) \in Nat
  OBVIOUS
<1>2. L(a) \in Seq(Message) /\ Len(L(a)) = Len(a) /\ \A i \in 1..Len(a) : L(a)[i] = Loaded(a[i])
  BY LoadedList DEF Copies
<1>3. L(b) \in Seq(Message) /\ Len(L(b)) = Len(b) /\ \A i \in 1..Len(b) : L(b)[i] = Loaded(b[i])
  BY LoadedList DEF Copies
<1>4. /\ L(a \o b) \in Seq(Message) /\ Len(L(a \o b)) = Len(a \o b)
      /\ \A i \in 1..Len(a \o b) : L(a \o b)[i] = Loaded((a \o b)[i])
  BY <1>1, LoadedList DEF Copies
<1> DEFINE la == L(a)
           lb == L(b)
           l == L(a \o b)
<1>5. /\ FromStored(a \o b) = Filter(l, Loadable) /\ FromStored(a) = Filter(la, Loadable)
      /\ FromStored(b) = Filter(lb, Loadable)
  BY DEF FromStored
<1> HIDE DEF l, la, lb, L
<1>6. l \in Seq(Message) /\ la \in Seq(Message) /\ lb \in Seq(Message)
  BY <1>2, <1>3, <1>4 DEF l, la, lb
<1>7. la \o lb \in Seq(Message) /\ Len(la \o lb) = Len(l)
  <2>1. la \o lb \in Seq(Message) /\ Len(la \o lb) = Len(la) + Len(lb)
    BY <1>6, ConcatAt
  <2>2. Len(la) = Len(a) /\ Len(lb) = Len(b) /\ Len(l) = Len(a \o b)
    BY <1>2, <1>3, <1>4 DEF l, la, lb
  <2> QED
    BY <1>1, <2>1, <2>2
<1>8. \A i \in 1..Len(l) : l[i] = (la \o lb)[i]
  <2> TAKE i \in 1..Len(l)
  <2>1. i \in 1..Len(a \o b) /\ l[i] = Loaded((a \o b)[i])
    BY <1>4 DEF l
  <2>2. \/ i \in 1..Len(a) /\ (a \o b)[i] = a[i]
        \/ i - Len(a) \in 1..Len(b) /\ (a \o b)[i] = b[i - Len(a)]
    BY <2>1, ConcatAt
  <2>3. CASE i \in 1..Len(a) /\ (a \o b)[i] = a[i]
    <3>1. i \in 1..Len(la) /\ la[i] = Loaded(a[i])
      BY <1>2, <2>3 DEF la
    <3>2. (la \o lb)[i] = la[i]
      BY <1>6, <3>1, ConcatAt
    <3> QED
      BY <2>1, <2>3, <3>1, <3>2
  <2>4. CASE i - Len(a) \in 1..Len(b) /\ (a \o b)[i] = b[i - Len(a)]
    <3>1. i - Len(a) \in 1..Len(lb) /\ lb[i - Len(a)] = Loaded(b[i - Len(a)]) /\ Len(la) = Len(a)
      BY <1>2, <1>3, <2>4 DEF la, lb
    <3>2. (la \o lb)[Len(la) + (i - Len(a))] = lb[i - Len(a)]
      <4>1. \A k \in 1..Len(lb) : (la \o lb)[Len(la) + k] = lb[k]
        BY <1>6, ConcatAt
      <4> QED
        BY <3>1, <4>1
    <3>3. Len(la) + (i - Len(a)) = i
      BY <1>1, <2>1, <3>1
    <3> QED
      BY <2>1, <2>4, <3>1, <3>2, <3>3
  <2> QED
    BY <2>2, <2>3, <2>4
<1>9. l = la \o lb
  BY <1>6, <1>7, <1>8, SeqEqual
<1>10. Filter(la \o lb, Loadable) = Filter(la, Loadable) \o Filter(lb, Loadable)
  <2>1. \A s \in Seq(Message) : \A t \in Seq(Message) :
          Filter(s \o t, Loadable) = Filter(s, Loadable) \o Filter(t, Loadable)
    BY FilterSplits
  <2> QED
    BY <1>6, <2>1, Zenon
<1> QED
  BY <1>5, <1>9, <1>10

-----------------------------------------------------------------------------
(* A part of a list.                                                       *)

LEMMA PartAt ==
  ASSUME NEW T, NEW s \in Seq(T), NEW i \in Nat \ {0}, NEW k \in Nat, k <= Len(s)
  PROVE  LET t == SubSeq(s, i, k)
         IN  /\ t \in Seq(T) /\ Len(t) \in Nat /\ Len(t) <= Len(s)
             /\ Len(t) = (IF i <= k THEN (k - i) + 1 ELSE 0)
             /\ \A n \in 1..Len(t) : (i + n) - 1 \in 1..Len(s) /\ t[n] = s[(i + n) - 1]
<1> DEFINE t == SubSeq(s, i, k)
<1>1. i \in Int /\ k \in Int /\ i >= 1 /\ Len(s) \in Nat
  OBVIOUS
<1>2. \A j \in i..k : s[j] \in T
  <2> TAKE j \in i..k
  <2>1. j \in 1..Len(s)
    BY <1>1
  <2> QED
    BY <2>1
<1>3. /\ SubSeq(s, i, k) \in Seq(T)
      /\ Len(SubSeq(s, i, k)) = IF i <= k THEN k - i + 1 ELSE 0
      /\ \A j \in 1..(k - i + 1) : SubSeq(s, i, k)[j] = s[i + j - 1]
  BY <1>1, <1>2, SubSeqProperties
<1>4. /\ t \in Seq(T) /\ Len(t) = (IF i <= k THEN (k - i) + 1 ELSE 0)
      /\ \A j \in 1..((k - i) + 1) : t[j] = s[(i + j) - 1]
  BY <1>1, <1>3
<1> HIDE DEF t
<1>5. Len(t) \in Nat /\ Len(t) <= Len(s)
  BY <1>1, <1>4
<1>6. \A n \in 1..Len(t) : (i + n) - 1 \in 1..Len(s) /\ t[n] = s[(i + n) - 1]
  <2> TAKE n \in 1..Len(t)
  <2>1. n \in 1..((k - i) + 1) /\ i <= k
    BY <1>1, <1>4
  <2> QED
    BY <1>1, <1>4, <2>1
<1> QED
  BY <1>4, <1>5, <1>6 DEF t

LEMMA PartThins ==
  ASSUME NEW s \in Seq(Message), NEW i \in Nat \ {0}, NEW k \in Nat, k <= Len(s)
  PROVE  SubSeq(s, i, k) \in Seq(Message) /\ \E h : Thins(h, SubSeq(s, i, k), s)
<1> DEFINE t == SubSeq(s, i, k)
           h == [n \in 1..Len(t) |-> (i + n) - 1]
<1>1. /\ t \in Seq(Message) /\ Len(t) \in Nat
      /\ \A n \in 1..Len(t) : (i + n) - 1 \in 1..Len(s) /\ t[n] = s[(i + n) - 1]
  BY PartAt
<1> HIDE DEF t
<1>2. h \in [1..Len(t) -> 1..Len(s)] /\ \A n \in 1..Len(t) : h[n] = (i + n) - 1
  BY <1>1
<1> HIDE DEF h
<1>3. \A n \in 1..Len(t) : Same(t[n], s[h[n]])
  BY <1>1, <1>2 DEF Same
<1>4. \A m, n \in 1..Len(t) : m < n => h[m] < h[n]
  BY <1>1, <1>2
<1>5. Thins(h, t, s)
  BY <1>2, <1>3, <1>4 DEF Thins
<1> QED
  BY <1>1, <1>5 DEF t

(* What a part has of its list.                                            *)
LEMMA PartHas ==
  ASSUME NEW s, ProperList(s), NEW i \in Nat \ {0}, NEW k \in Nat, k <= Len(s)
  PROVE  /\ ProperList(SubSeq(s, i, k))
         /\ Groups(SubSeq(s, i, k)) \subseteq Groups(s)
         /\ OnceEach(s) => OnceEach(SubSeq(s, i, k))
<1> DEFINE t == SubSeq(s, i, k)
<1>0. s \in Seq(Message)
  BY DEF ProperList
<1>1. \A n \in 1..Len(s) : Proper(s[n])
  BY <1>0 DEF ProperList
<1>2. /\ t \in Seq(Message) /\ DOMAIN t = 1..Len(t)
      /\ \A n \in 1..Len(t) : (i + n) - 1 \in 1..Len(s) /\ t[n] = s[(i + n) - 1]
  BY <1>0, PartAt
<1>3. PICK h : Thins(h, t, s)
  BY <1>0, PartThins
<1> HIDE DEF t
<1>4. ProperList(t)
  <2>1. \A n \in 1..Len(t) : Proper(t[n])
    BY <1>1, <1>2
  <2> QED
    BY <1>2, <2>1 DEF ProperList
<1> QED
  BY <1>0, <1>2, <1>3, <1>4, ThinGroups, ThinOnce DEF t

(* The last n messages.                                                    *)
LEMMA LastNIs ==
  ASSUME NEW s \in Seq(Message), NEW n \in Nat \ {0}, Len(s) > n
  PROVE  LET o == Len(s) - n
         IN  /\ o \in Nat \ {0} /\ LastN(s, n) = SubSeq(s, o + 1, Len(s))
             /\ LastN(s, n) \in Seq(Message) /\ Len(LastN(s, n)) = n
             /\ \A j \in 1..n : o + j \in 1..Len(s) /\ LastN(s, n)[j] = s[o + j]
<1> DEFINE o == Len(s) - n
           t == SubSeq(s, o + 1, Len(s))
<1>1. Len(s) \in Nat /\ o \in Nat \ {0} /\ o + 1 \in Nat \ {0} /\ n \in Nat
  OBVIOUS
<1>2. LastN(s, n) = t
  BY DEF LastN
<1>3. /\ t \in Seq(Message) /\ Len(t) \in Nat
      /\ Len(t) = (IF o + 1 <= Len(s) THEN (Len(s) - (o + 1)) + 1 ELSE 0)
      /\ \A j \in 1..Len(t) : ((o + 1) + j) - 1 \in 1..Len(s) /\ t[j] = s[((o + 1) + j) - 1]
  BY <1>1, PartAt
<1>4. Len(t) = n
  BY <1>1, <1>3
<1> HIDE DEF t
<1>5. \A j \in 1..n : o + j \in 1..Len(s) /\ t[j] = s[o + j]
  <2> TAKE j \in 1..n
  <2>1. ((o + 1) + j) - 1 = o + j
    BY <1>1
  <2> QED
    BY <1>3, <1>4, <2>1
<1> QED
  BY <1>1, <1>2, <1>3, <1>4, <1>5 DEF t

-----------------------------------------------------------------------------
(* The context window.                                                     *)

(* A list to which the window is applied.                                  *)
Managed(ms) ==
  /\ ProperList(ms) /\ ms # <<>> /\ IdsOf(ms[1]) = {}
  /\ OnceEach(ms) /\ Alike(Groups(ms))

(* Of the new list with regard to the old one, where cut is what a summary *)
(* separated.                                                              *)
Shortens(new, ms, cut) ==
  /\ ProperList(new) /\ new # <<>> /\ IdsOf(new[1]) = {} /\ OnceEach(new)
  /\ Groups(new) \subseteq Groups(ms) \cup {{}}
  /\ Orphans(new) \subseteq Orphans(ms) \cup cut
  /\ Len(new) <= Len(ms)
  /\ Len(new) = Len(ms) /\ ms[Len(ms)] = Input => new[Len(new)] = Input

LEMMA ShortensItself ==
  ASSUME NEW ms, Managed(ms)
  PROVE  Shortens(ms, ms, {})
<1>1. Len(ms) \in Nat
  BY DEF Managed, ProperList
<1> QED
  BY <1>1 DEF Managed, Shortens

LEMMA InputIs ==
  /\ Input \in Message /\ Input.uses = <<>> /\ Input.results = <<>> /\ Input.pruned = {}
  /\ Input.text = "input" /\ Input.role = "user" /\ IdsOf(Input) = {} /\ Proper(Input)
<1>1. /\ Input \in Message /\ Input.uses = <<>> /\ Input.results = <<>> /\ Input.pruned = {}
      /\ Input.text = "input" /\ Input.role = "user"
  BY DEF Input, TextMessage, Message, Text
<1>2. IdsOf(Input) = {}
  BY <1>1, EmptySet DEF IdsOf
<1> QED
  BY <1>1, <1>2 DEF Proper

LEMMA TextMessageIs ==
  ASSUME NEW role \in {"system", "user", "assistant", "tool"}, NEW text \in Text
  PROVE  LET m == TextMessage(role, text)
         IN  /\ m \in Message /\ Proper(m) /\ IdsOf(m) = {} /\ m.text = text
             /\ m.role = role /\ m.pruned = {} /\ m.uses = <<>> /\ m.results = <<>>
<1> DEFINE m == TextMessage(role, text)
<1>1. /\ m \in Message /\ m.text = text /\ m.role = role
      /\ m.pruned = {} /\ m.uses = <<>> /\ m.results = <<>>
  BY DEF TextMessage, Message, Text
<1> HIDE DEF m
<1>2. IdsOf(m) = {}
  BY <1>1, EmptySet DEF IdsOf
<1>3. Proper(m)
  BY <1>1 DEF Proper
<1> QED
  BY <1>1, <1>2, <1>3 DEF m

LEMMA PruneShortens ==
  ASSUME NEW ms, Managed(ms)
  PROVE  /\ Shortens(Prune(ms), ms, {}) /\ Managed(Prune(ms)) /\ Len(Prune(ms)) = Len(ms)
         /\ PrunableIds(ms) = {} => Prune(ms) = ms
<1> DEFINE P == PrunableIds(ms)
           t == Prune(ms)
<1>1. /\ ms \in Seq(Message) /\ Len(ms) \in Nat /\ DOMAIN ms = 1..Len(ms) /\ Len(ms) # 0
      /\ \A i \in 1..Len(ms) : ms[i] \in Message /\ Proper(ms[i])
  BY DEF Managed, ProperList
<1>2. t = [i \in 1..Len(ms) |-> [ms[i] EXCEPT !.pruned = @ \cup (P \cap ToSet(ms[i].results))]]
  BY <1>1 DEF Prune
<1> HIDE DEF P, t
<1>3. ASSUME NEW i \in 1..Len(ms)
      PROVE  /\ t[i] \in Message /\ Same(t[i], ms[i]) /\ Proper(t[i]) /\ IdsOf(t[i]) = IdsOf(ms[i])
             /\ P = {} => t[i] = ms[i]
             /\ ms[i] = Input => t[i] = Input
  <2> DEFINE m == ms[i]
             n == [m EXCEPT !.pruned = @ \cup (P \cap ToSet(m.results))]
  <2>1. t[i] = n
    BY <1>2
  <2>2. m \in Message /\ m.results \in Seq(Nat) /\ m.pruned \in SUBSET Nat
    BY <1>1, MessageFields
  <2>3. ToSet(m.results) \in SUBSET Nat
    <3>1. \A k \in DOMAIN m.results : m.results[k] \in Nat
      BY <2>2
    <3> QED
      BY <3>1 DEF ToSet
  <2> HIDE DEF m
  <2>4. n \in Message
    BY <2>2, <2>3 DEF Message
  <2>5. /\ n.uses = m.uses /\ n.results = m.results /\ n.role = m.role /\ n.text = m.text
        /\ n.pruned = m.pruned \cup (P \cap ToSet(m.results))
    BY <2>2 DEF Message
  <2>6. n.pruned = m.pruned => n = m
    <3> HIDE DEF n
    <3>1. m = [role |-> m.role, text |-> m.text, uses |-> m.uses,
               results |-> m.results, pruned |-> m.pruned]
      BY <2>2 DEF Message
    <3>2. n = [role |-> n.role, text |-> n.text, uses |-> n.uses,
               results |-> n.results, pruned |-> n.pruned]
      BY <2>4 DEF Message
    <3> QED
      BY <2>5, <3>1, <3>2
  <2> HIDE DEF n
  <2>7. Proper(m)
    BY <1>1 DEF m
  <2>8. Proper(n)
    BY <2>4, <2>5, <2>7 DEF Proper
  <2>9. P = {} => n = m
    BY <2>5, <2>6
  <2>10. m = Input => n = m
    BY <2>5, <2>6, InputIs, EmptySet
  <2> QED
    BY <2>1, <2>4, <2>5, <2>8, <2>9, <2>10 DEF Same, IdsOf, m
<1>4. t \in Seq(Message) /\ Len(t) = Len(ms)
  <2>1. \A i \in 1..Len(ms) : t[i] \in Message
    BY <1>3
  <2>2. t \in [1..Len(ms) -> Message]
    BY <1>2, <2>1
  <2> QED
    BY <1>1, <2>2, Tabulated
<1>5. ProperList(t)
  BY <1>3, <1>4 DEF ProperList
<1> DEFINE h == [i \in 1..Len(t) |-> i]
<1>6. Thins(h, t, ms)
  BY <1>1, <1>3, <1>4 DEF Thins
<1>7. \A i \in 1..Len(ms) : Hits(h, t, i)
  BY <1>4 DEF Hits
<1> HIDE DEF h
<1>8. OnceEach(t) /\ Groups(t) \subseteq Groups(ms) /\ Orphans(t) \subseteq Orphans(ms)
  <2>1. OnceEach(ms)
    BY DEF Managed
  <2> QED
    BY <1>1, <1>4, <1>6, <1>7, <2>1, ThinOnce, ThinGroups, ThinOrphans
<1>9. t # <<>> /\ IdsOf(t[1]) = {}
  <2>1. 1 \in 1..Len(ms)
    BY <1>1
  <2> QED
    BY <1>1, <1>3, <1>4, <2>1 DEF Managed
<1>10. ms[Len(ms)] = Input => t[Len(t)] = Input
  <2>1. Len(ms) \in 1..Len(ms)
    BY <1>1
  <2> QED
    BY <1>3, <1>4, <2>1
<1>11. P = {} => t = ms
  BY <1>1, <1>3, <1>4, SeqEqual
<1>12. Alike(Groups(t))
  BY <1>8 DEF Alike, Managed
<1>13. Managed(t)
  BY <1>5, <1>8, <1>9, <1>12 DEF Managed
<1>14. Shortens(t, ms, {})
  BY <1>1, <1>4, <1>5, <1>8, <1>9, <1>10 DEF Shortens
<1> QED
  BY <1>4, <1>11, <1>13, <1>14 DEF P, t

LEMMA PlainOrphans ==
  ASSUME NEW s \in Seq(Message), \A i \in 1..Len(s) : IdsOf(s[i]) = {}
  PROVE  Orphans(s) = {} /\ Groups(s) \subseteq {{}} /\ OnceEach(s)
<1>1. DOMAIN s = 1..Len(s)
  OBVIOUS
<1>2. \A c : c \notin Orphans(s)
  BY <1>1, OrphansAre
<1>3. Groups(s) \subseteq {{}}
  BY <1>1 DEF Groups
<1>4. \A i \in 1..Len(s) : ToSet(s[i].uses) = {} /\ ToSet(s[i].results) = {}
  BY DEF IdsOf
<1>5. OnceEach(s)
  BY <1>1, <1>4 DEF OnceEach
<1> QED
  BY <1>2, <1>3, <1>5

(* Messages without calls before the rest.                                 *)
LEMMA PlainFirst ==
  ASSUME NEW head, ProperList(head), head # <<>>, \A i \in 1..Len(head) : IdsOf(head[i]) = {},
         NEW rest, ProperList(rest), OnceEach(rest)
  PROVE  LET s == head \o rest
         IN  /\ ProperList(s) /\ s # <<>> /\ IdsOf(s[1]) = {} /\ OnceEach(s)
             /\ Groups(s) \subseteq Groups(rest) \cup {{}} /\ Orphans(s) \subseteq Orphans(rest)
             /\ Len(s) = Len(head) + Len(rest) /\ Len(head) \in Nat /\ Len(rest) \in Nat
             /\ rest # <<>> => s[Len(s)] = rest[Len(rest)]
<1> DEFINE s == head \o rest
<1>1. head \in Seq(Message)
  BY DEF ProperList
<1>2. rest \in Seq(Message)
  BY DEF ProperList
<1>3. /\ s \in Seq(Message) /\ Len(head) \in Nat /\ Len(rest) \in Nat
      /\ Len(s) = Len(head) + Len(rest)
      /\ \A i \in 1..Len(head) : i \in 1..Len(s) /\ s[i] = head[i]
      /\ \A i \in 1..Len(rest) : Len(head) + i \in 1..Len(s) /\ s[Len(head) + i] = rest[i]
  BY <1>1, <1>2, ConcatAt
<1>4. ProperList(s)
  BY ProperJoin
<1>5. Orphans(head) = {} /\ Groups(head) \subseteq {{}} /\ OnceEach(head)
  BY <1>1, PlainOrphans
<1>6. Groups(s) \subseteq Groups(rest) \cup {{}}
  BY <1>1, <1>2, <1>5, GroupsJoin
<1>7. (UNION Groups(head)) \cap (UNION Groups(rest)) = {}
  BY <1>5
<1>8. OnceEach(s)
  BY <1>1, <1>2, <1>5, <1>7, OnceJoin
<1>9. Orphans(s) \subseteq Orphans(rest)
  BY <1>1, <1>2, <1>5, OrphansJoin
<1> HIDE DEF s
<1>10. Len(head) # 0
  BY <1>1
<1>11. s # <<>> /\ IdsOf(s[1]) = {}
  <2>1. 1 \in 1..Len(head)
    BY <1>3, <1>10
  <2>2. Len(s) # 0
    BY <1>3, <1>10
  <2>3. s # <<>>
    BY <2>2
  <2>4. s[1] = head[1]
    BY <1>3, <2>1
  <2> QED
    BY <2>1, <2>3, <2>4
<1>12. rest # <<>> => s[Len(s)] = rest[Len(rest)]
  <2>1. rest # <<>> => Len(rest) \in 1..Len(rest)
    BY <1>2, <1>3
  <2> QED
    BY <1>3, <2>1
<1> QED
  BY <1>3, <1>4, <1>6, <1>8, <1>9, <1>11, <1>12 DEF s

(* Messages without calls, then the last n messages of the list.           *)
LEMMA LastShortens ==
  ASSUME NEW ms, Managed(ms), NEW n \in Nat \ {0}, Len(ms) > n,
         NEW head, ProperList(head), head # <<>>, \A i \in 1..Len(head) : IdsOf(head[i]) = {},
         Len(head) + n <= Len(ms)
  PROVE  Shortens(head \o LastN(ms, n), ms, Orphans(head \o LastN(ms, n)))
<1> DEFINE rest == LastN(ms, n)
           s == head \o rest
           o == Len(ms) - n
<1>1. ms \in Seq(Message)
  BY DEF Managed, ProperList
<1>2. /\ o \in Nat \ {0} /\ rest = SubSeq(ms, o + 1, Len(ms)) /\ Len(rest) = n
      /\ rest \in Seq(Message) /\ \A j \in 1..n : rest[j] = ms[o + j]
  BY <1>1, LastNIs
<1>3. ProperList(rest) /\ Groups(rest) \subseteq Groups(ms) /\ OnceEach(rest)
  <2>1. o + 1 \in Nat \ {0} /\ Len(ms) \in Nat /\ Len(ms) <= Len(ms)
    BY <1>1, <1>2
  <2> QED
    BY <1>2, <2>1, PartHas DEF Managed
<1> HIDE DEF rest
<1>4. /\ ProperList(s) /\ s # <<>> /\ IdsOf(s[1]) = {} /\ OnceEach(s)
      /\ Groups(s) \subseteq Groups(rest) \cup {{}}
      /\ Len(s) = Len(head) + Len(rest)
      /\ rest # <<>> => s[Len(s)] = rest[Len(rest)]
  BY <1>3, PlainFirst
<1> HIDE DEF s
<1>5. s[Len(s)] = ms[Len(ms)]
  <2>0. rest # <<>>
    BY <1>2
  <2>1. n \in 1..n /\ o + n = Len(ms) /\ rest # <<>>
    BY <1>1, <1>2, <2>0
  <2> QED
    BY <1>2, <1>4, <2>1
<1>6. Len(s) <= Len(ms)
  BY <1>2, <1>4
<1>7. Shortens(s, ms, Orphans(s))
  BY <1>3, <1>4, <1>5, <1>6 DEF Shortens
<1> QED
  BY <1>7 DEF s, rest

LEMMA SummaryShortens ==
  ASSUME NEW ms, Managed(ms), NEW c \in {Summarize(ms), HardTruncate(ms)}
  PROVE  Shortens(c, ms, Orphans(c))
<1>1. /\ ms \in Seq(Message) /\ Len(ms) \in Nat /\ Len(ms) # 0
      /\ Proper(ms[1]) /\ ms[1] \in Message /\ IdsOf(ms[1]) = {}
  BY DEF Managed, ProperList, Proper
<1>2. RecentBuffer \in Nat \ {0}
  BY WindowAssumption
<1>3. CASE c = ms
  BY <1>3, ShortensItself DEF Shortens
<1>4. CASE c # ms
  <2>1. Len(ms) > RecentBuffer + 1
    BY <1>1, <1>2, <1>4 DEF Summarize, HardTruncate
  <2>2. Len(ms) > RecentBuffer
    BY <1>1, <1>2, <2>1
  <2> DEFINE p == TextMessage("user", "summary")
  <2>3. p \in Message /\ Proper(p) /\ IdsOf(p) = {}
    BY TextMessageIs DEF Text
  <2> HIDE DEF p
  <2>4. CASE c = Summarize(ms)
    <3> DEFINE head == <<ms[1], p>>
    <3>1. c = head \o LastN(ms, RecentBuffer)
      BY <1>1, <1>2, <2>1, <2>4 DEF Summarize, p
    <3>2. /\ head \in Seq(Message) /\ Len(head) = 2 /\ head # <<>>
          /\ \A i \in 1..2 : Proper(head[i]) /\ IdsOf(head[i]) = {}
      BY <1>1, <2>3
    <3> HIDE DEF head
    <3>3. ProperList(head) /\ \A i \in 1..Len(head) : IdsOf(head[i]) = {}
      BY <3>2 DEF ProperList
    <3>4. Len(head) + RecentBuffer <= Len(ms)
      BY <1>1, <1>2, <2>1, <3>2
    <3> QED
      BY <1>2, <2>2, <3>1, <3>2, <3>3, <3>4, LastShortens
  <2>5. CASE c = HardTruncate(ms)
    <3> DEFINE head == <<ms[1]>>
    <3>1. c = head \o LastN(ms, RecentBuffer)
      BY <1>1, <1>2, <2>1, <2>5 DEF HardTruncate
    <3>2. /\ head \in Seq(Message) /\ Len(head) = 1 /\ head # <<>>
          /\ \A i \in 1..1 : Proper(head[i]) /\ IdsOf(head[i]) = {}
      BY <1>1
    <3> HIDE DEF head
    <3>3. ProperList(head) /\ \A i \in 1..Len(head) : IdsOf(head[i]) = {}
      BY <3>2 DEF ProperList
    <3>4. Len(head) + RecentBuffer <= Len(ms)
      BY <1>1, <1>2, <2>1, <3>2
    <3> QED
      BY <1>2, <2>2, <3>1, <3>2, <3>3, <3>4, LastShortens
  <2> QED
    BY <2>4, <2>5
<1> QED
  BY <1>3, <1>4

(* A pair in the window is whole on both sides, since a call and its       *)
(* results have all their ids in common.                                   *)
LEMMA SlideOrphans ==
  ASSUME NEW ms, Managed(ms), NEW w, NEW o \in Nat, w \in Seq(Message), Len(w) + o = Len(ms),
         \A j \in 1..Len(w) : o + j \in 1..Len(ms) /\ w[j] = ms[o + j],
         NEW f, f = Filter(w, {m \in Message : ~HasBrokenTool(m, BrokenToolIds(w))})
  PROVE  Orphans(f) \subseteq Orphans(ms)
<1> DEFINE S == {m \in Message : ~HasBrokenTool(m, BrokenToolIds(w))}
<1>1. ms \in Seq(Message) /\ Len(ms) \in Nat /\ Len(w) \in Nat /\ DOMAIN ms = 1..Len(ms)
  BY DEF Managed, ProperList
<1>2. Copies(w, w)
  BY DEF Copies, Same
<1>3. f \in Seq(Message)
  BY <1>2, FilterThins
<1>4. PICK h : /\ Thins(h, f, w)
               /\ \A i \in 1..Len(w) : w[i] \in S => Hits(h, f, i)
               /\ \A i \in 1..Len(w) : Hits(h, f, i) => w[i] \in S
  BY <1>2, FilterThins
<1>5. \A i \in 1..Len(w) : w[i] \in S <=> IdsOf(w[i]) \cap BrokenToolIds(w) = {}
  BY DEF HasBrokenTool, IdsOf
<1> HIDE DEF S
<1> SUFFICES ASSUME NEW c \in Orphans(f), c \notin Orphans(ms) PROVE FALSE
  OBVIOUS
<1>6. ~Joined(f, c) /\ \E n \in DOMAIN f : c \in IdsOf(f[n])
  BY OrphansAre
<1>7. PICK n \in 1..Len(f) : c \in IdsOf(f[n])
  <2>1. DOMAIN f = 1..Len(f)
    BY <1>3
  <2> QED
    BY <1>6, <2>1
<1>8. PICK p \in 1..Len(w) : p = h[n] /\ Same(f[n], w[p]) /\ w[p] \in S
  <2>1. h[n] \in 1..Len(w) /\ Same(f[n], w[h[n]])
    BY <1>4 DEF Thins
  <2>2. Hits(h, f, h[n])
    BY DEF Hits
  <2> QED
    BY <1>4, <2>1, <2>2
<1>9. c \in IdsOf(w[p]) /\ c \notin BrokenToolIds(w)
  BY <1>5, <1>7, <1>8 DEF Same, IdsOf
<1>10. c \in UseIds(w) /\ c \in ResultIds(w)
  BY <1>9 DEF BrokenToolIds, UseIds, ResultIds, IdsOf
<1>11. PICK i \in 1..Len(w), j \in 1..Len(w) : c \in ToSet(w[i].uses) /\ c \in ToSet(w[j].results)
  <2>1. DOMAIN w = 1..Len(w)
    OBVIOUS
  <2> QED
    BY <1>10, <2>1 DEF UseIds, ResultIds
<1>12. Joined(ms, c)
  <2>1. o + p \in 1..Len(ms) /\ w[p] = ms[o + p]
    OBVIOUS
  <2> QED
    BY <1>1, <1>9, <2>1, OrphansAre
<1>13. PICK k \in 1..Len(ms) : /\ k + 1 \in 1..Len(ms)
                               /\ c \in ToSet(ms[k].uses) /\ c \in ToSet(ms[k + 1].results)
  BY <1>1, <1>12 DEF Joined
<1>14. o + i = k /\ o + j = k + 1
  <2>1. /\ o + i \in 1..Len(ms) /\ c \in ToSet(ms[o + i].uses)
        /\ o + j \in 1..Len(ms) /\ c \in ToSet(ms[o + j].results)
    BY <1>11
  <2>2. \A a, b \in 1..Len(ms) : a # b =>
          ToSet(ms[a].uses) \cap ToSet(ms[b].uses) = {}
          /\ ToSet(ms[a].results) \cap ToSet(ms[b].results) = {}
    BY <1>1 DEF Managed, OnceEach
  <2>3. o + i # k => ToSet(ms[o + i].uses) \cap ToSet(ms[k].uses) = {}
    BY <1>13, <2>1, <2>2
  <2>4. o + j # k + 1 => ToSet(ms[o + j].results) \cap ToSet(ms[k + 1].results) = {}
    BY <1>13, <2>1, <2>2
  <2> QED
    BY <1>13, <2>1, <2>3, <2>4
<1>15. j = i + 1
  BY <1>14
<1>16. ASSUME NEW q \in 1..Len(w), c \in IdsOf(w[q])
       PROVE  Hits(h, f, q)
  <2>1. IdsOf(w[q]) \in Groups(ms) /\ IdsOf(w[p]) \in Groups(ms)
    <3>1. o + q \in 1..Len(ms) /\ w[q] = ms[o + q] /\ o + p \in 1..Len(ms) /\ w[p] = ms[o + p]
      OBVIOUS
    <3> QED
      BY <1>1, <3>1 DEF Groups
  <2>2. IdsOf(w[q]) = IdsOf(w[p])
    BY <1>9, <1>16, <2>1 DEF Managed, Alike
  <2>3. w[q] \in S
    BY <1>5, <1>8, <2>2
  <2> QED
    BY <1>4, <2>3
<1>17. Hits(h, f, i) /\ Hits(h, f, j)
  BY <1>11, <1>16 DEF IdsOf
<1>18. i < j /\ \A q \in 1..Len(w) : ~ (i < q /\ q < j)
  BY <1>15
<1>19. Joined(f, c)
  BY <1>3, <1>4, <1>11, <1>17, <1>18, ThinJoined
<1> QED
  BY <1>6, <1>19

LEMMA SlideShortens ==
  ASSUME NEW ms, Managed(ms)
  PROVE  Shortens(Slide(ms), ms, {})
<1>1. /\ ms \in Seq(Message) /\ Len(ms) \in Nat /\ Len(ms) # 0
      /\ Proper(ms[1]) /\ ms[1] \in Message /\ IdsOf(ms[1]) = {}
  BY DEF Managed, ProperList, Proper
<1>2. WindowSize \in Nat \ {0}
  BY WindowAssumption
<1>3. CASE Len(ms) <= WindowSize + 1
  BY <1>3, ShortensItself DEF Slide
<1>4. CASE ~ (Len(ms) <= WindowSize + 1)
  <2> DEFINE w == LastN(ms, WindowSize)
             o == Len(ms) - WindowSize
             S == {m \in Message : ~HasBrokenTool(m, BrokenToolIds(w))}
             f == Filter(w, S)
             head == <<ms[1]>>
             s == head \o f
  <2>1. Slide(ms) = s
    BY <1>4 DEF Slide
  <2>2. Len(ms) > WindowSize
    BY <1>1, <1>2, <1>4
  <2>3. /\ o \in Nat \ {0} /\ w = SubSeq(ms, o + 1, Len(ms)) /\ Len(w) = WindowSize
        /\ w \in Seq(Message)
        /\ \A j \in 1..WindowSize : o + j \in 1..Len(ms) /\ w[j] = ms[o + j]
    BY <1>1, <1>2, <2>2, LastNIs
  <2>4. ProperList(w) /\ Groups(w) \subseteq Groups(ms) /\ OnceEach(w)
    <3>1. o + 1 \in Nat \ {0} /\ Len(ms) <= Len(ms)
      BY <1>1, <2>3
    <3> QED
      BY <1>1, <2>3, <3>1, PartHas DEF Managed
  <2>5. Orphans(f) \subseteq Orphans(ms)
    <3>1. Len(w) + o = Len(ms) /\ o \in Nat
      BY <1>1, <1>2, <2>3
    <3> HIDE DEF w, o
    <3> QED
      BY <2>3, <3>1, SlideOrphans
  <2> HIDE DEF w
  <2>6. f = Filter(w, S) /\ DOMAIN w = 1..Len(w)
    BY <2>3
  <2> HIDE DEF S, f
  <2>7. f \in Seq(Message) /\ Len(f) <= Len(w)
    BY <2>3, <2>6, FilterHas
  <2>8. \A n \in 1..Len(f) : \E i \in 1..Len(w) : f[n] = w[i] /\ w[i] \in S
    <3>1. w \in Seq(Message) /\ f = Filter(w, S)
      BY <2>3, <2>6
    <3> QED
      BY <3>1, FilterElement
  <2>9. PICK h : Thins(h, f, w)
    BY <2>3, <2>6, FilterHas
  <2>10. ProperList(f)
    <3>1. \A n \in 1..Len(f) : Proper(f[n])
      BY <2>4, <2>6, <2>8 DEF ProperList
    <3> QED
      BY <2>7, <3>1 DEF ProperList
  <2>11. OnceEach(f) /\ Groups(f) \subseteq Groups(ms)
    BY <2>3, <2>4, <2>7, <2>9, ThinOnce, ThinGroups
  <2>12. ProperList(head) /\ head # <<>> /\ Len(head) = 1 /\ \A i \in 1..Len(head) : IdsOf(head[i]) = {}
    BY <1>1 DEF ProperList
  <2> HIDE DEF head
  <2>13. /\ ProperList(s) /\ s # <<>> /\ IdsOf(s[1]) = {} /\ OnceEach(s)
         /\ Groups(s) \subseteq Groups(f) \cup {{}} /\ Orphans(s) \subseteq Orphans(f)
         /\ Len(s) = Len(head) + Len(f) /\ Len(f) \in Nat
    BY <2>10, <2>11, <2>12, PlainFirst
  <2> HIDE DEF s
  <2>14. Len(s) < Len(ms)
    BY <1>1, <1>2, <1>4, <2>3, <2>7, <2>12, <2>13
  <2>15. Len(s) <= Len(ms) /\ Len(s) # Len(ms)
    BY <1>1, <2>12, <2>13, <2>14
  <2>16. Shortens(s, ms, {})
    BY <2>5, <2>11, <2>13, <2>15 DEF Shortens
  <2> QED
    BY <2>1, <2>16
<1> QED
  BY <1>3, <1>4

(* The window one way or the other.                                        *)
Applies(cw, ms) ==
  /\ Shortens(cw.messages, ms, cw.cut)
  /\ cw.replaced \in BOOLEAN /\ (~cw.replaced => cw.messages = ms)

LEMMA CompactionApplies ==
  ASSUME NEW ms, Managed(ms), strategy \in Strategy, NEW c \in Compactions(ms)
  PROVE  Applies(c, ms)
<1>1. strategy \in {"none", "default", "sliding"}
  BY SessionAssumption
<1>2. CASE strategy = "sliding"
  <2>1. c = Outcome(Slide(ms), TRUE, {})
    BY <1>2 DEF Compactions
  <2>2. c.messages = Slide(ms) /\ c.replaced = TRUE /\ c.cut = {}
    BY <2>1 DEF Outcome
  <2> QED
    BY <2>2, SlideShortens DEF Applies
<1>3. CASE strategy = "default"
  <2>1. PICK d \in {Summarize(ms), HardTruncate(ms)} : c = Outcome(d, d # ms, Orphans(d))
    BY <1>3 DEF Compactions
  <2>2. c.messages = d /\ c.replaced = (d # ms) /\ c.cut = Orphans(d)
    BY <2>1 DEF Outcome
  <2>3. Shortens(d, ms, Orphans(d))
    BY SummaryShortens
  <2> QED
    BY <2>2, <2>3 DEF Applies
<1> QED
  BY <1>1, <1>2, <1>3 DEF Compactions

LEMMA WindowApplies ==
  ASSUME NEW ms, Managed(ms), strategy \in Strategy, NEW cw \in ApplyContextWindow(ms)
  PROVE  Applies(cw, ms)
<1> DEFINE u == Outcome(ms, FALSE, {})
<1>1. Applies(u, ms) /\ Managed(u.messages) /\ Len(u.messages) = Len(ms) /\ u.cut = {}
  BY ShortensItself DEF Applies, Outcome
<1>2. Applies(Pruned(ms), ms) /\ Managed(Pruned(ms).messages)
      /\ Len(Pruned(ms).messages) = Len(ms) /\ Pruned(ms).cut = {}
  <2>1. /\ Pruned(ms).messages = Prune(ms) /\ Pruned(ms).cut = {}
        /\ Pruned(ms).replaced = (PrunableIds(ms) # {})
    BY DEF Pruned, Outcome
  <2> QED
    BY <2>1, PruneShortens DEF Applies
<1>3. PICK p : /\ p \in {u, Pruned(ms)}
               /\ \/ cw = p
                  \/ \E c \in Compactions(p.messages) :
                       cw = Outcome(c.messages, p.replaced \/ c.replaced, c.cut)
  <2> DEFINE P == IF strategy = "none" THEN {u} ELSE {u, Pruned(ms)}
             C(p) == {Outcome(c.messages, p.replaced \/ c.replaced, c.cut) : c \in Compactions(p.messages)}
  <2>1. cw \in P \cup UNION {C(p) : p \in P}
    BY Zenon DEF ApplyContextWindow
  <2>2. P \subseteq {u, Pruned(ms)}
    OBVIOUS
  <2> HIDE DEF P
  <2>3. CASE cw \in P
    BY <2>2, <2>3
  <2>4. ASSUME NEW p \in P, cw \in C(p)
        PROVE  \E c \in Compactions(p.messages) :
                 cw = Outcome(c.messages, p.replaced \/ c.replaced, c.cut)
    BY <2>4
  <2> QED
    BY <2>1, <2>2, <2>3, <2>4
<1> HIDE DEF u
<1>4. Applies(p, ms) /\ Managed(p.messages) /\ Len(p.messages) = Len(ms) /\ p.cut = {}
  BY <1>1, <1>2, <1>3
<1>5. CASE cw = p
  BY <1>4, <1>5
<1>6. ASSUME NEW c \in Compactions(p.messages),
             cw = Outcome(c.messages, p.replaced \/ c.replaced, c.cut)
      PROVE  Applies(cw, ms)
  <2>1. Applies(c, p.messages)
    BY <1>4, CompactionApplies
  <2>2. cw.messages = c.messages /\ cw.replaced = (p.replaced \/ c.replaced) /\ cw.cut = c.cut
    BY <1>6 DEF Outcome
  <2> DEFINE d == c.messages
             q == p.messages
  <2>3. Shortens(d, q, c.cut) /\ Shortens(q, ms, {})
    BY <1>4, <2>1 DEF Applies
  <2> HIDE DEF d, q
  <2>4. Len(q) = Len(ms)
    BY <1>4 DEF q
  <2>5. Shortens(d, ms, c.cut)
    BY <2>3, <2>4 DEF Shortens
  <2>6. cw.replaced \in BOOLEAN /\ (~cw.replaced => d = ms)
    BY <1>4, <2>1, <2>2 DEF Applies, d
  <2> QED
    BY <2>2, <2>5, <2>6 DEF Applies, d
<1> QED
  BY <1>3, <1>5, <1>6

-----------------------------------------------------------------------------
(* The calls of a turn and their results.                                  *)

Call == [id : Id, kind : Kind]

LEMMA BoundsAreNat == MaxIds \in Nat /\ MaxIterations \in Nat \ {0} /\ Id \subseteq Nat
BY SessionAssumption DEF Id

LEMMA IdsAre ==
  ASSUME NEW cs \in Seq(Call)
  PROVE  /\ Ids(cs) \in Seq(Id) /\ Len(Ids(cs)) = Len(cs)
         /\ \A x : x \in ToSet(Ids(cs)) <=> \E i \in 1..Len(cs) : cs[i].id = x
<1>1. Len(cs) \in Nat /\ DOMAIN cs = 1..Len(cs) /\ \A i \in 1..Len(cs) : cs[i].id \in Id
  <2>1. \A i \in 1..Len(cs) : cs[i] \in Call
    OBVIOUS
  <2> QED
    BY <2>1 DEF Call
<1> DEFINE t == Ids(cs)
<1>2. t = [i \in 1..Len(cs) |-> cs[i].id]
  BY <1>1 DEF Ids
<1> HIDE DEF t
<1>3. t \in [1..Len(cs) -> Id] /\ \A i \in 1..Len(cs) : t[i] = cs[i].id
  BY <1>1, <1>2
<1>4. t \in Seq(Id) /\ Len(t) = Len(cs)
  BY <1>1, <1>3, Tabulated
<1>5. \A x : x \in ToSet(t) <=> \E i \in 1..Len(cs) : cs[i].id = x
  BY <1>3 DEF ToSet
<1> QED
  BY <1>4, <1>5 DEF t

LEMMA OfKindHas ==
  ASSUME call \in Seq(Call), NEW kind \in Kind
  PROVE  /\ OfKind(kind) \in Seq(Call) /\ Len(OfKind(kind)) \in Nat
         /\ \A x : (\E n \in 1..Len(OfKind(kind)) : OfKind(kind)[n].id = x) <=>
                     \E i \in 1..Len(call) : call[i].id = x /\ call[i].kind = kind
<1> DEFINE S == [id : Id, kind : {kind}]
           f == OfKind(kind)
<1>1. f = Filter(call, S)
  BY DEF OfKind
<1> HIDE DEF f
<1>2. Filtered(Call, call, S)
  BY FilterPicks
<1>3. f \in Seq(Call)
  BY <1>1, <1>2 DEF Filtered
<1>4. PICK h : Picks(h, f, call, S)
  BY <1>1, <1>2 DEF Filtered
<1>5. \A i \in 1..Len(call) : call[i] \in S <=> call[i].kind = kind
  <2> TAKE i \in 1..Len(call)
  <2>1. call[i] \in Call
    OBVIOUS
  <2> QED
    BY <2>1 DEF Call
<1> HIDE DEF S
<1>6. /\ \A n \in 1..Len(f) : h[n] \in 1..Len(call) /\ f[n] = call[h[n]] /\ f[n] \in S
      /\ \A i \in 1..Len(call) : call[i] \in S => \E n \in 1..Len(f) : h[n] = i
  BY <1>4 DEF Picks
<1>7. \A x : (\E n \in 1..Len(f) : f[n].id = x) =>
               \E i \in 1..Len(call) : call[i].id = x /\ call[i].kind = kind
  BY <1>5, <1>6
<1>8. ASSUME NEW x, NEW i \in 1..Len(call), call[i].id = x, call[i].kind = kind
      PROVE  \E n \in 1..Len(f) : f[n].id = x
  <2>1. PICK n \in 1..Len(f) : h[n] = i
    BY <1>5, <1>6, <1>8
  <2> QED
    BY <1>6, <1>8, <2>1
<1>9. Len(f) \in Nat
  BY <1>3
<1> QED
  BY <1>3, <1>7, <1>8, <1>9 DEF f

LEMMA TurnIdsAre ==
  ASSUME call \in Seq(Call)
  PROVE  /\ Ids(call) \in Seq(Id) /\ Len(Ids(call)) = Len(call) /\ TurnIds \subseteq Id
         /\ \A x : x \in TurnIds <=> \E i \in 1..Len(call) : call[i].id = x
<1>1. /\ Ids(call) \in Seq(Id) /\ Len(Ids(call)) = Len(call)
      /\ \A x : x \in ToSet(Ids(call)) <=> \E i \in 1..Len(call) : call[i].id = x
  BY IdsAre
<1>2. \A i \in 1..Len(call) : call[i].id \in Id
  <2>1. \A i \in 1..Len(call) : call[i] \in Call
    OBVIOUS
  <2> QED
    BY <2>1 DEF Call
<1> QED
  BY <1>1, <1>2 DEF TurnIds

(* The results of a turn are those of its calls.                           *)
LEMMA ResultsAreAll ==
  ASSUME call \in Seq(Call)
  PROVE  AllResults \in Seq(Id) /\ ToSet(AllResults) = TurnIds
<1> DEFINE s == OfKind("sync")
           b == OfKind("background")
           h == OfKind("handoff")
           all == (s \o b) \o h
<1>1. {"sync", "background", "handoff"} = Kind
  BY DEF Kind
<1>2. /\ s \in Seq(Call)
      /\ \A x : (\E n \in 1..Len(s) : s[n].id = x) <=>
                  \E i \in 1..Len(call) : call[i].id = x /\ call[i].kind = "sync"
  BY <1>1, OfKindHas
<1>3. /\ b \in Seq(Call)
      /\ \A x : (\E n \in 1..Len(b) : b[n].id = x) <=>
                  \E i \in 1..Len(call) : call[i].id = x /\ call[i].kind = "background"
  BY <1>1, OfKindHas
<1>4. /\ h \in Seq(Call)
      /\ \A x : (\E n \in 1..Len(h) : h[n].id = x) <=>
                  \E i \in 1..Len(call) : call[i].id = x /\ call[i].kind = "handoff"
  BY <1>1, OfKindHas
<1>5. AllResults = Ids(all)
  BY DEF AllResults
<1> HIDE DEF s, b, h
<1>6. /\ s \o b \in Seq(Call)
      /\ \A x : (\E n \in 1..Len(s \o b) : (s \o b)[n].id = x) <=>
                  \/ \E n \in 1..Len(s) : s[n].id = x
                  \/ \E n \in 1..Len(b) : b[n].id = x
  <2>1. /\ s \o b \in Seq(Call)
        /\ \A i \in 1..Len(s) : i \in 1..Len(s \o b) /\ (s \o b)[i] = s[i]
        /\ \A i \in 1..Len(b) : Len(s) + i \in 1..Len(s \o b) /\ (s \o b)[Len(s) + i] = b[i]
        /\ \A i \in 1..Len(s \o b) : \/ i \in 1..Len(s) /\ (s \o b)[i] = s[i]
                                     \/ i - Len(s) \in 1..Len(b) /\ (s \o b)[i] = b[i - Len(s)]
    BY <1>2, <1>3, ConcatAt
  <2> DEFINE sb == s \o b
  <2> HIDE DEF sb
  <2> QED
    BY <2>1 DEF sb
<1> DEFINE sb == s \o b
<1> HIDE DEF sb
<1>7. all = sb \o h /\ sb \in Seq(Call)
  BY <1>6 DEF sb
<1>8. /\ sb \o h \in Seq(Call)
      /\ \A x : (\E n \in 1..Len(sb \o h) : (sb \o h)[n].id = x) <=>
                  \/ \E n \in 1..Len(sb) : sb[n].id = x
                  \/ \E n \in 1..Len(h) : h[n].id = x
  <2>1. /\ sb \o h \in Seq(Call)
        /\ \A i \in 1..Len(sb) : i \in 1..Len(sb \o h) /\ (sb \o h)[i] = sb[i]
        /\ \A i \in 1..Len(h) : Len(sb) + i \in 1..Len(sb \o h) /\ (sb \o h)[Len(sb) + i] = h[i]
        /\ \A i \in 1..Len(sb \o h) : \/ i \in 1..Len(sb) /\ (sb \o h)[i] = sb[i]
                                      \/ i - Len(sb) \in 1..Len(h) /\ (sb \o h)[i] = h[i - Len(sb)]
    BY <1>4, <1>7, ConcatAt
  <2> QED
    BY <2>1
<1> HIDE DEF all
<1>9. all \in Seq(Call)
  BY <1>7, <1>8
<1>10. \A i \in 1..Len(call) : call[i].kind \in {"sync", "background", "handoff"}
  <2>1. \A i \in 1..Len(call) : call[i] \in Call
    OBVIOUS
  <2> QED
    BY <1>1, <2>1 DEF Call
<1>11. ASSUME NEW x
       PROVE  (\E n \in 1..Len(all) : all[n].id = x) <=> \E i \in 1..Len(call) : call[i].id = x
  <2> DEFINE Has(t) == \E n \in 1..Len(t) : t[n].id = x
             Of(kind) == \E i \in 1..Len(call) : call[i].id = x /\ call[i].kind = kind
  <2>1. Has(s) <=> Of("sync")
    BY <1>2
  <2>2. Has(b) <=> Of("background")
    BY <1>3
  <2>3. Has(h) <=> Of("handoff")
    BY <1>4
  <2>4. Has(sb) <=> Has(s) \/ Has(b)
    BY <1>6 DEF sb
  <2>5. Has(all) <=> Has(sb) \/ Has(h)
    BY <1>7, <1>8
  <2>6. (\E i \in 1..Len(call) : call[i].id = x) <=> Of("sync") \/ Of("background") \/ Of("handoff")
    BY <1>10
  <2> HIDE DEF Of
  <2> QED
    BY <2>1, <2>2, <2>3, <2>4, <2>5, <2>6
<1>12. /\ Ids(all) \in Seq(Id)
       /\ \A x : x \in ToSet(Ids(all)) <=> \E i \in 1..Len(all) : all[i].id = x
  BY <1>9, IdsAre
<1> QED
  BY <1>5, <1>11, <1>12, TurnIdsAre

LEMMA RunningAreCalls ==
  ASSUME call \in Seq(Call)
  PROVE  RunningCalls \subseteq TurnIds
<1> DEFINE s == OfKind("sync")
           w == Filter(Ids(s), Id \ settled)
           k == IF Len(w) < ToolConcurrency THEN Len(w) ELSE ToolConcurrency
           t == SubSeq(w, 1, k)
<1>1. /\ s \in Seq(Call)
      /\ \A x : (\E n \in 1..Len(s) : s[n].id = x) =>
                  \E i \in 1..Len(call) : call[i].id = x
  <2>1. "sync" \in Kind
    BY DEF Kind
  <2> HIDE DEF s
  <2>2. /\ s \in Seq(Call)
        /\ \A x : (\E n \in 1..Len(s) : s[n].id = x) <=>
                    \E i \in 1..Len(call) : call[i].id = x /\ call[i].kind = "sync"
    BY <2>1, OfKindHas DEF s
  <2> QED
    BY <2>2
<1>2. RunningCalls = ToSet(t)
  BY DEF RunningCalls
<1> HIDE DEF s
<1>3. Ids(s) \in Seq(Id) /\ \A x : x \in ToSet(Ids(s)) => x \in TurnIds
  BY <1>1, IdsAre, TurnIdsAre
<1>4. Filtered(Id, Ids(s), Id \ settled)
  BY <1>3, FilterPicks
<1>5. w \in Seq(Id)
  BY <1>4 DEF Filtered
<1>6. PICK h : Picks(h, w, Ids(s), Id \ settled)
  BY <1>4 DEF Filtered
<1> HIDE DEF w
<1>7. \A n \in 1..Len(w) : w[n] \in TurnIds
  <2> TAKE n \in 1..Len(w)
  <2>1. w[n] = Ids(s)[h[n]] /\ h[n] \in 1..Len(Ids(s))
    BY <1>6 DEF Picks
  <2>2. w[n] \in ToSet(Ids(s))
    BY <1>3, <2>1 DEF ToSet
  <2> QED
    BY <1>3, <2>2
<1>8. k \in Nat /\ k <= Len(w) /\ 1 \in Nat \ {0}
  BY <1>5, SessionAssumption
<1> HIDE DEF k
<1>9. t \in Seq(Id) /\ \A n \in 1..Len(t) : (1 + n) - 1 \in 1..Len(w) /\ t[n] = w[(1 + n) - 1]
  BY <1>5, <1>8, PartAt
<1> HIDE DEF t
<1>10. DOMAIN t = 1..Len(t)
  BY <1>9
<1> QED
  BY <1>2, <1>7, <1>9, <1>10 DEF ToSet

LEMMA CallMessageIs ==
  ASSUME NEW ids \in Seq(Nat)
  PROVE  LET m == CallMessage(ids)
         IN  /\ m \in Message /\ Proper(m) /\ Said(m) /\ m.uses = ids /\ m.results = <<>>
             /\ IdsOf(m) = ToSet(ids)
<1> DEFINE m == CallMessage(ids)
<1>1. /\ m \in Message /\ m.uses = ids /\ m.results = <<>> /\ m.role = "assistant"
      /\ m.pruned = {} /\ m.text = "none"
  BY DEF CallMessage, Message, Text
<1> HIDE DEF m
<1> QED
  BY <1>1, EmptySet DEF Proper, Said, IdsOf, m

LEMMA ResultMessageIs ==
  ASSUME NEW ids \in Seq(Nat)
  PROVE  LET m == ResultMessage(ids)
         IN  /\ m \in Message /\ Proper(m) /\ Said(m) /\ m.uses = <<>> /\ m.results = ids
             /\ IdsOf(m) = ToSet(ids)
<1> DEFINE m == ResultMessage(ids)
<1>1. /\ m \in Message /\ m.uses = <<>> /\ m.results = ids /\ m.role = "user"
      /\ m.pruned = {} /\ m.text = "none"
  BY DEF ResultMessage, Message, Text
<1> HIDE DEF m
<1> QED
  BY <1>1, EmptySet DEF Proper, Said, IdsOf, m

LEMMA SeqOfNat ==
  ASSUME NEW s \in Seq(Id)
  PROVE  s \in Seq(Nat)
BY BoundsAreNat, SeqMonotonic

(* One message more.                                                       *)
LEMMA OneMore ==
  ASSUME NEW s, ProperList(s), NEW m, Proper(m)
  PROVE  LET t == s \o <<m>>
         IN  /\ ProperList(t) /\ t \in Seq(Message) /\ s \in Seq(Message) /\ <<m>> \in Seq(Message)
             /\ t # <<>> /\ Len(s) \in Nat /\ Len(t) = Len(s) + 1 /\ t[Len(t)] = m
             /\ \A i \in 1..Len(s) : t[i] = s[i]
             /\ Groups(t) = Groups(s) \cup {IdsOf(m)}
<1> DEFINE t == s \o <<m>>
<1>1. s \in Seq(Message)
  BY DEF ProperList
<1>2. m \in Message
  BY DEF Proper
<1>3. <<m>> \in Seq(Message) /\ Len(<<m>>) = 1 /\ <<m>>[1] = m /\ DOMAIN <<m>> = 1..1
  BY <1>2
<1>4. ProperList(<<m>>)
  BY <1>3 DEF ProperList
<1>5. ProperList(t)
  BY <1>4, ProperJoin
<1>6. Groups(<<m>>) = {IdsOf(m)}
  BY <1>3 DEF Groups
<1>7. Groups(t) = Groups(s) \cup {IdsOf(m)}
  BY <1>1, <1>3, <1>6, GroupsJoin
<1>8. /\ t \in Seq(Message) /\ Len(s) \in Nat /\ Len(t) = Len(s) + 1
      /\ \A i \in 1..Len(s) : t[i] = s[i]
  BY <1>1, <1>3, ConcatAt
<1>9. t[Len(s) + 1] = m
  <2>1. \A i \in 1..Len(<<m>>) : t[Len(s) + i] = <<m>>[i]
    BY <1>1, <1>3, ConcatAt
  <2> QED
    BY <1>3, <2>1
<1> HIDE DEF t
<1>10. t # <<>>
  <2>1. Len(t) # 0
    BY <1>8
  <2> QED
    BY <2>1
<1> QED
  BY <1>1, <1>3, <1>5, <1>7, <1>8, <1>9, <1>10 DEF t

LEMMA OnceMore ==
  ASSUME NEW s \in Seq(Message), NEW m \in Message, OnceEach(s),
         \A i \in 1..Len(s) : /\ ToSet(m.uses) \cap ToSet(s[i].uses) = {}
                              /\ ToSet(m.results) \cap ToSet(s[i].results) = {}
  PROVE  OnceEach(s \o <<m>>)
<1> DEFINE t == s \o <<m>>
<1>1. <<m>> \in Seq(Message) /\ Len(<<m>>) = 1 /\ <<m>>[1] = m
  OBVIOUS
<1>2. /\ t \in Seq(Message) /\ Len(s) \in Nat /\ Len(t) = Len(s) + Len(<<m>>)
      /\ \A i \in 1..Len(s) : t[i] = s[i]
      /\ \A i \in 1..Len(<<m>>) : t[Len(s) + i] = <<m>>[i]
  BY <1>1, ConcatAt
<1>3. /\ t \in Seq(Message) /\ Len(s) \in Nat /\ Len(t) = Len(s) + 1
      /\ \A i \in 1..Len(s) : t[i] = s[i]
      /\ t[Len(s) + 1] = m
  BY <1>1, <1>2
<1> HIDE DEF t
<1>4. /\ DOMAIN t = 1..Len(t) /\ DOMAIN s = 1..Len(s)
      /\ \A i \in 1..Len(t) : i \in 1..Len(s) \/ i = Len(s) + 1
  BY <1>3
<1> SUFFICES ASSUME NEW i \in 1..Len(t), NEW j \in 1..Len(t), i # j
             PROVE  /\ ToSet(t[i].uses) \cap ToSet(t[j].uses) = {}
                    /\ ToSet(t[i].results) \cap ToSet(t[j].results) = {}
  BY <1>4 DEF OnceEach, t
<1>5. CASE i \in 1..Len(s) /\ j \in 1..Len(s)
  BY <1>3, <1>4, <1>5 DEF OnceEach
<1>6. CASE i = Len(s) + 1 /\ j \in 1..Len(s)
  BY <1>3, <1>6
<1>7. CASE j = Len(s) + 1 /\ i \in 1..Len(s)
  <2>1. t[j] = m /\ t[i] = s[i]
    BY <1>3, <1>7
  <2> QED
    BY <1>7, <2>1
<1> QED
  BY <1>4, <1>5, <1>6, <1>7

(* An answer's results right after its calls.                              *)
LEMMA Answered ==
  ASSUME NEW s \in Seq(Message), s # <<>>, NEW m \in Message, NEW X,
         ToSet(m.results) = ToSet(s[Len(s)].uses), IdsOf(m) \subseteq ToSet(m.results),
         Orphans(s) \subseteq X \cup ToSet(m.results)
  PROVE  Orphans(s \o <<m>>) \subseteq X
<1> DEFINE t == s \o <<m>>
<1>1. <<m>> \in Seq(Message) /\ Len(<<m>>) = 1 /\ <<m>>[1] = m /\ DOMAIN <<m>> = 1..1
  OBVIOUS
<1>2. /\ t \in Seq(Message) /\ Len(s) \in Nat /\ Len(t) = Len(s) + Len(<<m>>)
      /\ \A i \in 1..Len(s) : t[i] = s[i]
      /\ \A i \in 1..Len(<<m>>) : t[Len(s) + i] = <<m>>[i]
  BY <1>1, ConcatAt
<1>3. Len(s) # 0
  OBVIOUS
<1>4. /\ t \in Seq(Message) /\ Len(s) \in 1..Len(s) /\ Len(t) = Len(s) + 1
      /\ t[Len(s)] = s[Len(s)] /\ t[Len(s) + 1] = m
      /\ Len(s) \in 1..Len(t) /\ Len(s) + 1 \in 1..Len(t)
  BY <1>1, <1>2, <1>3
<1>5. Orphans(t) \subseteq Orphans(s) \cup Orphans(<<m>>)
  BY <1>1, OrphansJoin
<1>6. ASSUME NEW c \in Orphans(<<m>>)
      PROVE  c \in IdsOf(m)
  <2> DEFINE l == <<m>>
  <2>1. \E i \in DOMAIN l : c \in IdsOf(l[i])
    BY OrphansAre
  <2> QED
    BY <1>1, <2>1
<1> HIDE DEF t
<1>7. \A c \in ToSet(m.results) : Joined(t, c)
  <2>1. DOMAIN t = 1..Len(t)
    BY <1>4
  <2> QED
    BY <1>4, <2>1 DEF Joined
<1>8. \A c \in ToSet(m.results) : c \notin Orphans(t)
  BY <1>7, OrphansAre
<1> QED
  BY <1>5, <1>6, <1>8 DEF t

LEMMA EmptyList ==
  /\ ProperList(<<>>) /\ Orphans(<<>>) = {} /\ Groups(<<>>) = {} /\ OnceEach(<<>>)
  /\ Ids(<<>>) = <<>> /\ FromStored(<<>>) = <<>>
<1>1. <<>> \in Seq(Message) /\ Len(<<>>) = 0 /\ DOMAIN <<>> = {}
  OBVIOUS
<1>2. ProperList(<<>>) /\ Groups(<<>>) = {} /\ OnceEach(<<>>) /\ Orphans(<<>>) = {}
  <2>1. Orphans(<<>>) = {}
    BY <1>1 DEF Orphans, UseIds, ResultIds
  <2> QED
    BY <1>1, <2>1 DEF ProperList, Groups, OnceEach
<1>3. Ids(<<>>) = <<>>
  BY DEF Ids
<1>4. FromStored(<<>>) = <<>>
  <2>1. [i \in DOMAIN <<>> |-> Loaded(<<>>[i])] = <<>>
    OBVIOUS
  <2> QED
    BY <2>1, FilterEmpty DEF FromStored
<1> QED
  BY <1>2, <1>3, <1>4

-----------------------------------------------------------------------------
(* Taken together they are inductive.                                      *)

IInv ==
  ShapeInv /\ SaidInv /\ KeptInv /\ SavedInv /\ GroupInv /\ OnceInv /\ TurnInv /\ PairInv

LEMMA NoHandoffs ==
  ASSUME NEW S
  PROVE  Filter(<<>>, S) = <<>> /\ Len(<<>>) = 0 /\ <<>> \in Seq(Call)
BY FilterEmpty

LEMMA ShapeHas ==
  ASSUME ShapeInv
  PROVE  /\ ProperList(store) /\ ProperList(unsaved) /\ ProperList(messages)
         /\ ProperList(kept) /\ ProperList(said)
         /\ call \in Seq(Call)
BY DEF ShapeInv, Call

LEMMA ListsAre ==
  ASSUME ShapeInv
  PROVE  /\ store \in Seq(Message) /\ unsaved \in Seq(Message) /\ messages \in Seq(Message)
         /\ kept \in Seq(Message) /\ said \in Seq(Message)
BY ShapeHas DEF ProperList

LEMMA InitInv ==
  ASSUME Init
  PROVE  IInv
<1>0. /\ store = <<>> /\ unsaved = <<>> /\ messages = <<>> /\ kept = <<>> /\ said = <<>>
      /\ call = <<>> /\ pc = "idle" /\ start = 0 /\ lastId = 0 /\ shared = TRUE
      /\ compacted = FALSE /\ excused = {} /\ settled = {} /\ handed.count = 0
      /\ iteration = 0 /\ strategy \in Strategy
  BY DEF Init, NotHanded
<1>1. TurnIds = {}
  BY <1>0, EmptyList, EmptySet DEF TurnIds
<1>2. Len(OfKind("handoff")) = 0
  BY <1>0, NoHandoffs DEF OfKind
<1>3. ShapeInv
  <2>1. \A ms \in {store, unsaved, messages, kept, said} : ProperList(ms)
    BY <1>0, EmptyList
  <2>2. call \in Seq([id : Id, kind : Kind])
    BY <1>0
  <2>3. iteration \in 0..MaxIterations /\ handed.count \in 0..Len(OfKind("handoff"))
    BY <1>0, <1>2, BoundsAreNat
  <2> QED
    BY <1>0, <1>1, <2>1, <2>2, <2>3 DEF ShapeInv
<1>4. SaidInv /\ SavedInv
  BY <1>0 DEF SaidInv, SavedInv
<1>5. KeptInv
  <2>1. KeptFrom(0) /\ 0 \in 0..Len(kept)
    BY <1>0 DEF KeptFrom
  <2> QED
    BY <2>1 DEF KeptInv
<1>6. AllGroups = {{}}
  BY <1>0, <1>1, EmptyList DEF AllGroups
<1>7. GroupInv
  BY <1>0, <1>6 DEF GroupInv, Alike
<1>8. OnceInv
  <2>1. <<>> \o <<>> = <<>>
    OBVIOUS
  <2> QED
    BY <1>0, <2>1, EmptyList DEF OnceInv
<1>9. TurnInv /\ PairInv
  BY <1>0, EmptyList DEF TurnInv, PairInv
<1> QED
  BY <1>3, <1>4, <1>5, <1>7, <1>8, <1>9 DEF IInv

LEMMA BeganStay ==
  ASSUME IInv, pc \notin {"idle", "persist"}, pc' # "persist", UNCHANGED <<store, began>>
  PROVE  SavedInv'
BY DEF IInv, SavedInv

LEMMA AlikePart ==
  ASSUME NEW A, Alike(A), NEW B, B \subseteq A \cup {{}}
  PROVE  Alike(B)
BY DEF Alike

LEMMA GroupsStay ==
  ASSUME GroupInv, AllGroups' \subseteq AllGroups \cup {{}},
         lastId \in Nat, lastId' \in Nat, lastId <= lastId'
  PROVE  GroupInv'
<1>1. Alike(AllGroups')
  BY AlikePart DEF GroupInv
<1>2. UNION (AllGroups') \subseteq 1..lastId'
  <2>1. UNION (AllGroups') \subseteq UNION AllGroups
    OBVIOUS
  <2>2. 1..lastId \subseteq 1..lastId'
    OBVIOUS
  <2> QED
    BY <2>1, <2>2 DEF GroupInv
<1>3. (Alike(AllGroups))' = Alike(AllGroups')
  BY DEF Alike
<1> QED
  BY <1>1, <1>2, <1>3 DEF GroupInv

LEMMA StoreOnce ==
  ASSUME ShapeInv, OnceInv
  PROVE  OnceEach(store)
BY ListsAre, OnceFirst DEF OnceInv

(* A run that is over leaves nothing behind but what it stored.            *)
LEMMA LeaveStep ==
  ASSUME IInv, Leave, store' = store, strategy' = strategy, lastId' = lastId,
         Orphans(FromStored(store)) \subseteq excused'
  PROVE  IInv'
<1>i. ShapeInv /\ SaidInv /\ GroupInv /\ OnceInv
  BY DEF IInv
<1>0. /\ unsaved' = <<>> /\ messages' = <<>> /\ kept' = <<>> /\ said' = <<>>
      /\ call' = <<>> /\ pc' = "idle" /\ start' = 0 /\ shared' = TRUE
      /\ compacted' = FALSE /\ settled' = {} /\ handed'.count = 0 /\ iteration' = 0
  BY DEF Leave, NotHanded
<1>1. TurnIds' = {}
  BY <1>0, EmptyList, EmptySet DEF TurnIds
<1>2. Len(OfKind("handoff")') = 0
  BY <1>0, NoHandoffs DEF OfKind
<1>3. ShapeInv'
  <2>1. \A ms \in {store', unsaved', messages', kept', said'} : ProperList(ms)
    BY <1>i, <1>0, EmptyList, ShapeHas
  <2>2. call' \in Seq([id : Id, kind : Kind])
    BY <1>0
  <2>3. iteration' \in 0..MaxIterations /\ handed'.count \in 0..Len(OfKind("handoff")')
    BY <1>0, <1>2, BoundsAreNat
  <2>4. strategy' \in Strategy /\ lastId' \in Nat
    BY <1>i DEF ShapeInv
  <2> QED
    BY <1>0, <1>1, <2>1, <2>2, <2>3, <2>4 DEF ShapeInv
<1>4. SaidInv' /\ SavedInv'
  BY <1>i, <1>0 DEF SaidInv, SavedInv
<1>5. KeptInv'
  <2>1. (KeptFrom(0))' /\ 0 \in 0..Len(kept')
    BY <1>0 DEF KeptFrom
  <2> QED
    BY <2>1 DEF KeptInv
<1>6. AllGroups' \subseteq AllGroups \cup {{}}
  BY <1>0, <1>1, EmptyList DEF AllGroups
<1>7. GroupInv'
  BY <1>i, <1>6, GroupsStay DEF ShapeInv
<1>8. OnceInv'
  <2>1. store \o <<>> = store
    BY <1>i, ListsAre
  <2> QED
    BY <1>i, <1>0, <2>1, EmptyList, StoreOnce DEF OnceInv
<1>9. TurnInv' /\ PairInv'
  BY <1>0, EmptyList DEF TurnInv, PairInv
<1> QED
  BY <1>3, <1>4, <1>5, <1>7, <1>8, <1>9 DEF IInv

(* A message without calls.                                                *)
PlainEnd(t, s) ==
  /\ ProperList(t) /\ OnceEach(t) /\ s \in Seq(Message)
  /\ Groups(t) \subseteq Groups(s) \cup {{}} /\ Orphans(t) \subseteq Orphans(s)
  /\ s # <<>> => t # <<>> /\ t[1] = s[1]

LEMMA PlainMore ==
  ASSUME NEW s, ProperList(s), OnceEach(s), NEW m, Proper(m), IdsOf(m) = {}
  PROVE  PlainEnd(s \o <<m>>, s)
<1> DEFINE t == s \o <<m>>
<1>1. s \in Seq(Message) /\ Len(s) \in Nat
  BY DEF ProperList
<1>2. /\ ProperList(t) /\ <<m>> \in Seq(Message) /\ t # <<>> /\ Len(t) = Len(s) + 1
      /\ \A i \in 1..Len(s) : t[i] = s[i]
      /\ Groups(t) = Groups(s) \cup {{}}
  <2>1. /\ ProperList(t) /\ <<m>> \in Seq(Message) /\ t # <<>> /\ Len(t) = Len(s) + 1
        /\ Groups(t) = Groups(s) \cup {IdsOf(m)}
    BY OneMore
  <2>2. \A i \in 1..Len(s) : t[i] = s[i]
    BY OneMore
  <2> QED
    BY <2>1, <2>2
<1>3. m \in Message /\ ToSet(m.uses) = {} /\ ToSet(m.results) = {}
  BY DEF Proper, IdsOf
<1>4. OnceEach(t)
  BY <1>1, <1>3, OnceMore
<1>5. Len(<<m>>) = 1 /\ \A i \in 1..Len(<<m>>) : IdsOf(<<m>>[i]) = {}
  OBVIOUS
<1>6. Orphans(<<m>>) = {}
  BY <1>2, <1>5, PlainOrphans
<1>7. Orphans(t) \subseteq Orphans(s)
  BY <1>1, <1>2, <1>6, OrphansJoin
<1> HIDE DEF t
<1>8. s # <<>> => t[1] = s[1]
  <2>1. s # <<>> => Len(s) # 0
    BY <1>1
  <2> QED
    BY <1>1, <1>2, <2>1
<1>9. PlainEnd(t, s)
  BY <1>1, <1>2, <1>4, <1>7, <1>8 DEF PlainEnd
<1> QED
  BY <1>9 DEF t

LEMMA PlainNone ==
  ASSUME NEW s, ProperList(s), OnceEach(s)
  PROVE  PlainEnd(s \o <<>>, s)
<1>1. s \in Seq(Message)
  BY DEF ProperList
<1>2. s \o <<>> = s
  BY <1>1
<1> QED
  BY <1>1, <1>2 DEF PlainEnd

(* The messages of a run that starts.                                      *)
LEMMA FullList ==
  ASSUME NEW past, ProperList(past), OnceEach(past),
         NEW snapshot \in {<<>>, <<TextMessage("user", "memory")>>}
  PROVE  LET ms == <<Prompt>> \o past \o snapshot \o <<Input>>
         IN  /\ ProperList(ms) /\ OnceEach(ms)
             /\ ms # <<>> /\ IdsOf(ms[1]) = {} /\ ms[Len(ms)] = Input
             /\ Groups(ms) \subseteq Groups(past) \cup {{}} /\ Orphans(ms) \subseteq Orphans(past)
             /\ Len(past) \in Nat /\ Len(snapshot) \in {0, 1}
             /\ Len(ms) = 2 + Len(past) + Len(snapshot)
<1> DEFINE snap == TextMessage("user", "memory")
           head == <<Prompt>>
           old == head \o past
           more == old \o snapshot
           ms == more \o <<Input>>
<1>1. Prompt \in Message /\ Proper(Prompt) /\ IdsOf(Prompt) = {} /\ Proper(snap) /\ IdsOf(snap) = {}
  BY TextMessageIs DEF Prompt, Text
<1>2. snapshot = <<>> \/ snapshot = <<snap>>
  OBVIOUS
<1>3. /\ head \in Seq(Message) /\ Len(head) = 1 /\ head # <<>>
      /\ \A i \in 1..Len(head) : Proper(head[i]) /\ IdsOf(head[i]) = {}
  <2>1. head \in Seq(Message) /\ Len(head) = 1 /\ head # <<>> /\ head[1] = Prompt
    BY <1>1
  <2>2. \A i \in 1..Len(head) : i = 1
    BY <2>1
  <2> QED
    BY <1>1, <2>1, <2>2
<1> HIDE DEF snap, head
<1>4. ProperList(head)
  BY <1>3 DEF ProperList
<1>5. /\ ProperList(old) /\ old # <<>> /\ IdsOf(old[1]) = {} /\ OnceEach(old)
      /\ Groups(old) \subseteq Groups(past) \cup {{}} /\ Orphans(old) \subseteq Orphans(past)
      /\ Len(old) = 1 + Len(past) /\ Len(past) \in Nat
  BY <1>3, <1>4, PlainFirst
<1> HIDE DEF old
<1>6. PlainEnd(more, old) /\ Len(snapshot) \in {0, 1} /\ Len(more) = Len(old) + Len(snapshot)
  <2>1. CASE snapshot = <<>>
    <3>1. PlainEnd(old \o <<>>, old)
      BY <1>5, PlainNone
    <3>2. old \o <<>> = old /\ Len(<<>>) = 0
      BY <3>1 DEF PlainEnd
    <3> QED
      BY <1>5, <2>1, <3>1, <3>2
  <2>2. CASE snapshot = <<snap>>
    <3>1. PlainEnd(old \o <<snap>>, old)
      BY <1>1, <1>5, PlainMore
    <3>2. Len(<<snap>>) = 1 /\ Len(old \o <<snap>>) = Len(old) + 1
      BY <1>1, <1>5, OneMore
    <3> QED
      BY <2>2, <3>1, <3>2
  <2> QED
    BY <1>2, <2>1, <2>2
<1> HIDE DEF more
<1>7. ProperList(more) /\ OnceEach(more)
  BY <1>6 DEF PlainEnd
<1>8. PlainEnd(ms, more)
  BY <1>7, InputIs, PlainMore
<1>9. ms[Len(ms)] = Input /\ Len(ms) = Len(more) + 1
  BY <1>7, InputIs, OneMore
<1> HIDE DEF ms
<1>10. /\ ProperList(ms) /\ OnceEach(ms) /\ ms # <<>> /\ IdsOf(ms[1]) = {}
       /\ Groups(ms) \subseteq Groups(past) \cup {{}} /\ Orphans(ms) \subseteq Orphans(past)
  BY <1>5, <1>6, <1>8 DEF PlainEnd
<1>11. Len(ms) = 2 + Len(past) + Len(snapshot)
  BY <1>5, <1>6, <1>9
<1> QED
  BY <1>5, <1>6, <1>9, <1>10, <1>11 DEF ms, more, old, head

LEMMA StartStep ==
  ASSUME IInv, NEW memory \in BOOLEAN, StartRun(memory)
  PROVE  IInv'
<1>i. ShapeInv /\ SaidInv /\ KeptInv /\ GroupInv /\ OnceInv /\ TurnInv /\ PairInv
  BY DEF IInv
<1> DEFINE past == FromStored(store)
           snapshot == IF memory THEN <<TextMessage("user", "memory")>> ELSE <<>>
           ms == <<Prompt>> \o past \o snapshot \o <<Input>>
<1>0. /\ pc = "idle" /\ pc' = "iterate"
      /\ strategy' = strategy /\ store' = store /\ iteration' = iteration /\ shared' = shared
      /\ call' = call /\ settled' = settled /\ handed' = handed /\ unsaved' = unsaved
      /\ said' = said /\ lastId' = lastId /\ began' = store
  BY DEF StartRun
<1>1. PICK cw \in ApplyContextWindow(ms) :
        /\ messages' = cw.messages /\ kept' = cw.messages
        /\ start' = Len(past) + 2
        /\ compacted' = (Len(cw.messages) # Len(past) + Len(snapshot) + 2)
        /\ excused' = excused \cup cw.cut
  BY DEF StartRun
<1>2. /\ messages = <<>> /\ kept = <<>> /\ said = <<>> /\ shared /\ unsaved = <<>> /\ call = <<>>
      /\ strategy \in Strategy /\ lastId \in Nat
  BY <1>i, <1>0 DEF ShapeInv
<1>3. Converts(past, store) /\ OnceEach(store)
  BY <1>i, ShapeHas, LoadedConverts, StoreOnce
<1>4. ProperList(past) /\ OnceEach(past) /\ Groups(past) \subseteq Groups(store)
  BY <1>3 DEF Converts
<1>5. Orphans(past) \subseteq excused
  BY <1>i, <1>0 DEF PairInv
<1>6. snapshot \in {<<>>, <<TextMessage("user", "memory")>>}
  OBVIOUS
<1> HIDE DEF snapshot, past
<1>8. /\ ProperList(ms) /\ OnceEach(ms) /\ ms # <<>> /\ IdsOf(ms[1]) = {} /\ ms[Len(ms)] = Input
      /\ Groups(ms) \subseteq Groups(past) \cup {{}} /\ Orphans(ms) \subseteq Orphans(past)
      /\ Len(past) \in Nat /\ Len(snapshot) \in {0, 1} /\ Len(ms) = 2 + Len(past) + Len(snapshot)
  BY <1>4, <1>6, FullList
<1> HIDE DEF ms
<1>10. Groups(ms) \subseteq Groups(store) \cup {{}} /\ Orphans(ms) \subseteq excused
  BY <1>4, <1>5, <1>8
<1>12. Groups(store) \subseteq AllGroups /\ Alike(AllGroups)
  BY <1>i DEF AllGroups, GroupInv
<1>13. Managed(ms)
  BY <1>8, <1>10, <1>12, AlikePart DEF Managed
<1>14. Applies(cw, ms)
  BY <1>2, <1>13, WindowApplies
<1> DEFINE new == cw.messages
<1>15. /\ ProperList(new) /\ new # <<>> /\ IdsOf(new[1]) = {} /\ OnceEach(new)
       /\ Groups(new) \subseteq Groups(ms) \cup {{}}
       /\ Orphans(new) \subseteq Orphans(ms) \cup cw.cut
       /\ Len(new) <= Len(ms)
       /\ Len(new) = Len(ms) => new[Len(new)] = Input
  BY <1>8, <1>14 DEF Applies, Shortens
<1> HIDE DEF new
<1>16. messages' = new /\ kept' = new /\ new \in Seq(Message) /\ Len(new) \in Nat
  BY <1>1, <1>15 DEF new, ProperList
<1>17. TurnIds' = TurnIds /\ OfKind("handoff")' = OfKind("handoff")
  BY <1>0 DEF TurnIds, OfKind
<1>18. ShapeInv'
  <2>1. start' \in Nat /\ compacted' \in BOOLEAN
    BY <1>1, <1>8
  <2> QED
    BY <1>i, <1>0, <1>2, <1>15, <1>16, <1>17, <2>1 DEF ShapeInv
<1>19. SaidInv' /\ SavedInv'
  BY <1>i, <1>0, <1>2 DEF SaidInv, SavedInv
<1>20. KeptInv'
  <2> DEFINE b == Len(new)
  <2>1. b \in 0..Len(kept') /\ Len(said') = 0 /\ Len(kept') - b = 0
    BY <1>0, <1>2, <1>16
  <2> DEFINE p == Len(past)
             q == Len(snapshot)
  <2>a. /\ start' = p + 2 /\ (~compacted' => b = p + q + 2) /\ b <= 2 + p + q /\ Len(ms) = 2 + p + q
        /\ p \in Nat /\ q \in {0, 1} /\ b \in Nat
        /\ b = Len(ms) => kept'[b] = Input
    BY <1>1, <1>8, <1>15, <1>16 DEF new
  <2> HIDE DEF p, q, b
  <2>2. b <= start' + 1
    BY <2>a
  <2>3. b = start' + 1 => kept'[b] = Input
    BY <2>a
  <2>4. ~compacted' => b >= start'
    BY <2>a
  <2> HIDE DEF b
  <2>5. (KeptFrom(b))'
    BY <1>0, <1>2, <2>1, <2>2, <2>3, <2>4 DEF KeptFrom
  <2> QED
    BY <2>1, <2>5 DEF KeptInv
<1>21. AllGroups' \subseteq AllGroups \cup {{}}
  BY <1>0, <1>10, <1>15, <1>16, <1>17 DEF AllGroups
<1>22. GroupInv'
  BY <1>i, <1>0, <1>2, <1>21, GroupsStay
<1>23. OnceInv'
  BY <1>i, <1>0, <1>2, <1>15, <1>16, EmptyList DEF OnceInv
<1>24. TurnInv'
  BY <1>i, <1>0, <1>15, <1>16 DEF TurnInv
<1>25. PairInv'
  <2>1. Orphans(messages') \subseteq excused'
    BY <1>1, <1>10, <1>15, <1>16
  <2>2. excused \subseteq excused' /\ Orphans(said') = {}
    BY <1>0, <1>1, <1>2, EmptyList
  <2> QED
    BY <1>i, <1>0, <2>1, <2>2 DEF PairInv
<1> QED
  BY <1>18, <1>19, <1>20, <1>22, <1>23, <1>24, <1>25 DEF IInv

(* What the loop adds is added to the persisted messages too, as long as   *)
(* they are the same array.                                                *)
LEMMA KeptStep ==
  ASSUME ShapeInv, KeptInv, NEW ms \in Seq(Message),
         said' = said \o ms, kept' = (IF shared THEN kept \o ms ELSE kept),
         start' = start, compacted' = compacted, excused \subseteq excused',
         shared' \in BOOLEAN, shared' => shared,
         shared /\ ~shared' => Orphans(said \o ms) \subseteq excused'
  PROVE  KeptInv'
<1>1. kept \in Seq(Message) /\ said \in Seq(Message)
  BY ListsAre
<1>2. Len(kept) \in Nat /\ Len(said) \in Nat /\ Len(ms) \in Nat /\ start \in Nat
  BY <1>1 DEF ShapeInv
<1>3. shared \in BOOLEAN /\ compacted \in BOOLEAN
  BY DEF ShapeInv
<1>4. PICK b \in 0..Len(kept) : KeptFrom(b)
  BY DEF KeptInv
<1>5. /\ b <= start + 1 /\ b \in Nat /\ b <= Len(kept)
      /\ Len(kept) - b <= Len(said) /\ Len(kept) - b \in Nat
      /\ \A i \in 1..(Len(kept) - b) : kept[b + i] = said[i]
      /\ b = start + 1 => kept[b] = Input
      /\ ~compacted => b >= start
      /\ shared => Len(kept) - b = Len(said)
      /\ ~shared => Orphans(SubSeq(said, 1, Len(kept) - b)) \subseteq excused
  BY <1>2, <1>4 DEF KeptFrom
<1> DEFINE new == said \o ms
<1>6. /\ new \in Seq(Message) /\ Len(new) = Len(said) + Len(ms)
      /\ \A i \in 1..Len(said) : new[i] = said[i]
      /\ \A i \in 1..Len(ms) : new[Len(said) + i] = ms[i]
  BY <1>1, ConcatAt
<1>7. said' = new
  OBVIOUS
<1> HIDE DEF new
<1>8. CASE shared
  <2> DEFINE more == kept \o ms
  <2>1. /\ more \in Seq(Message) /\ Len(more) = Len(kept) + Len(ms)
        /\ \A i \in 1..Len(kept) : more[i] = kept[i]
        /\ \A i \in 1..Len(ms) : more[Len(kept) + i] = ms[i]
    BY <1>1, ConcatAt
  <2>2. kept' = more
    BY <1>8
  <2> HIDE DEF more
  <2> DEFINE k == Len(kept) - b
  <2>3. k = Len(said) /\ k \in Nat /\ b + k = Len(kept) /\ Len(more) - b = k + Len(ms)
    BY <1>2, <1>5, <1>8, <2>1
  <2> HIDE DEF k
  <2>4. ASSUME NEW i \in 1..(k + Len(ms))
        PROVE  more[b + i] = new[i]
    <3>1. CASE i <= k
      <4>1. i \in 1..k /\ b + i \in 1..Len(kept) /\ i \in 1..Len(said)
        BY <1>2, <1>5, <2>3, <3>1
      <4>2. more[b + i] = kept[b + i] /\ new[i] = said[i]
        BY <1>6, <2>1, <4>1
      <4>3. kept[b + i] = said[i]
        BY <1>5, <4>1 DEF k
      <4> QED
        BY <4>2, <4>3
    <3>2. CASE ~ (i <= k)
      <4>1. i - k \in 1..Len(ms) /\ b + i = Len(kept) + (i - k) /\ i = Len(said) + (i - k)
        <5>1. /\ i \in Nat /\ i <= k + Len(ms) /\ k \in Nat /\ b \in Nat /\ Len(kept) \in Nat
              /\ Len(said) = k /\ b + k = Len(kept) /\ Len(ms) \in Nat /\ ~ (i <= k)
          BY <1>2, <1>5, <2>3, <3>2
        <5>2. i - k \in 1..Len(ms) /\ i = k + (i - k)
          BY <5>1
        <5>3. b + i = (b + k) + (i - k)
          BY <5>1
        <5> QED
          BY <5>1, <5>2, <5>3
      <4>2. more[Len(kept) + (i - k)] = ms[i - k] /\ new[Len(said) + (i - k)] = ms[i - k]
        BY <1>6, <2>1, <4>1
      <4> QED
        BY <4>1, <4>2
    <3> QED
      BY <3>1, <3>2
  <2>5. b = start + 1 => more[b] = Input
    <3>1. b = start + 1 => b \in 1..Len(kept)
      BY <1>2, <1>5
    <3> QED
      BY <1>5, <2>1, <3>1
  <2>6. /\ b <= start' + 1 /\ Len(kept') - b = Len(said') /\ Len(kept') - b <= Len(said')
        /\ \A i \in 1..(Len(kept') - b) : kept'[b + i] = said'[i]
        /\ b = start' + 1 => kept'[b] = Input
        /\ ~compacted' => b >= start'
        /\ b \in 0..Len(kept')
    <3>1. Len(kept') - b = k + Len(ms) /\ Len(said') = k + Len(ms) /\ k + Len(ms) \in Nat
      BY <1>2, <1>6, <1>7, <2>2, <2>3
    <3>2. \A i \in 1..(Len(kept') - b) : kept'[b + i] = said'[i]
      BY <1>7, <2>2, <2>4, <3>1
    <3>3. b \in 0..Len(kept')
      BY <1>2, <1>5, <2>1, <2>2
    <3>4. start' = start /\ compacted' = compacted
      OBVIOUS
    <3>5. Len(kept') - b <= Len(said') /\ Len(kept') - b = Len(said')
      BY <3>1
    <3>6. b <= start' + 1 /\ (b = start' + 1 => kept'[b] = Input) /\ (~compacted' => b >= start')
      <4>1. b <= start' + 1 /\ (b = start' + 1 => kept'[b] = Input)
        BY <1>5, <2>2, <2>5, <3>4
      <4>2. CASE compacted'
        BY <4>1, <4>2
      <4>3. CASE ~compacted'
        <5>1. ~compacted
          BY <3>4, <4>3
        <5>2. b >= start'
          BY <1>5, <3>4, <5>1
        <5> QED
          BY <4>1, <5>2
      <4> QED
        BY <4>2, <4>3
    <3> QED
      BY <3>2, <3>3, <3>5, <3>6
  <2>7. ~shared' => Orphans(SubSeq(said', 1, Len(kept') - b)) \subseteq excused'
    <3>1. SubSeq(said', 1, Len(kept') - b) = new
      <4>1. Len(kept') - b = Len(new)
        BY <1>7, <2>6
      <4> QED
        BY <1>6, <1>7, <4>1
    <3> QED
      BY <1>8, <3>1 DEF new
  <2>8. (KeptFrom(b))'
    BY <2>6, <2>7 DEF KeptFrom
  <2> QED
    BY <2>6, <2>8 DEF KeptInv
<1>9. CASE ~shared
  <2> DEFINE k == Len(kept) - b
  <2>1. kept' = kept /\ ~shared' /\ k \in Nat /\ k <= Len(said)
    BY <1>5, <1>9
  <2>2. \A i \in 1..k : new[i] = said[i]
    BY <1>2, <1>6, <2>1
  <2>3. SubSeq(new, 1, k) = SubSeq(said, 1, k)
    <3>1. 1 \in Nat \ {0} /\ k <= Len(new)
      BY <1>2, <1>6, <2>1
    <3> DEFINE p == SubSeq(new, 1, k)
               q == SubSeq(said, 1, k)
    <3>2. /\ p \in Seq(Message) /\ Len(p) = (IF 1 <= k THEN (k - 1) + 1 ELSE 0)
          /\ \A n \in 1..Len(p) : p[n] = new[(1 + n) - 1]
      BY <1>6, <2>1, <3>1, PartAt
    <3>3. /\ q \in Seq(Message) /\ Len(q) = (IF 1 <= k THEN (k - 1) + 1 ELSE 0)
          /\ \A n \in 1..Len(q) : q[n] = said[(1 + n) - 1]
      BY <1>1, <2>1, <3>1, PartAt
    <3> HIDE DEF p, q, k
    <3>4. Len(p) = k /\ Len(q) = k
      BY <2>1, <3>2, <3>3
    <3>5. \A n \in 1..k : p[n] = new[n] /\ q[n] = said[n]
      <4>1. \A n \in 1..k : (1 + n) - 1 = n
        BY <2>1
      <4> QED
        BY <3>2, <3>3, <3>4, <4>1
    <3>6. p = q
      BY <2>2, <3>2, <3>3, <3>4, <3>5, SeqEqual
    <3> QED
      BY <3>6 DEF p, q
  <2>4. k <= Len(new)
    BY <1>2, <1>6, <2>1
  <2>5. (KeptFrom(b))'
    BY <1>5, <1>7, <1>9, <2>1, <2>2, <2>3, <2>4 DEF KeptFrom
  <2> QED
    BY <2>1, <2>5 DEF KeptInv
<1> QED
  BY <1>3, <1>8, <1>9

(* Steps that leave the messages alone.                                    *)
LEMMA QuietStep ==
  ASSUME IInv, UNCHANGED <<store, unsaved, messages, kept, shared, start, call, said, began,
                           compacted, excused, lastId>>,
         pc \in {"iterate", "tools", "handoff"}, pc' \in {"ended", "tools", "handoff"},
         pc = "iterate" <=> pc' = "ended"
  PROVE  SaidInv' /\ KeptInv' /\ SavedInv' /\ GroupInv' /\ OnceInv' /\ TurnInv' /\ PairInv'
<1>i. ShapeInv /\ SaidInv /\ KeptInv /\ GroupInv /\ OnceInv /\ TurnInv /\ PairInv
  BY DEF IInv
<1>1. TurnIds' = TurnIds /\ AllGroups' = AllGroups
  BY DEF TurnIds, AllGroups
<1>2. SaidInv' /\ SavedInv'
  BY <1>i, BeganStay DEF SaidInv
<1>3. KeptInv'
  BY <1>i DEF KeptInv, KeptFrom
<1>4. GroupInv'
  BY <1>i, <1>1 DEF GroupInv
<1>5. OnceInv'
  BY <1>i DEF OnceInv
<1>6. TurnInv'
  BY <1>i, <1>1 DEF TurnInv
<1>7. PairInv'
  BY <1>i, <1>1 DEF PairInv
<1> QED
  BY <1>2, <1>3, <1>4, <1>5, <1>6, <1>7

LEMMA EndStep ==
  ASSUME IInv, EndLoop
  PROVE  IInv'
<1>1. ShapeInv
  BY DEF IInv
<1>2. ShapeInv'
  BY <1>1 DEF ShapeInv, EndLoop, loop, history, OfKind, TurnIds
<1>3. SaidInv' /\ KeptInv' /\ SavedInv' /\ GroupInv' /\ OnceInv' /\ TurnInv' /\ PairInv'
  BY QuietStep DEF EndLoop, loop, history
<1> QED
  BY <1>2, <1>3 DEF IInv

LEMMA SettleStep ==
  ASSUME IInv, NEW c \in Id, ToolReturns(c) \/ ToolTimesOut(c)
  PROVE  IInv'
<1>1. ShapeInv
  BY DEF IInv
<1>2. c \in TurnIds
  BY <1>1, ShapeHas, RunningAreCalls DEF ToolReturns, ToolTimesOut
<1>3. ShapeInv'
  <2>1. settled' = settled \cup {c} /\ TurnIds' = TurnIds /\ OfKind("handoff")' = OfKind("handoff")
    BY DEF ToolReturns, ToolTimesOut, TurnIds, OfKind
  <2> QED
    BY <1>1, <1>2, <2>1 DEF ShapeInv, ToolReturns, ToolTimesOut, history
<1>4. SaidInv' /\ KeptInv' /\ SavedInv' /\ GroupInv' /\ OnceInv' /\ TurnInv' /\ PairInv'
  BY QuietStep DEF ToolReturns, ToolTimesOut, history
<1> QED
  BY <1>3, <1>4 DEF IInv

LEMMA LaunchStep ==
  ASSUME IInv, LaunchTasks
  PROVE  IInv'
<1>1. ShapeInv
  BY DEF IInv
<1>2. ShapeInv'
  BY <1>1 DEF ShapeInv, LaunchTasks, loop, history, OfKind, TurnIds
<1>3. SaidInv' /\ KeptInv' /\ SavedInv' /\ GroupInv' /\ OnceInv' /\ TurnInv' /\ PairInv'
  BY QuietStep DEF LaunchTasks, loop, history
<1> QED
  BY <1>2, <1>3 DEF IInv

LEMMA HandoffStep ==
  ASSUME IInv, NEW found \in BOOLEAN, Handoff(found)
  PROVE  IInv'
<1>1. ShapeInv
  BY DEF IInv
<1>2. ShapeInv'
  <2>1. /\ handed'.count = handed.count + 1 /\ TurnIds' = TurnIds
        /\ OfKind("handoff")' = OfKind("handoff")
    BY DEF Handoff, TurnIds, OfKind
  <2>2. Len(OfKind("handoff")) \in Nat
    BY <1>1, ShapeHas, OfKindHas DEF Kind
  <2>3. handed'.count \in 0..Len(OfKind("handoff"))
    BY <1>1, <2>1, <2>2 DEF Handoff, ShapeInv
  <2> QED
    BY <1>1, <2>1, <2>3 DEF ShapeInv, Handoff, history
<1>3. SaidInv' /\ KeptInv' /\ SavedInv' /\ GroupInv' /\ OnceInv' /\ TurnInv' /\ PairInv'
  BY QuietStep DEF Handoff, history
<1> QED
  BY <1>2, <1>3 DEF IInv

LEMMA SaidJoin ==
  ASSUME NEW a \in Seq(Message), NEW b \in Seq(Message),
         \A i \in DOMAIN a : Said(a[i]), \A i \in DOMAIN b : Said(b[i])
  PROVE  \A i \in DOMAIN (a \o b) : Said((a \o b)[i])
<1>1. DOMAIN a = 1..Len(a) /\ DOMAIN b = 1..Len(b) /\ DOMAIN (a \o b) = 1..Len(a \o b)
  OBVIOUS
<1>2. \A i \in 1..Len(a \o b) : \/ i \in 1..Len(a) /\ (a \o b)[i] = a[i]
                                \/ i - Len(a) \in 1..Len(b) /\ (a \o b)[i] = b[i - Len(a)]
  BY ConcatAt
<1> QED
  BY <1>1, <1>2

LEMMA OneOrphans ==
  ASSUME NEW m \in Message
  PROVE  Orphans(<<m>>) \subseteq IdsOf(m)
<1> DEFINE l == <<m>>
<1>1. DOMAIN l = 1..1 /\ l[1] = m
  OBVIOUS
<1>2. \A c \in Orphans(l) : \E i \in DOMAIN l : c \in IdsOf(l[i])
  BY OrphansAre
<1> QED
  BY <1>1, <1>2

LEMMA InGroups ==
  ASSUME NEW s \in Seq(Message)
  PROVE  /\ ResultIds(s) \subseteq UNION Groups(s) /\ UseIds(s) \subseteq UNION Groups(s)
         /\ \A i \in 1..Len(s) : /\ ToSet(s[i].uses) \subseteq UseIds(s)
                                 /\ ToSet(s[i].results) \subseteq ResultIds(s)
                                 /\ IdsOf(s[i]) \in Groups(s)
<1>1. DOMAIN s = 1..Len(s)
  OBVIOUS
<1> QED
  BY <1>1 DEF ResultIds, UseIds, Groups, IdsOf

LEMMA ResultsJoin ==
  ASSUME NEW s \in Seq(Message), NEW m \in Message
  PROVE  ResultIds(s \o <<m>>) \subseteq ResultIds(s) \cup ToSet(m.results)
<1> DEFINE t == s \o <<m>>
<1>1. <<m>> \in Seq(Message) /\ Len(<<m>>) = 1 /\ <<m>>[1] = m /\ Len(s) \in Nat
  OBVIOUS
<1>2. /\ t \in Seq(Message)
      /\ \A i \in 1..Len(t) : \/ i \in 1..Len(s) /\ t[i] = s[i]
                              \/ i - Len(s) \in 1..Len(<<m>>) /\ t[i] = <<m>>[i - Len(s)]
  BY <1>1, ConcatAt
<1>3. \A i \in 1..Len(t) : (i \in 1..Len(s) /\ t[i] = s[i]) \/ t[i] = m
  <2> TAKE i \in 1..Len(t)
  <2>1. \/ i \in 1..Len(s) /\ t[i] = s[i]
        \/ i - Len(s) \in 1..Len(<<m>>) /\ t[i] = <<m>>[i - Len(s)]
    BY <1>2
  <2>2. i - Len(s) \in 1..Len(<<m>>) => i - Len(s) = 1
    BY <1>1
  <2> QED
    BY <1>1, <2>1, <2>2
<1> HIDE DEF t
<1>4. DOMAIN t = 1..Len(t) /\ DOMAIN s = 1..Len(s)
  BY <1>2
<1> SUFFICES ASSUME NEW i \in 1..Len(t)
             PROVE  ToSet(t[i].results) \subseteq ResultIds(s) \cup ToSet(m.results)
  BY <1>4 DEF ResultIds, t
<1> QED
  BY <1>3, InGroups

(* A turn is over: no calls.                                               *)
LEMMA NoTurn ==
  ASSUME ShapeInv, pc \notin {"tools", "handoff"}
  PROVE  call = <<>> /\ TurnIds = {} /\ settled = {} /\ handed.count = 0
<1>1. call = <<>>
  BY DEF ShapeInv
<1>2. TurnIds = {}
  BY <1>1, EmptyList, EmptySet DEF TurnIds
<1>3. Len(OfKind("handoff")) = 0
  BY <1>1, NoHandoffs DEF OfKind
<1>4. handed.count = 0
  <2>1. handed.count \in 0..0
    BY <1>3 DEF ShapeInv
  <2> QED
    BY <2>1
<1> QED
  BY <1>1, <1>2, <1>4 DEF ShapeInv

LEMMA NotesEnd ==
  ASSUME NEW s, ProperList(s), OnceEach(s),
         NEW notes \in {<<>>, <<TextMessage("user", "note")>>}
  PROVE  PlainEnd(s \o notes, s)
<1> DEFINE m == TextMessage("user", "note")
<1>1. Proper(m) /\ IdsOf(m) = {}
  BY TextMessageIs DEF Text
<1>2. CASE notes = <<>>
  BY <1>2, PlainNone
<1>3. CASE notes = <<m>>
  <2> HIDE DEF m
  <2>1. PlainEnd(s \o <<m>>, s)
    BY <1>1, PlainMore
  <2> QED
    BY <1>3, <2>1
<1> QED
  BY <1>2, <1>3

LEMMA NotesAre ==
  ASSUME NEW notes \in {<<>>, <<TextMessage("user", "note")>>}
  PROVE  notes \in Seq(Message) /\ \A i \in DOMAIN notes : Said(notes[i])
<1> DEFINE m == TextMessage("user", "note")
<1>1. m \in Message /\ m.pruned = {} /\ m.text = "note"
  BY TextMessageIs DEF Text
<1>2. Said(m)
  BY <1>1 DEF Said
<1>3. notes = <<>> \/ notes = <<m>>
  OBVIOUS
<1> HIDE DEF m
<1>4. <<m>> \in Seq(Message) /\ \A i \in DOMAIN <<m>> : <<m>>[i] = m
  BY <1>1
<1>5. <<>> \in Seq(Message) /\ DOMAIN <<>> = {}
  OBVIOUS
<1> QED
  BY <1>2, <1>3, <1>4, <1>5

LEMMA BeginStep ==
  ASSUME IInv, BeginIteration
  PROVE  IInv'
<1>i. ShapeInv /\ SaidInv /\ KeptInv /\ GroupInv /\ OnceInv /\ TurnInv /\ PairInv
  BY DEF IInv
<1>0. /\ pc = "iterate" /\ pc' = "llm" /\ iteration < MaxIterations /\ iteration' = iteration + 1
      /\ strategy' = strategy /\ store' = store /\ start' = start /\ call' = call
      /\ settled' = settled /\ handed' = handed /\ unsaved' = unsaved /\ compacted' = compacted
      /\ lastId' = lastId /\ began' = began
  BY DEF BeginIteration
<1>1. PICK notes \in {<<>>, <<TextMessage("user", "note")>>} :
        /\ said' = said \o notes
        /\ kept' = IF shared THEN kept \o notes ELSE kept
        /\ \E cw \in ApplyContextWindow(messages \o notes) :
             /\ messages' = cw.messages
             /\ shared' = (shared /\ ~cw.replaced)
             /\ excused' = excused \cup cw.cut
  BY DEF BeginIteration
<1>2. /\ ProperList(messages) /\ ProperList(said) /\ ProperList(kept) /\ kept \in Seq(Message)
      /\ said \in Seq(Message) /\ strategy \in Strategy /\ lastId \in Nat /\ shared \in BOOLEAN
      /\ OnceEach(messages) /\ OnceEach(said) /\ messages # <<>> /\ IdsOf(messages[1]) = {}
      /\ (shared => messages = kept)
  BY <1>i, <1>0, ListsAre DEF ShapeInv, OnceInv, TurnInv
<1> DEFINE ns == messages \o notes
           sn == said \o notes
<1>3. PlainEnd(ns, messages) /\ PlainEnd(sn, said)
  BY <1>2, NotesEnd
<1>4. notes \in Seq(Message) /\ \A i \in DOMAIN notes : Said(notes[i])
  BY NotesAre
<1>5. PICK cw \in ApplyContextWindow(ns) :
        /\ messages' = cw.messages
        /\ shared' = (shared /\ ~cw.replaced)
        /\ excused' = excused \cup cw.cut
  BY <1>1
<1>6. said' = sn /\ kept' = (IF shared THEN ns ELSE kept)
  BY <1>1, <1>2
<1>7. TurnIds = {} /\ TurnIds' = TurnIds /\ OfKind("handoff")' = OfKind("handoff")
  BY <1>i, <1>0, NoTurn DEF TurnIds, OfKind
<1>8. \A i \in DOMAIN sn : Said(sn[i])
  BY <1>i, <1>2, <1>4, SaidJoin DEF SaidInv
<1>9. excused \subseteq excused' /\ shared' \in BOOLEAN /\ (shared' => shared)
  BY <1>2, <1>5
<1>10. Orphans(sn) \subseteq excused
  BY <1>i, <1>3, <1>7 DEF PlainEnd, PairInv
<1>11. KeptInv'
  <2>1. kept' = (IF shared THEN kept \o notes ELSE kept) /\ said' = said \o notes
    BY <1>1
  <2> QED
    BY <1>i, <1>0, <1>4, <1>9, <1>10, <2>1, KeptStep
<1> HIDE DEF ns, sn
<1>12. Groups(messages) \subseteq AllGroups /\ Alike(AllGroups)
  BY <1>i DEF AllGroups, GroupInv
<1>13. Managed(ns)
  <2>1. Alike(Groups(ns))
    BY <1>3, <1>12, AlikePart DEF PlainEnd
  <2> QED
    BY <1>2, <1>3, <2>1 DEF PlainEnd, Managed
<1>14. Applies(cw, ns)
  BY <1>2, <1>13, WindowApplies
<1> DEFINE new == cw.messages
<1>15. /\ ProperList(new) /\ new # <<>> /\ IdsOf(new[1]) = {} /\ OnceEach(new)
       /\ Groups(new) \subseteq Groups(ns) \cup {{}}
       /\ Orphans(new) \subseteq Orphans(ns) \cup cw.cut
       /\ ~cw.replaced => new = ns
  BY <1>14 DEF Applies, Shortens
<1> HIDE DEF new
<1>16. messages' = new
  BY <1>5 DEF new
<1>17. ShapeInv'
  <2>1. ProperList(messages') /\ ProperList(kept') /\ ProperList(said')
    BY <1>2, <1>3, <1>6, <1>15, <1>16 DEF PlainEnd
  <2>2. shared' => messages' = kept'
    BY <1>5, <1>6, <1>15, <1>16
  <2>3. iteration' \in 0..MaxIterations
    BY <1>i, <1>0, BoundsAreNat DEF ShapeInv
  <2> QED
    BY <1>i, <1>0, <1>7, <1>9, <2>1, <2>2, <2>3 DEF ShapeInv
<1>18. SaidInv' /\ SavedInv'
  BY <1>i, <1>0, <1>6, <1>8, BeganStay DEF SaidInv
<1>19. /\ Groups(messages') \subseteq Groups(messages) \cup {{}}
       /\ Groups(said') \subseteq Groups(said) \cup {{}}
       /\ Groups(kept') \subseteq Groups(messages) \cup Groups(kept) \cup {{}}
  BY <1>3, <1>6, <1>15, <1>16 DEF PlainEnd
<1>20. GroupInv'
  <2>1. AllGroups' \subseteq AllGroups \cup {{}}
    BY <1>0, <1>7, <1>19 DEF AllGroups
  <2> QED
    BY <1>i, <1>0, <1>2, <2>1, GroupsStay
<1>21. OnceInv'
  <2>1. OnceEach(said') /\ OnceEach(messages')
    BY <1>3, <1>6, <1>15, <1>16 DEF PlainEnd
  <2>2. (UNION Groups(store)) \cap (UNION Groups(said')) = {}
    BY <1>i, <1>0, <1>19 DEF OnceInv
  <2> QED
    BY <1>i, <1>0, <2>1, <2>2 DEF OnceInv
<1>22. TurnInv'
  BY <1>0, <1>15, <1>16 DEF TurnInv
<1>23. PairInv'
  <2>1. Orphans(messages') \subseteq excused'
    BY <1>i, <1>3, <1>5, <1>7, <1>15, <1>16 DEF PlainEnd, PairInv
  <2>2. Orphans(said') \subseteq excused'
    BY <1>6, <1>9, <1>10
  <2> QED
    BY <1>i, <1>0, <1>9, <2>1, <2>2 DEF PairInv
<1> QED
  BY <1>11, <1>17, <1>18, <1>20, <1>21, <1>22, <1>23 DEF IInv

(* A message that the loop adds.                                           *)
LEMMA PushStep ==
  ASSUME IInv, NEW m, Proper(m), Said(m), Push(<<m>>),
         UNCHANGED <<store, unsaved, start, compacted, excused, shared>>
  PROVE  /\ ProperList(messages') /\ ProperList(kept') /\ ProperList(said')
         /\ messages' = messages \o <<m>> /\ said' = said \o <<m>>
         /\ shared' => messages' = kept'
         /\ messages' # <<>> /\ messages'[Len(messages')] = m
         /\ said' # <<>> /\ said'[Len(said')] = m
         /\ messages # <<>> => messages'[1] = messages[1]
         /\ Groups(messages') = Groups(messages) \cup {IdsOf(m)}
         /\ Groups(said') = Groups(said) \cup {IdsOf(m)}
         /\ Groups(kept') \subseteq Groups(kept) \cup {IdsOf(m)}
         /\ SaidInv' /\ KeptInv'
<1>i. ShapeInv /\ SaidInv /\ KeptInv
  BY DEF IInv
<1>0. /\ messages' = messages \o <<m>> /\ said' = said \o <<m>>
      /\ kept' = IF shared THEN kept \o <<m>> ELSE kept
  BY DEF Push
<1>1. ProperList(messages) /\ ProperList(kept) /\ ProperList(said) /\ shared \in BOOLEAN
  BY <1>i, ShapeHas DEF ShapeInv
<1>2. m \in Message /\ <<m>> \in Seq(Message) /\ \A i \in DOMAIN <<m>> : <<m>>[i] = m
  BY DEF Proper
<1>3. /\ ProperList(messages') /\ messages' # <<>> /\ messages'[Len(messages')] = m
      /\ Groups(messages') = Groups(messages) \cup {IdsOf(m)}
  BY <1>0, <1>1, OneMore
<1>4. messages # <<>> => messages'[1] = messages[1]
  <2>1. /\ Len(messages) \in Nat /\ messages \in Seq(Message)
        /\ \A i \in 1..Len(messages) : messages'[i] = messages[i]
    BY <1>0, <1>1, OneMore
  <2>2. messages # <<>> => Len(messages) # 0
    BY <2>1
  <2> QED
    BY <2>1, <2>2
<1>5. /\ ProperList(said') /\ said' # <<>> /\ said'[Len(said')] = m
      /\ Groups(said') = Groups(said) \cup {IdsOf(m)}
  BY <1>0, <1>1, OneMore
<1>6. ProperList(kept') /\ Groups(kept') \subseteq Groups(kept) \cup {IdsOf(m)}
  <2>1. ProperList(kept \o <<m>>) /\ Groups(kept \o <<m>>) = Groups(kept) \cup {IdsOf(m)}
    BY <1>1, OneMore
  <2> QED
    BY <1>0, <1>1, <2>1
<1>7. shared' => messages' = kept'
  BY <1>i, <1>0 DEF ShapeInv
<1>8. SaidInv'
  <2>1. said \in Seq(Message)
    BY <1>i, ListsAre
  <2>2. \A i \in DOMAIN (said \o <<m>>) : Said((said \o <<m>>)[i])
    BY <1>i, <1>2, <2>1, SaidJoin DEF SaidInv
  <2> QED
    BY <1>i, <1>0, <2>2 DEF SaidInv
<1>9. KeptInv'
  <2>1. excused \subseteq excused' /\ shared' \in BOOLEAN /\ (shared' => shared) /\ ~ (shared /\ ~shared')
    BY <1>1
  <2>2. start' = start /\ compacted' = compacted
    OBVIOUS
  <2> QED
    BY <1>i, <1>0, <1>2, <2>1, <2>2, KeptStep
<1> QED
  BY <1>0, <1>3, <1>4, <1>5, <1>6, <1>7, <1>8, <1>9

LEMMA AnswerStep ==
  ASSUME IInv, Answers
  PROVE  IInv'
<1>i. ShapeInv /\ SaidInv /\ KeptInv /\ GroupInv /\ OnceInv /\ TurnInv /\ PairInv
  BY DEF IInv
<1>0. /\ pc = "llm" /\ pc' = "ended"
      /\ UNCHANGED <<strategy, store, iteration, shared, start, call, settled, handed,
                     pending, unsaved, began, compacted, excused, runs, lastId, faults>>
  BY DEF Answers
<1>1. PICK text \in {"answer", "none"} : Push(<<TextMessage("assistant", text)>>)
  BY DEF Answers
<1> DEFINE m == TextMessage("assistant", text)
<1>2. /\ m \in Message /\ Proper(m) /\ IdsOf(m) = {} /\ m.pruned = {} /\ m.text = text
  BY TextMessageIs DEF Text
<1>3. Said(m)
  BY <1>2 DEF Said
<1>4. Push(<<m>>)
  BY <1>1
<1> HIDE DEF m
<1>5. UNCHANGED <<store, unsaved, start, compacted, excused, shared>>
  BY <1>0
<1>6. /\ ProperList(messages') /\ ProperList(kept') /\ ProperList(said')
      /\ messages' = messages \o <<m>> /\ said' = said \o <<m>>
      /\ shared' => messages' = kept'
      /\ messages' # <<>> /\ (messages # <<>> => messages'[1] = messages[1])
      /\ Groups(messages') = Groups(messages) \cup {IdsOf(m)}
      /\ Groups(said') = Groups(said) \cup {IdsOf(m)}
      /\ Groups(kept') \subseteq Groups(kept) \cup {IdsOf(m)}
      /\ SaidInv' /\ KeptInv'
  BY <1>2, <1>3, <1>4, <1>5, PushStep
<1>7. TurnIds = {} /\ TurnIds' = TurnIds /\ OfKind("handoff")' = OfKind("handoff")
  BY <1>i, <1>0, NoTurn DEF TurnIds, OfKind
<1>8. PlainEnd(messages', messages) /\ PlainEnd(said', said)
  <2>1. ProperList(messages) /\ ProperList(said) /\ OnceEach(messages) /\ OnceEach(said)
    BY <1>i, ShapeHas DEF OnceInv
  <2> QED
    BY <1>2, <1>6, <2>1, PlainMore
<1>9. ShapeInv'
  BY <1>i, <1>0, <1>6, <1>7 DEF ShapeInv
<1>10. SavedInv'
  BY <1>0, BeganStay
<1>11. GroupInv'
  <2>1. AllGroups' \subseteq AllGroups \cup {{}}
    BY <1>0, <1>2, <1>6, <1>7 DEF AllGroups
  <2>2. lastId \in Nat /\ lastId' = lastId
    BY <1>i, <1>0 DEF ShapeInv
  <2> QED
    BY <1>i, <2>1, <2>2, GroupsStay
<1>12. OnceInv'
  <2>1. OnceEach(said') /\ OnceEach(messages')
    BY <1>8 DEF PlainEnd
  <2>2. (UNION Groups(store)) \cap (UNION Groups(said')) = {}
    BY <1>i, <1>0, <1>2, <1>6 DEF OnceInv
  <2> QED
    BY <1>i, <1>0, <2>1, <2>2 DEF OnceInv
<1>13. TurnInv'
  BY <1>i, <1>0, <1>6 DEF TurnInv
<1>14. PairInv'
  BY <1>i, <1>0, <1>7, <1>8 DEF PlainEnd, PairInv
<1> QED
  BY <1>6, <1>9, <1>10, <1>11, <1>12, <1>13, <1>14 DEF IInv

(* A list with a message of a new group.                                   *)
LEMMA CallsMore ==
  ASSUME NEW s, ProperList(s), OnceEach(s), NEW ids \in Seq(Nat), NEW X, UNION Groups(s) \subseteq X,
         ToSet(ids) \cap X = {}
  PROVE  LET t == s \o <<CallMessage(ids)>>
         IN  /\ OnceEach(t) /\ ToSet(ids) \cap ResultIds(t) = {}
             /\ Orphans(t) \subseteq Orphans(s) \cup ToSet(ids)
<1> DEFINE m == CallMessage(ids)
           t == s \o <<m>>
<1>1. s \in Seq(Message)
  BY DEF ProperList
<1>2. m \in Message /\ m.uses = ids /\ m.results = <<>> /\ IdsOf(m) = ToSet(ids)
  BY CallMessageIs
<1> HIDE DEF m
<1>3. <<m>> \in Seq(Message) /\ ToSet(m.results) = {}
  BY <1>2, EmptySet
<1>4. ASSUME NEW i \in 1..Len(s)
      PROVE  /\ ToSet(m.uses) \cap ToSet(s[i].uses) = {}
             /\ ToSet(m.results) \cap ToSet(s[i].results) = {}
  <2>1. ToSet(s[i].uses) \subseteq X
    BY <1>1, InGroups
  <2> QED
    BY <1>2, <1>3, <2>1
<1>5. OnceEach(t)
  BY <1>1, <1>2, <1>4, OnceMore
<1>6. ResultIds(t) \subseteq X
  BY <1>1, <1>2, <1>3, InGroups, ResultsJoin
<1>7. Orphans(t) \subseteq Orphans(s) \cup ToSet(ids)
  <2>1. Orphans(t) \subseteq Orphans(s) \cup Orphans(<<m>>)
    BY <1>1, <1>3, OrphansJoin
  <2>2. Orphans(<<m>>) \subseteq ToSet(ids)
    BY <1>2, OneOrphans
  <2> QED
    BY <2>1, <2>2
<1> QED
  BY <1>5, <1>6, <1>7 DEF m

LEMMA CallStep ==
  ASSUME IInv, CallsTools
  PROVE  IInv'
<1>i. ShapeInv /\ SaidInv /\ KeptInv /\ GroupInv /\ OnceInv /\ TurnInv /\ PairInv
  BY DEF IInv
<1>0. /\ pc = "llm" /\ pc' = "tools"
      /\ UNCHANGED <<strategy, store, iteration, shared, start, settled, handed, pending,
                     unsaved, began, compacted, excused, runs, faults>>
  BY DEF CallsTools
<1>1. PICK n \in 1..MaxTurnCalls :
        /\ lastId + n <= MaxIds
        /\ \E kind \in [1..n -> Kind] :
             call' = [i \in 1..n |-> [id |-> lastId + i, kind |-> kind[i]]]
        /\ Push(<<CallMessage([i \in 1..n |-> lastId + i])>>)
        /\ lastId' = lastId + n
  BY DEF CallsTools
<1>2. PICK kind \in [1..n -> Kind] :
        call' = [i \in 1..n |-> [id |-> lastId + i, kind |-> kind[i]]]
  BY <1>1
<1>3. lastId \in Nat /\ n \in Nat /\ n >= 1 /\ MaxIds \in Nat /\ lastId' \in Nat /\ lastId <= lastId'
  BY <1>i, <1>1, BoundsAreNat DEF ShapeInv
<1> DEFINE ids == [i \in 1..n |-> lastId + i]
           m == CallMessage(ids)
           G == ToSet(ids)
<1>4. \A i \in 1..n : ids[i] = lastId + i /\ ids[i] \in Id /\ ids[i] \in Nat
  BY <1>1, <1>3 DEF Id
<1>5. ids \in Seq(Nat) /\ DOMAIN ids = 1..n
  <2>1. ids \in [1..n -> Nat]
    BY <1>4
  <2> QED
    BY <1>3, <2>1, Tabulated
<1>6. call' \in Seq(Call) /\ Len(call') = n /\ DOMAIN call' = 1..n
  <2>1. call' \in [1..n -> Call]
    BY <1>2, <1>3, <1>4 DEF Call
  <2> QED
    BY <1>3, <2>1, Tabulated
<1>7. Ids(call') = ids
  BY <1>2, <1>6 DEF Ids
<1>8. /\ Proper(m) /\ Said(m) /\ IdsOf(m) = G /\ Push(<<m>>)
  BY <1>1, <1>5, CallMessageIs
<1>9. G \cap 1..lastId = {} /\ G \subseteq 1..lastId'
  <2>1. \A i \in 1..n : ids[i] \notin 1..lastId /\ ids[i] \in 1..lastId'
    BY <1>1, <1>3, <1>4
  <2> QED
    BY <1>5, <2>1 DEF ToSet
<1>10. TurnIds' = G /\ (Ids(call))' = ids
  BY <1>7 DEF TurnIds, Ids
<1> HIDE DEF ids
<1>11. /\ ProperList(messages) /\ ProperList(said) /\ OnceEach(messages) /\ OnceEach(said)
       /\ UNION Groups(messages) \subseteq 1..lastId /\ UNION Groups(said) \subseteq 1..lastId
       /\ messages # <<>> /\ IdsOf(messages[1]) = {}
  BY <1>i, <1>0, ShapeHas DEF OnceInv, GroupInv, AllGroups, TurnInv
<1> DEFINE mm == messages \o <<m>>
           sm == said \o <<m>>
<1>12. OnceEach(mm) /\ G \cap ResultIds(mm) = {} /\ Orphans(mm) \subseteq Orphans(messages) \cup G
  BY <1>5, <1>9, <1>11, CallsMore
<1>13. OnceEach(sm) /\ G \cap ResultIds(sm) = {} /\ Orphans(sm) \subseteq Orphans(said) \cup G
  BY <1>5, <1>9, <1>11, CallsMore
<1> HIDE DEF m, G
<1>14. UNCHANGED <<store, unsaved, start, compacted, excused, shared>>
  BY <1>0
<1>15. /\ ProperList(messages') /\ ProperList(kept') /\ ProperList(said')
       /\ messages' = messages \o <<m>> /\ said' = said \o <<m>>
       /\ shared' => messages' = kept'
       /\ messages' # <<>> /\ messages'[Len(messages')] = m
       /\ said' # <<>> /\ said'[Len(said')] = m
       /\ messages # <<>> => messages'[1] = messages[1]
       /\ Groups(messages') = Groups(messages) \cup {IdsOf(m)}
       /\ Groups(said') = Groups(said) \cup {IdsOf(m)}
       /\ Groups(kept') \subseteq Groups(kept) \cup {IdsOf(m)}
       /\ SaidInv' /\ KeptInv'
  BY <1>8, <1>14, PushStep
<1>16. ShapeInv'
  <2>1. call' \in Seq([id : Id, kind : Kind]) /\ call' # <<>>
    <3>1. Len(call') # 0
      BY <1>3, <1>6
    <3> QED
      BY <1>6, <3>1 DEF Call
  <2>2. settled' \subseteq TurnIds' /\ handed'.count = 0
    BY <1>i, <1>0, NoTurn
  <2>3. handed'.count \in 0..Len(OfKind("handoff")')
    <3> DEFINE S == [id : Id, kind : {"handoff"}]
    <3>1. (OfKind("handoff"))' = Filter(call', S)
      BY DEF OfKind
    <3>2. Filter(call', S) \in Seq(Call)
      BY <1>6, FilterPicks DEF Filtered
    <3>3. Len(Filter(call', S)) \in Nat
      BY <3>2
    <3> QED
      BY <2>2, <3>1, <3>3
  <2> QED
    BY <1>i, <1>0, <1>3, <1>15, <2>1, <2>2, <2>3 DEF ShapeInv
<1>17. SavedInv'
  BY <1>0, BeganStay
<1>18. GroupInv'
  <2>1. AllGroups' \subseteq AllGroups \cup {G}
    BY <1>0, <1>8, <1>10, <1>15 DEF AllGroups
  <2>2. Alike(AllGroups) /\ UNION AllGroups \subseteq 1..lastId
    BY <1>i DEF GroupInv
  <2>3. G \cap UNION AllGroups = {}
    BY <1>9, <2>2
  <2>4. Alike(AllGroups \cup {G})
    BY <2>2, <2>3 DEF Alike
  <2>5. Alike(AllGroups')
    BY <2>1, <2>4 DEF Alike
  <2>6. UNION (AllGroups') \subseteq 1..lastId'
    <3>1. 1..lastId \subseteq 1..lastId'
      BY <1>3
    <3> QED
      BY <1>9, <2>1, <2>2, <3>1
  <2> QED
    BY <2>5, <2>6 DEF GroupInv, Alike
<1>19. OnceInv'
  <2>1. (UNION Groups(store)) \cap (UNION Groups(said')) = {}
    <3>1. UNION Groups(store) \subseteq 1..lastId
      BY <1>i DEF GroupInv, AllGroups
    <3>2. (UNION Groups(store)) \cap (UNION Groups(said)) = {}
      BY <1>i, <1>0 DEF OnceInv
    <3> QED
      BY <1>8, <1>9, <1>15, <3>1, <3>2
  <2> QED
    BY <1>i, <1>0, <1>12, <1>13, <1>15, <2>1 DEF OnceInv
<1>20. TurnInv'
  <2>1. m = CallMessage((Ids(call))')
    BY <1>10 DEF m
  <2> QED
    BY <1>0, <1>10, <1>11, <1>12, <1>13, <1>15, <2>1 DEF TurnInv
<1>21. PairInv'
  <2>1. TurnIds = {}
    BY <1>i, <1>0, NoTurn
  <2> QED
    BY <1>i, <1>0, <1>10, <1>12, <1>13, <1>15, <2>1 DEF PairInv
<1> QED
  BY <1>15, <1>16, <1>17, <1>18, <1>19, <1>20, <1>21 DEF IInv

LEMMA ApplyStep ==
  ASSUME IInv, ApplyToolResults
  PROVE  IInv'
<1>i. ShapeInv /\ SaidInv /\ KeptInv /\ GroupInv /\ OnceInv /\ TurnInv /\ PairInv
  BY DEF IInv
<1> DEFINE m == ResultMessage(AllResults)
<1>0. /\ pc = "handoff" /\ pc' \in {"iterate", "ended"} /\ Push(<<m>>)
      /\ call' = <<>> /\ settled' = {} /\ handed'.count = 0
      /\ UNCHANGED <<strategy, store, iteration, shared, start, pending, unsaved, began,
                     compacted, excused, runs, lastId, faults>>
  BY DEF ApplyToolResults, NextTurn, NotHanded
<1>1. call \in Seq(Call) /\ AllResults \in Seq(Id) /\ ToSet(AllResults) = TurnIds
  BY <1>i, ShapeHas, ResultsAreAll
<1>2. Ids(call) \in Seq(Nat) /\ AllResults \in Seq(Nat)
  BY <1>1, TurnIdsAre, SeqOfNat
<1>3. /\ m \in Message /\ Proper(m) /\ Said(m) /\ m.uses = <<>> /\ m.results = AllResults
      /\ IdsOf(m) = TurnIds
  BY <1>1, <1>2, ResultMessageIs
<1> HIDE DEF m
<1>4. CallMessage(Ids(call)).uses = Ids(call)
  BY <1>2, CallMessageIs
<1>5. ToSet(m.uses) = {} /\ ToSet(m.results) = TurnIds
  BY <1>1, <1>3, EmptySet
<1>6. /\ messages # <<>> /\ ToSet(messages[Len(messages)].uses) = TurnIds /\ IdsOf(messages[1]) = {}
      /\ TurnIds \cap ResultIds(messages) = {}
      /\ said # <<>> /\ ToSet(said[Len(said)].uses) = TurnIds /\ TurnIds \cap ResultIds(said) = {}
  BY <1>i, <1>0, <1>4 DEF TurnInv, TurnIds
<1>7. /\ messages \in Seq(Message) /\ said \in Seq(Message)
      /\ OnceEach(messages) /\ OnceEach(said)
      /\ Orphans(messages) \subseteq excused \cup TurnIds /\ Orphans(said) \subseteq excused \cup TurnIds
  BY <1>i, ListsAre DEF OnceInv, PairInv
<1> DEFINE mm == messages \o <<m>>
           sm == said \o <<m>>
<1>8. OnceEach(mm) /\ Orphans(mm) \subseteq excused
  <2>1. ASSUME NEW i \in 1..Len(messages)
        PROVE  /\ ToSet(m.uses) \cap ToSet(messages[i].uses) = {}
               /\ ToSet(m.results) \cap ToSet(messages[i].results) = {}
    BY <1>5, <1>6, <1>7, InGroups
  <2>2. OnceEach(mm)
    BY <1>3, <1>7, <2>1, OnceMore
  <2>3. Orphans(mm) \subseteq excused
    <3>1. /\ ToSet(m.results) = ToSet(messages[Len(messages)].uses)
          /\ IdsOf(m) \subseteq ToSet(m.results)
          /\ Orphans(messages) \subseteq excused \cup ToSet(m.results)
      BY <1>3, <1>5, <1>6, <1>7
    <3> QED
      BY <1>3, <1>6, <1>7, <3>1, Answered
  <2> QED
    BY <2>2, <2>3
<1>9. OnceEach(sm) /\ Orphans(sm) \subseteq excused
  <2>1. ASSUME NEW i \in 1..Len(said)
        PROVE  /\ ToSet(m.uses) \cap ToSet(said[i].uses) = {}
               /\ ToSet(m.results) \cap ToSet(said[i].results) = {}
    BY <1>5, <1>6, <1>7, InGroups
  <2>2. OnceEach(sm)
    BY <1>3, <1>7, <2>1, OnceMore
  <2>3. Orphans(sm) \subseteq excused
    <3>1. /\ ToSet(m.results) = ToSet(said[Len(said)].uses)
          /\ IdsOf(m) \subseteq ToSet(m.results)
          /\ Orphans(said) \subseteq excused \cup ToSet(m.results)
      BY <1>3, <1>5, <1>6, <1>7
    <3> QED
      BY <1>3, <1>6, <1>7, <3>1, Answered
  <2> QED
    BY <2>2, <2>3
<1>10. UNCHANGED <<store, unsaved, start, compacted, excused, shared>>
  BY <1>0
<1>11. /\ ProperList(messages') /\ ProperList(kept') /\ ProperList(said')
       /\ messages' = messages \o <<m>> /\ said' = said \o <<m>>
       /\ shared' => messages' = kept'
       /\ messages' # <<>> /\ (messages # <<>> => messages'[1] = messages[1])
       /\ Groups(messages') = Groups(messages) \cup {IdsOf(m)}
       /\ Groups(said') = Groups(said) \cup {IdsOf(m)}
       /\ Groups(kept') \subseteq Groups(kept) \cup {IdsOf(m)}
       /\ SaidInv' /\ KeptInv'
  BY <1>0, <1>3, <1>10, PushStep
<1>12. TurnIds' = {} /\ Len(OfKind("handoff")') = 0
  BY <1>0, EmptyList, EmptySet, NoHandoffs DEF TurnIds, OfKind
<1>13. ShapeInv'
  <2>1. call' \in Seq([id : Id, kind : Kind])
    BY <1>0
  <2>2. handed'.count \in 0..Len(OfKind("handoff")')
    BY <1>0, <1>12
  <2> QED
    BY <1>i, <1>0, <1>11, <1>12, <2>1, <2>2 DEF ShapeInv
<1>14. SavedInv'
  BY <1>0, BeganStay
<1>15. GroupInv'
  <2>1. AllGroups' \subseteq AllGroups \cup {{}}
    BY <1>0, <1>3, <1>11, <1>12 DEF AllGroups
  <2>2. lastId \in Nat /\ lastId' = lastId
    BY <1>i, <1>0 DEF ShapeInv
  <2> QED
    BY <1>i, <2>1, <2>2, GroupsStay
<1>16. OnceInv'
  <2>1. TurnIds \subseteq UNION Groups(said)
    <3>1. Len(said) \in 1..Len(said)
      BY <1>6, <1>7
    <3>2. ToSet(said[Len(said)].uses) \subseteq UNION Groups(said)
      BY <1>7, <3>1, InGroups
    <3> QED
      BY <1>6, <3>2
  <2>2. (UNION Groups(store)) \cap (UNION Groups(said')) = {}
    BY <1>i, <1>0, <1>3, <1>11, <2>1 DEF OnceInv
  <2> QED
    BY <1>i, <1>0, <1>8, <1>9, <1>11, <2>2 DEF OnceInv
<1>17. TurnInv'
  BY <1>0, <1>6, <1>11 DEF TurnInv
<1>18. PairInv'
  BY <1>i, <1>0, <1>8, <1>9, <1>11 DEF PairInv
<1> QED
  BY <1>11, <1>13, <1>14, <1>15, <1>16, <1>17, <1>18 DEF IInv

LEMMA HandedOffStep ==
  ASSUME IInv, HandedOff
  PROVE  IInv'
<1>i. ShapeInv /\ SaidInv /\ KeptInv /\ GroupInv /\ OnceInv /\ TurnInv /\ PairInv
  BY DEF IInv
<1>0. /\ pc = "handoff" /\ pc' = "ended" /\ excused' = excused \cup ToSet(AllResults)
      /\ call' = <<>> /\ settled' = {} /\ handed'.count = 0
      /\ UNCHANGED <<strategy, store, iteration, messages, kept, shared, start, pending,
                     unsaved, said, began, compacted, runs, lastId, faults>>
  BY DEF HandedOff, NextTurn, NotHanded
<1>1. ToSet(AllResults) = TurnIds
  BY <1>i, ShapeHas, ResultsAreAll
<1>2. TurnIds' = {} /\ Len(OfKind("handoff")') = 0
  BY <1>0, EmptyList, EmptySet, NoHandoffs DEF TurnIds, OfKind
<1>3. ShapeInv'
  <2>1. call' \in Seq([id : Id, kind : Kind])
    BY <1>0
  <2>2. handed'.count \in 0..Len(OfKind("handoff")')
    BY <1>0, <1>2
  <2> QED
    BY <1>i, <1>0, <1>2, <2>1, <2>2 DEF ShapeInv
<1>4. SaidInv' /\ SavedInv'
  BY <1>i, <1>0, BeganStay DEF SaidInv
<1>5. KeptInv'
  BY <1>i, <1>0 DEF KeptInv, KeptFrom
<1>6. GroupInv'
  <2>1. AllGroups' \subseteq AllGroups \cup {{}}
    BY <1>0, <1>2 DEF AllGroups
  <2>2. lastId \in Nat /\ lastId' = lastId
    BY <1>i, <1>0 DEF ShapeInv
  <2> QED
    BY <1>i, <2>1, <2>2, GroupsStay
<1>7. OnceInv'
  BY <1>i, <1>0 DEF OnceInv
<1>8. TurnInv'
  BY <1>i, <1>0 DEF TurnInv
<1>9. PairInv'
  BY <1>i, <1>0, <1>1 DEF PairInv
<1> QED
  BY <1>3, <1>4, <1>5, <1>6, <1>7, <1>8, <1>9 DEF IInv

-----------------------------------------------------------------------------
(* What is stored.                                                         *)

(* The new messages are a part of what was said.                           *)
LEMMA NewMessagesAre ==
  ASSUME ShapeInv, SaidInv, KeptInv
  PROVE  \E i \in Nat \ {0}, k \in 0..Len(said) :
           /\ NewMessages = SubSeq(said, i, k)
           /\ ~compacted => i = 1
           /\ shared => k = Len(said)
           /\ ~shared => Orphans(SubSeq(said, 1, k)) \subseteq excused
<1>1. kept \in Seq(Message) /\ said \in Seq(Message)
  BY ListsAre
<1>2. Len(kept) \in Nat /\ Len(said) \in Nat /\ start \in Nat
  BY <1>1 DEF ShapeInv
<1>3. PICK b \in 0..Len(kept) : KeptFrom(b)
  BY DEF KeptInv
<1> DEFINE k == Len(kept) - b
<1>4. /\ b <= start + 1 /\ b \in Nat /\ b <= Len(kept) /\ k \in Nat /\ k <= Len(said)
      /\ b + k = Len(kept)
      /\ \A i \in 1..k : kept[b + i] = said[i]
      /\ b = start + 1 => kept[b] = Input
      /\ ~compacted => b >= start
      /\ shared => k = Len(said)
      /\ ~shared => Orphans(SubSeq(said, 1, k)) \subseteq excused
  BY <1>2, <1>3 DEF KeptFrom
<1> HIDE DEF k
<1> DEFINE S == {m \in Message : m.text # "memory"}
           l == SubSeq(kept, start + 1, Len(kept))
<1>5. /\ l \in Seq(Message) /\ Len(l) \in Nat
      /\ Len(l) = (IF start + 1 <= Len(kept) THEN (Len(kept) - (start + 1)) + 1 ELSE 0)
      /\ \A n \in 1..Len(l) : ((start + 1) + n) - 1 \in 1..Len(kept) /\ l[n] = kept[((start + 1) + n) - 1]
  <2>1. start + 1 \in Nat \ {0} /\ Len(kept) <= Len(kept)
    BY <1>2
  <2> QED
    BY <1>1, <1>2, <2>1, PartAt
<1>6. NewMessages = (IF Filter(l, S) # <<>> /\ Filter(l, S)[1] = Input THEN Tail(Filter(l, S)) ELSE Filter(l, S))
  BY DEF NewMessages
<1> HIDE DEF l
<1>7. \A n \in 1..Len(l) : start + n \in 1..Len(kept) /\ l[n] = kept[start + n]
  <2> TAKE n \in 1..Len(l)
  <2>1. ((start + 1) + n) - 1 = start + n
    BY <1>2
  <2> QED
    BY <1>5, <2>1
<1>8. \A i \in 1..Len(said) : said[i] \in Message /\ said[i].text \notin {"memory", "input"}
  <2>1. DOMAIN said = 1..Len(said)
    BY <1>1
  <2> QED
    BY <1>1, <2>1 DEF SaidInv, Said
<1>9. CASE b = start + 1
  <2>1. Len(l) = k + 1 /\ 1 \in 1..Len(l) /\ l[1] = Input
    <3>1. Len(l) = k + 1
      BY <1>2, <1>4, <1>5, <1>9
    <3>2. 1 \in 1..Len(l) /\ l[1] = kept[start + 1]
      BY <1>4, <1>7, <3>1
    <3> QED
      BY <1>4, <1>9, <3>1, <3>2
  <2>2. \A n \in 1..k : n + 1 \in 1..Len(l) /\ l[n + 1] = said[n] /\ n \in 1..Len(said)
    <3> TAKE n \in 1..k
    <3>1. n + 1 \in 1..Len(l) /\ start + (n + 1) = b + n /\ n \in 1..Len(said)
      BY <1>2, <1>4, <1>9, <2>1
    <3> QED
      BY <1>4, <1>7, <3>1
  <2>3. \A n \in 1..Len(l) : l[n] \in S
    <3> TAKE n \in 1..Len(l)
    <3>1. CASE n = 1
      BY <2>1, <3>1, InputIs
    <3>2. CASE n # 1
      <4>1. n - 1 \in 1..k /\ (n - 1) + 1 = n
        BY <1>4, <2>1, <3>2
      <4>2. l[n] = said[n - 1] /\ n - 1 \in 1..Len(said)
        BY <2>2, <4>1
      <4> QED
        BY <1>8, <4>2
    <3> QED
      BY <3>1, <3>2
  <2>4. Filter(l, S) = l
    BY <1>5, <2>3, FilterAll
  <2>5. l # <<>>
    BY <1>4, <1>5, <2>1
  <2>6. NewMessages = Tail(l)
    BY <1>6, <2>1, <2>4, <2>5
  <2> DEFINE t == Tail(l)
             p == SubSeq(said, 1, k)
  <2>7. t \in Seq(Message) /\ Len(t) = Len(l) - 1 /\ \A i \in 1..Len(t) : t[i] = l[i + 1]
    BY <1>5, <2>5, HeadTailProperties
  <2>8. /\ p \in Seq(Message) /\ Len(p) = (IF 1 <= k THEN (k - 1) + 1 ELSE 0)
        /\ \A n \in 1..Len(p) : p[n] = said[(1 + n) - 1]
    <3>1. 1 \in Nat \ {0}
      OBVIOUS
    <3> QED
      BY <1>1, <1>4, <3>1, PartAt
  <2> HIDE DEF t, p
  <2>9. Len(t) = k /\ Len(p) = k /\ \A n \in 1..k : (1 + n) - 1 = n
    BY <1>4, <2>1, <2>7, <2>8
  <2>10. \A n \in 1..k : t[n] = p[n]
    BY <2>2, <2>7, <2>8, <2>9
  <2>11. t = p
    BY <2>7, <2>8, <2>9, <2>10, SeqEqual
  <2>12. NewMessages = SubSeq(said, 1, k) /\ 1 \in Nat \ {0} /\ k \in 0..Len(said)
    BY <1>2, <1>4, <2>6, <2>11 DEF t, p
  <2> QED
    BY <1>4, <2>12
<1>10. CASE b # start + 1
  <2> DEFINE d == start - b
             i == d + 1
             p == SubSeq(said, i, k)
  <2>1. d \in Nat /\ b + d = start /\ i \in Nat \ {0} /\ (~compacted => i = 1)
    <3>1. d \in Nat /\ b + d = start /\ i \in Nat \ {0}
      BY <1>2, <1>4, <1>10
    <3>2. CASE ~compacted
      BY <1>2, <1>4, <1>10, <3>2
    <3> QED
      BY <3>1, <3>2
  <2>a. i = d + 1
    OBVIOUS
  <2> HIDE DEF i, d
  <2>2. /\ p \in Seq(Message) /\ Len(p) = (IF i <= k THEN (k - i) + 1 ELSE 0)
        /\ \A n \in 1..Len(p) : (i + n) - 1 \in 1..Len(said) /\ p[n] = said[(i + n) - 1]
    BY <1>1, <1>4, <2>1, PartAt
  <2> HIDE DEF p
  <2>b. /\ b \in Nat /\ k \in Nat /\ d \in Nat /\ Len(said) \in Nat
        /\ start = b + d /\ Len(kept) = b + k /\ k <= Len(said)
    BY <1>2, <1>4, <2>1
  <2>3. Len(l) = Len(p)
    <3>1. start + 1 <= Len(kept) <=> i <= k
      BY <2>a, <2>b
    <3>2. (Len(kept) - (start + 1)) + 1 = (k - i) + 1
      BY <2>a, <2>b
    <3>3. Len(l) = (IF start + 1 <= Len(kept) THEN (Len(kept) - (start + 1)) + 1 ELSE 0)
      BY <1>5
    <3>4. Len(p) = (IF i <= k THEN (k - i) + 1 ELSE 0)
      BY <2>2
    <3> QED
      BY <3>1, <3>2, <3>3, <3>4
  <2>4. \A n \in 1..Len(l) : l[n] = said[d + n] /\ d + n \in 1..Len(said)
    <3> TAKE n \in 1..Len(l)
    <3>1. start + n \in 1..Len(kept) /\ l[n] = kept[start + n]
      BY <1>7
    <3>2. n \in Nat /\ n >= 1 /\ start + n <= b + k
      BY <1>4, <1>5, <3>1
    <3>3. d + n \in 1..k /\ start + n = b + (d + n) /\ d + n \in 1..Len(said)
      BY <2>b, <3>2
    <3>4. kept[b + (d + n)] = said[d + n]
      BY <1>4, <3>3
    <3> QED
      BY <3>1, <3>3, <3>4
  <2>5. \A n \in 1..Len(l) : l[n] = p[n]
    <3> TAKE n \in 1..Len(l)
    <3>1. (i + n) - 1 = d + n
      BY <1>5, <2>1, <2>a
    <3> QED
      BY <2>2, <2>3, <2>4, <3>1
  <2>6. l = p
    BY <1>5, <2>2, <2>3, <2>5, SeqEqual
  <2>7. \A n \in 1..Len(l) : l[n] \in S /\ l[n] # Input
    BY <1>8, <2>4, InputIs
  <2>8. Filter(l, S) = l
    BY <1>5, <2>7, FilterAll
  <2>9. NewMessages = l
    <3>1. l # <<>> => 1 \in 1..Len(l)
      <4>1. l # <<>> => Len(l) # 0
        BY <1>5
      <4> QED
        BY <1>5, <4>1
    <3> QED
      BY <1>6, <2>7, <2>8, <3>1
  <2>10. NewMessages = SubSeq(said, i, k) /\ k \in 0..Len(said)
    BY <1>2, <1>4, <2>6, <2>9 DEF p
  <2> QED
    BY <1>4, <2>1, <2>10
<1> QED
  BY <1>9, <1>10

(* What a run stores is a part of what it said, as it was said.            *)
LEMMA ToSaveIs ==
  ASSUME IInv, pc = "ended"
  PROVE  /\ ProperList(ToSave) /\ OnceEach(ToSave)
         /\ Groups(ToSave) \subseteq Groups(said) \cup {{}}
         /\ \A i \in DOMAIN ToSave : ToSave[i].pruned = {}
         /\ ~compacted => Orphans(ToSave) \subseteq excused
         /\ shared /\ ~compacted => NewMessages = said
<1>i. ShapeInv /\ SaidInv /\ KeptInv /\ OnceInv /\ PairInv
  BY DEF IInv
<1>1. PICK i \in Nat \ {0}, k \in 0..Len(said) :
        /\ NewMessages = SubSeq(said, i, k)
        /\ ~compacted => i = 1
        /\ shared => k = Len(said)
        /\ ~shared => Orphans(SubSeq(said, 1, k)) \subseteq excused
  BY <1>i, NewMessagesAre
<1>2. ProperList(said) /\ said \in Seq(Message) /\ Len(said) \in Nat /\ OnceEach(said)
  BY <1>i, ShapeHas, ListsAre DEF OnceInv
<1>3. k \in Nat /\ k <= Len(said)
  BY <1>2
<1> DEFINE s == SubSeq(said, i, k)
           t == ToStored(s)
           head == <<Input>>
<1>4. ProperList(s) /\ Groups(s) \subseteq Groups(said) /\ OnceEach(s)
  BY <1>2, <1>3, PartHas
<1>5. \A n \in DOMAIN s : s[n].pruned = {}
  <2>1. /\ s \in Seq(Message)
        /\ \A n \in 1..Len(s) : (i + n) - 1 \in 1..Len(said) /\ s[n] = said[(i + n) - 1]
    BY <1>2, <1>3, PartAt
  <2>2. \A n \in 1..Len(said) : said[n].pruned = {}
    <3>1. DOMAIN said = 1..Len(said)
      BY <1>2
    <3> QED
      BY <1>i, <3>1 DEF SaidInv, Said
  <2> HIDE DEF s
  <2>3. DOMAIN s = 1..Len(s)
    BY <2>1
  <2> QED
    BY <2>1, <2>2, <2>3
<1>6. Orphans(said) \subseteq excused
  <2>1. TurnIds = {}
    BY <1>i, NoTurn
  <2> QED
    BY <1>i, <2>1 DEF PairInv
<1>7. shared /\ ~compacted => s = said
  BY <1>1, <1>2
<1>8. ~compacted => Orphans(s) \subseteq excused
  <2>1. CASE ~compacted /\ shared
    BY <1>6, <1>7, <2>1
  <2>2. CASE ~compacted /\ ~shared
    BY <1>1, <2>2
  <2> QED
    BY <2>1, <2>2
<1>9. NewMessages = s
  BY <1>1
<1> HIDE DEF s
<1>10. Converts(t, s) /\ (\A n \in DOMAIN t : t[n].pruned = {})
  BY <1>4, <1>5, StoredConverts
<1>11. /\ ProperList(t) /\ OnceEach(t) /\ Groups(t) \subseteq Groups(s)
       /\ Orphans(t) \subseteq Orphans(s)
  BY <1>4, <1>10 DEF Converts
<1>12. ToSave = head \o t
  BY <1>9 DEF ToSave
<1> HIDE DEF t
<1>13. /\ head \in Seq(Message) /\ Len(head) = 1 /\ head # <<>> /\ head[1] = Input
       /\ \A n \in 1..Len(head) : head[n] = Input
  BY InputIs
<1> HIDE DEF head
<1>14. ProperList(head) /\ \A n \in 1..Len(head) : IdsOf(head[n]) = {}
  BY <1>13, InputIs DEF ProperList
<1> DEFINE u == head \o t
<1>15. /\ ProperList(u) /\ OnceEach(u) /\ Groups(u) \subseteq Groups(t) \cup {{}}
       /\ Orphans(u) \subseteq Orphans(t)
  BY <1>11, <1>13, <1>14, PlainFirst
<1>16. \A n \in DOMAIN u : u[n].pruned = {}
  <2>1. t \in Seq(Message)
    BY <1>11 DEF ProperList
  <2>2. /\ u \in Seq(Message)
        /\ \A n \in 1..Len(u) : \/ n \in 1..Len(head) /\ u[n] = head[n]
                                \/ n - Len(head) \in 1..Len(t) /\ u[n] = t[n - Len(head)]
    <3>1. head \in Seq(Message)
      BY <1>13
    <3> QED
      BY <2>1, <3>1, ConcatAt
  <2> HIDE DEF u
  <2>3. DOMAIN u = 1..Len(u) /\ DOMAIN t = 1..Len(t)
    BY <2>1, <2>2
  <2>4. \A n \in 1..Len(t) : t[n].pruned = {}
    BY <1>10, <2>3
  <2>5. \A n \in 1..Len(u) : u[n].pruned = {}
    BY <1>13, <2>2, <2>4, InputIs
  <2> QED
    BY <2>3, <2>5
<1> HIDE DEF u
<1>17. ToSave = u
  BY <1>12 DEF u
<1> QED
  BY <1>4, <1>7, <1>8, <1>9, <1>11, <1>15, <1>16, <1>17

LEMMA PersistStep ==
  ASSUME IInv, Persist
  PROVE  IInv'
<1>i. ShapeInv /\ SaidInv /\ KeptInv /\ GroupInv /\ OnceInv /\ TurnInv /\ PairInv
  BY DEF IInv
<1> DEFINE u == ToSave
<1>0. /\ pc = "ended" /\ pc' = "persist" /\ unsaved' = u
      /\ UNCHANGED <<strategy, store, iteration, messages, kept, shared, start, call, settled,
                     handed, said, began, compacted, excused, lastId>>
  BY DEF Persist, loop, history
<1>1. /\ ProperList(u) /\ OnceEach(u) /\ Groups(u) \subseteq Groups(said) \cup {{}}
      /\ \A i \in DOMAIN u : u[i].pruned = {}
      /\ ~compacted => Orphans(u) \subseteq excused
      /\ shared /\ ~compacted => NewMessages = said
  BY <1>0, ToSaveIs
<1>2. shared /\ ~compacted => u = <<Input>> \o ToStored(said)
  BY <1>1 DEF ToSave
<1> HIDE DEF u
<1>3. store \in Seq(Message) /\ u \in Seq(Message) /\ ProperList(store) /\ OnceEach(store)
  BY <1>i, <1>1, ListsAre, ShapeHas, StoreOnce DEF ProperList
<1>4. TurnIds' = TurnIds /\ OfKind("handoff")' = OfKind("handoff")
  BY <1>0 DEF TurnIds, OfKind
<1>5. ShapeInv'
  BY <1>i, <1>0, <1>1, <1>4 DEF ShapeInv
<1>6. SaidInv'
  BY <1>i, <1>0, <1>1 DEF SaidInv
<1>7. KeptInv'
  BY <1>i, <1>0 DEF KeptInv, KeptFrom
<1>8. SavedInv'
  <2>1. began = store
    BY <1>0 DEF IInv, SavedInv
  <2>2. shared /\ ~compacted => store \o u = began \o (<<Input>> \o ToStored(said))
    BY <1>2, <2>1
  <2> QED
    BY <1>0, <2>2 DEF SavedInv, AllIsStored
<1>9. GroupInv'
  <2>1. AllGroups' \subseteq AllGroups \cup {{}}
    BY <1>0, <1>1, <1>4 DEF AllGroups
  <2>2. lastId \in Nat /\ lastId' = lastId
    BY <1>i, <1>0 DEF ShapeInv
  <2> QED
    BY <1>i, <2>1, <2>2, GroupsStay
<1>10. OnceInv'
  <2>1. (UNION Groups(store)) \cap (UNION Groups(said)) = {}
    BY <1>i, <1>0 DEF OnceInv
  <2>2. (UNION Groups(store)) \cap (UNION Groups(u)) = {}
    BY <1>1, <2>1
  <2>3. OnceEach(store \o u)
    BY <1>1, <1>3, <2>2, OnceJoin
  <2> QED
    BY <1>i, <1>0, <2>3 DEF OnceInv
<1>11. TurnInv'
  BY <1>i, <1>0 DEF TurnInv
<1>12. PairInv'
  <2>1. ~compacted => Orphans(FromStored(store \o u)) \subseteq excused
    <3>1. Orphans(FromStored(store)) \subseteq excused
      BY <1>i, <1>0 DEF PairInv
    <3>2. Converts(FromStored(u), u) /\ Converts(FromStored(store), store)
      BY <1>1, <1>3, LoadedConverts
    <3>3. /\ FromStored(u) \in Seq(Message) /\ FromStored(store) \in Seq(Message)
          /\ Orphans(FromStored(u)) \subseteq Orphans(u)
      BY <3>2 DEF Converts, ProperList
    <3>4. FromStored(store \o u) = FromStored(store) \o FromStored(u)
      BY <1>3, LoadedSplits
    <3>5. Orphans(FromStored(store \o u)) \subseteq Orphans(FromStored(store)) \cup Orphans(FromStored(u))
      BY <3>3, <3>4, OrphansJoin
    <3> QED
      BY <1>1, <3>1, <3>3, <3>5
  <2>2. Orphans(messages') \subseteq excused' \cup TurnIds' /\ Orphans(said') \subseteq excused' \cup TurnIds'
    BY <1>i, <1>0, <1>4 DEF PairInv
  <2> QED
    BY <1>0, <2>1, <2>2 DEF PairInv
<1> QED
  BY <1>5, <1>6, <1>7, <1>8, <1>9, <1>10, <1>11, <1>12 DEF IInv

(* A message goes from what is to be stored to the store.                  *)
LEMMA Moved ==
  ASSUME NEW s, ProperList(s), NEW u, ProperList(u), u # <<>>
  PROVE  LET t == Append(s, Head(u))
         IN  /\ ProperList(t) /\ ProperList(Tail(u)) /\ t \o Tail(u) = s \o u
             /\ Groups(t) \cup Groups(Tail(u)) \subseteq Groups(s) \cup Groups(u)
             /\ (\A i \in DOMAIN s : s[i].pruned = {}) /\ (\A i \in DOMAIN u : u[i].pruned = {}) =>
                  /\ \A i \in DOMAIN t : t[i].pruned = {}
                  /\ \A i \in DOMAIN Tail(u) : Tail(u)[i].pruned = {}
<1> DEFINE h == Head(u)
           t == s \o <<h>>
           r == Tail(u)
<1>1. s \in Seq(Message) /\ u \in Seq(Message) /\ Len(u) \in Nat /\ Len(u) # 0
  BY DEF ProperList
<1>2. 1 \in 1..Len(u) /\ DOMAIN u = 1..Len(u)
  BY <1>1
<1>3. h = u[1] /\ h \in Message /\ Proper(h) /\ IdsOf(h) \in Groups(u)
  <2>1. h = u[1] /\ h \in Message
    BY <1>1
  <2> QED
    BY <1>2, <2>1 DEF ProperList, Groups
<1>4. Append(s, h) = t
  BY <1>1, <1>3, AppendIsConcat
<1>5. /\ r \in Seq(Message) /\ Len(r) = Len(u) - 1 /\ \A i \in 1..Len(r) : r[i] = u[i + 1]
  BY <1>1, HeadTailProperties
<1> HIDE DEF h, r
<1>6. /\ ProperList(t) /\ Groups(t) = Groups(s) \cup {IdsOf(h)} /\ <<h>> \in Seq(Message)
      /\ Len(s) \in Nat /\ Len(t) = Len(s) + 1 /\ t[Len(t)] = h
  BY <1>3, OneMore
<1>7. \A i \in 1..Len(s) : t[i] = s[i]
  BY <1>3, OneMore
<1>8. \A i \in 1..Len(r) : i + 1 \in 1..Len(u) /\ r[i] = u[i + 1]
  BY <1>1, <1>5
<1>9. ProperList(r) /\ Groups(r) \subseteq Groups(u) /\ DOMAIN r = 1..Len(r)
  <2>1. DOMAIN r = 1..Len(r)
    BY <1>5
  <2>2. \A i \in 1..Len(r) : Proper(r[i]) /\ IdsOf(r[i]) \in Groups(u)
    BY <1>2, <1>8 DEF ProperList, Groups
  <2> QED
    BY <1>5, <2>1, <2>2 DEF ProperList, Groups
<1>10. t \o r = s \o u
  <2>1. t \in Seq(Message) /\ Len(t \o r) = Len(t) + Len(r) /\ t \o r \in Seq(Message)
    BY <1>5, <1>6, ConcatAt DEF ProperList
  <2>2. Len(s \o u) = Len(s) + Len(u) /\ s \o u \in Seq(Message)
    BY <1>1, ConcatAt
  <2>3. Len(t \o r) = Len(s \o u)
    <3>1. Len(t) + Len(r) = Len(s) + Len(u)
      <4> HIDE DEF t
      <4> QED
        BY <1>1, <1>5, <1>6
    <3> QED
      BY <2>1, <2>2, <3>1
  <2>4. \A i \in 1..Len(s) : (t \o r)[i] = (s \o u)[i]
    <3> TAKE i \in 1..Len(s)
    <3>1. i \in 1..Len(t)
      BY <1>6
    <3>2. (t \o r)[i] = t[i]
      BY <1>5, <2>1, <3>1, ConcatAt
    <3>3. (s \o u)[i] = s[i]
      BY <1>1, ConcatAt
    <3> QED
      BY <1>7, <3>2, <3>3
  <2>5. (t \o r)[Len(s) + 1] = (s \o u)[Len(s) + 1]
    <3>1. Len(s) + 1 \in 1..Len(t)
      BY <1>6
    <3>2. (t \o r)[Len(s) + 1] = t[Len(s) + 1]
      BY <1>5, <2>1, <3>1, ConcatAt
    <3>3. (s \o u)[Len(s) + 1] = u[1]
      BY <1>1, <1>2, ConcatAt
    <3> QED
      BY <1>3, <1>6, <3>2, <3>3
  <2>6. \A n \in 1..Len(r) : (t \o r)[(Len(s) + 1) + n] = (s \o u)[(Len(s) + 1) + n]
    <3> TAKE n \in 1..Len(r)
    <3>1. (t \o r)[Len(t) + n] = r[n]
      BY <1>5, <2>1, ConcatAt
    <3>2. (s \o u)[Len(s) + (n + 1)] = u[n + 1]
      BY <1>1, <1>8, ConcatAt
    <3>3. Len(s) + (n + 1) = (Len(s) + 1) + n
      BY <1>6
    <3> QED
      BY <1>6, <1>8, <3>1, <3>2, <3>3
  <2>7. \A i \in 1..Len(s \o u) :
          \/ i \in 1..Len(s) \/ i = Len(s) + 1
          \/ i - (Len(s) + 1) \in 1..Len(r) /\ i = (Len(s) + 1) + (i - (Len(s) + 1))
    BY <1>1, <1>5, <1>6, <2>2
  <2>8. \A i \in 1..Len(s \o u) : (t \o r)[i] = (s \o u)[i]
    BY <2>4, <2>5, <2>6, <2>7
  <2> QED
    BY <2>1, <2>2, <2>3, <2>8, SeqEqual
<1>11. (\A i \in DOMAIN s : s[i].pruned = {}) /\ (\A i \in DOMAIN u : u[i].pruned = {}) =>
         /\ \A i \in DOMAIN t : t[i].pruned = {}
         /\ \A i \in DOMAIN r : r[i].pruned = {}
  <2> HAVE (\A i \in DOMAIN s : s[i].pruned = {}) /\ (\A i \in DOMAIN u : u[i].pruned = {})
  <2>1. \A i \in 1..Len(s) : s[i].pruned = {}
    BY <1>1
  <2>2. \A i \in 1..Len(u) : u[i].pruned = {}
    BY <1>2
  <2>3. \A i \in DOMAIN r : r[i].pruned = {}
    BY <1>8, <1>9, <2>2
  <2>4. DOMAIN t = 1..Len(t)
    BY <1>6 DEF ProperList
  <2>5. \A i \in 1..Len(t) : i \in 1..Len(s) \/ i = Len(t)
    BY <1>6
  <2>6. h.pruned = {}
    BY <1>2, <1>3, <2>2
  <2> QED
    BY <1>6, <1>7, <2>1, <2>3, <2>4, <2>5, <2>6
<1>12. Groups(t) \cup Groups(r) \subseteq Groups(s) \cup Groups(u)
  BY <1>3, <1>6, <1>9
<1> HIDE DEF t
<1> QED
  BY <1>4, <1>6, <1>9, <1>10, <1>11, <1>12 DEF h, r

LEMMA SaveStep ==
  ASSUME IInv, SaveMessage
  PROVE  IInv'
<1>i. ShapeInv /\ SaidInv /\ KeptInv /\ SavedInv /\ GroupInv /\ OnceInv /\ TurnInv /\ PairInv
  BY DEF IInv
<1> DEFINE t == Append(store, Head(unsaved))
           r == Tail(unsaved)
<1>0. /\ pc = "persist" /\ pc' = pc /\ unsaved # <<>> /\ store' = t /\ unsaved' = r
      /\ UNCHANGED <<strategy, iteration, messages, kept, shared, start, call, settled,
                     handed, said, began, compacted, excused, lastId>>
  BY DEF SaveMessage, loop, history
<1>1. /\ ProperList(t) /\ ProperList(r) /\ t \o r = store \o unsaved
      /\ Groups(t) \cup Groups(r) \subseteq Groups(store) \cup Groups(unsaved)
      /\ (\A i \in DOMAIN store : store[i].pruned = {}) /\ (\A i \in DOMAIN unsaved : unsaved[i].pruned = {}) =>
           /\ \A i \in DOMAIN t : t[i].pruned = {}
           /\ \A i \in DOMAIN r : r[i].pruned = {}
  <2>1. ProperList(store) /\ ProperList(unsaved)
    BY <1>i, ShapeHas
  <2> QED
    BY <1>0, <2>1, Moved
<1> HIDE DEF t, r
<1>2. TurnIds' = TurnIds /\ OfKind("handoff")' = OfKind("handoff")
  BY <1>0 DEF TurnIds, OfKind
<1>3. ShapeInv'
  BY <1>i, <1>0, <1>1, <1>2 DEF ShapeInv
<1>4. SaidInv'
  BY <1>i, <1>0, <1>1 DEF SaidInv
<1>5. KeptInv'
  BY <1>i, <1>0 DEF KeptInv, KeptFrom
<1>6. SavedInv'
  <2>1. AllIsStored' <=> AllIsStored
    BY <1>0, <1>1 DEF AllIsStored
  <2> QED
    BY <1>i, <1>0, <2>1 DEF SavedInv
<1>7. GroupInv'
  <2>1. AllGroups' \subseteq AllGroups \cup {{}}
    BY <1>0, <1>1, <1>2 DEF AllGroups
  <2>2. lastId \in Nat /\ lastId' = lastId
    BY <1>i, <1>0 DEF ShapeInv
  <2> QED
    BY <1>i, <2>1, <2>2, GroupsStay
<1>8. OnceInv'
  BY <1>i, <1>0, <1>1 DEF OnceInv
<1>9. TurnInv'
  BY <1>i, <1>0 DEF TurnInv
<1>10. PairInv'
  <2>1. Orphans(messages') \subseteq excused' \cup TurnIds' /\ Orphans(said') \subseteq excused' \cup TurnIds'
    BY <1>i, <1>0, <1>2 DEF PairInv
  <2>2. ~compacted => Orphans(FromStored(t \o r)) \subseteq excused
    BY <1>i, <1>0, <1>1 DEF PairInv
  <2> QED
    BY <1>0, <2>1, <2>2 DEF PairInv
<1> QED
  BY <1>3, <1>4, <1>5, <1>6, <1>7, <1>8, <1>9, <1>10 DEF IInv

(* A run that is over.                                                     *)
LEMMA ReturnStep ==
  ASSUME IInv, Return
  PROVE  IInv'
<1>i. ShapeInv /\ PairInv
  BY DEF IInv
<1>0. /\ pc = "persist" /\ unsaved = <<>> /\ Leave
      /\ excused' = (IF compacted THEN excused \cup Orphans(FromStored(store)) ELSE excused)
      /\ store' = store /\ strategy' = strategy /\ lastId' = lastId
  BY DEF Return
<1>1. store \o unsaved = store
  BY <1>i, <1>0, ListsAre
<1>2. ~compacted => Orphans(FromStored(store)) \subseteq excused
  BY <1>i, <1>0, <1>1 DEF PairInv
<1>3. Orphans(FromStored(store)) \subseteq excused'
  BY <1>0, <1>2
<1> QED
  BY <1>0, <1>3, LeaveStep

LEMMA FailStep ==
  ASSUME IInv, RunFails \/ Crash
  PROVE  IInv'
<1>1. /\ Leave /\ Orphans(FromStored(store)) \subseteq excused'
      /\ store' = store /\ strategy' = strategy /\ lastId' = lastId
  BY DEF RunFails, Crash
<1> QED
  BY <1>1, LeaveStep

LEMMA Stutter ==
  ASSUME IInv, UNCHANGED vars
  PROVE  IInv'
<1>i. ShapeInv /\ SaidInv /\ KeptInv /\ SavedInv /\ GroupInv /\ OnceInv /\ TurnInv /\ PairInv
  BY DEF IInv
<1>0. UNCHANGED <<strategy, store, pc, iteration, messages, kept, shared, start, call, settled,
                  handed, pending, unsaved, said, began, compacted, excused, runs, lastId, faults>>
  BY DEF vars, loop, history
<1>1. /\ TurnIds' = TurnIds /\ AllGroups' = AllGroups /\ OfKind("handoff")' = OfKind("handoff")
      /\ (Ids(call))' = Ids(call)
  BY <1>0 DEF TurnIds, AllGroups, OfKind
<1>2. ShapeInv'
  BY <1>i, <1>0, <1>1 DEF ShapeInv
<1>3. SaidInv'
  BY <1>i, <1>0 DEF SaidInv
<1>4. SavedInv'
  BY <1>i, <1>0 DEF SavedInv, AllIsStored
<1>5. KeptInv'
  BY <1>i, <1>0 DEF KeptInv, KeptFrom
<1>6. GroupInv'
  BY <1>i, <1>0, <1>1 DEF GroupInv
<1>7. OnceInv'
  BY <1>i, <1>0 DEF OnceInv
<1>8. TurnInv'
  BY <1>i, <1>0, <1>1 DEF TurnInv
<1>9. PairInv'
  BY <1>i, <1>0, <1>1 DEF PairInv
<1> QED
  BY <1>2, <1>3, <1>4, <1>5, <1>6, <1>7, <1>8, <1>9 DEF IInv

LEMMA NextStep ==
  ASSUME IInv, [Next]_vars
  PROVE  IInv'
<1>1. ASSUME NEW memory \in BOOLEAN, StartRun(memory)
      PROVE  IInv'
  BY <1>1, StartStep
<1>2. CASE BeginIteration
  BY <1>2, BeginStep
<1>3. CASE EndLoop
  BY <1>3, EndStep
<1>4. CASE Answers
  BY <1>4, AnswerStep
<1>5. CASE CallsTools
  BY <1>5, CallStep
<1>6. ASSUME NEW c \in Id, ToolReturns(c) \/ ToolTimesOut(c)
      PROVE  IInv'
  BY <1>6, SettleStep
<1>7. CASE LaunchTasks
  BY <1>7, LaunchStep
<1>8. ASSUME NEW found \in BOOLEAN, Handoff(found)
      PROVE  IInv'
  BY <1>8, HandoffStep
<1>9. CASE ApplyToolResults
  BY <1>9, ApplyStep
<1>10. CASE HandedOff
  BY <1>10, HandedOffStep
<1>11. CASE Persist
  BY <1>11, PersistStep
<1>12. CASE SaveMessage
  BY <1>12, SaveStep
<1>13. CASE Return
  BY <1>13, ReturnStep
<1>14. CASE RunFails \/ Crash
  BY <1>14, FailStep
<1>15. CASE UNCHANGED vars
  BY <1>15, Stutter
<1> QED
  BY <1>1, <1>2, <1>3, <1>4, <1>5, <1>6, <1>7, <1>8, <1>9, <1>10, <1>11, <1>12, <1>13, <1>14,
     <1>15 DEF Next

(* The inductive invariant holds of every behaviour.                       *)
THEOREM Inductive == Spec => []IInv
<1>1. Init => IInv
  BY InitInv
<1>2. IInv /\ [Next]_vars => IInv'
  BY NextStep
<1> QED
  BY <1>1, <1>2, PTL DEF Spec

-----------------------------------------------------------------------------
(* What follows from it.                                                   *)

(* The loop's position always agrees with the turn it is in: calls are     *)
(* there exactly while they are executed, what has settled is one of them, *)
(* no more handoffs are done than were called, and every id in any list of *)
(* messages is one the provider has given.                                 *)
THEOREM TypeCorrect == Spec => []TypeOK
<1>1. IInv => TypeOK
  <2> SUFFICES ASSUME IInv PROVE TypeOK
    OBVIOUS
  <2>1. ShapeInv /\ GroupInv
    BY DEF IInv
  <2>2. ASSUME NEW ms \in {store, unsaved, messages, kept, said}
        PROVE  /\ ms \in Seq(Message)
               /\ \A i \in DOMAIN ms :
                    /\ ToSet(ms[i].uses) \cup ToSet(ms[i].results) \subseteq 1..lastId
                    /\ ms[i].pruned \subseteq ToSet(ms[i].results)
    <3>1. ProperList(ms)
      BY <2>1, ShapeHas
    <3>2. Groups(ms) \subseteq AllGroups /\ UNION AllGroups \subseteq 1..lastId
      BY <2>1 DEF AllGroups, GroupInv
    <3>3. ASSUME NEW i \in DOMAIN ms
          PROVE  /\ ToSet(ms[i].uses) \cup ToSet(ms[i].results) \subseteq 1..lastId
                 /\ ms[i].pruned \subseteq ToSet(ms[i].results)
      <4>1. IdsOf(ms[i]) \in Groups(ms)
        BY DEF Groups
      <4>2. IdsOf(ms[i]) \subseteq 1..lastId
        BY <3>2, <4>1
      <4>3. Proper(ms[i])
        BY <3>1 DEF ProperList
      <4> QED
        BY <4>2, <4>3 DEF IdsOf, Proper
    <3> QED
      BY <3>1, <3>3 DEF ProperList
  <2>3. Len(OfKind("handoff")) \in Nat
    BY <2>1, ShapeHas, OfKindHas DEF Kind
  <2>4. handed.count <= Len(OfKind("handoff"))
    BY <2>1, <2>3 DEF ShapeInv
  <2> QED
    BY <2>1, <2>2, <2>4 DEF ShapeInv, TypeOK, TurnIds
<1> QED
  BY <1>1, Inductive, PTL

(* However a context was pruned, the store keeps results as they were.     *)
THEOREM Verbatim == Spec => []StoredIsVerbatim
<1>1. IInv => StoredIsVerbatim
  BY DEF IInv, SaidInv, StoredIsVerbatim
<1> QED
  BY <1>1, Inductive, PTL

(* A run whose messages were neither compacted at its start nor replaced   *)
(* in its loop adds to the store its input and all that was said, in their *)
(* order and once, and nothing else.                                       *)
THEOREM Saved == Spec => []SavesWhatWasSaid
<1>1. IInv => SavesWhatWasSaid
  BY DEF IInv, SavedInv, SavesWhatWasSaid
<1> QED
  BY <1>1, Inductive, PTL

(* A request to the provider or to a target never holds a call without its *)
(* results, or results without their call, unless the turn was handed off, *)
(* a summary cut between the two, messages were compacted as a run         *)
(* started, or a fault stopped a run while it stored its messages.         *)
THEOREM Causes == Spec => []OrphansHaveCause
<1>1. IInv => OrphansHaveCause
  <2> SUFFICES ASSUME IInv PROVE OrphansHaveCause
    OBVIOUS
  <2>1. ShapeInv /\ PairInv
    BY DEF IInv
  <2>2. Orphans(messages) \subseteq excused \cup TurnIds
    BY <2>1 DEF PairInv
  <2>3. CASE pc = "handoff"
    BY <2>2, <2>3 DEF OrphansHaveCause, Request, TurnIds
  <2>4. CASE pc = "llm"
    <3>1. TurnIds = {}
      BY <2>1, <2>4, NoTurn
    <3> QED
      BY <2>2, <2>4, <3>1 DEF OrphansHaveCause, Request
  <2>5. CASE pc \notin {"llm", "handoff"}
    BY <2>5, EmptyList DEF OrphansHaveCause, Request
  <2> QED
    BY <2>3, <2>4, <2>5
<1> QED
  BY <1>1, Inductive, PTL
=============================================================================
