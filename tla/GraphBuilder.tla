---------------------------- MODULE GraphBuilder ----------------------------
(***************************************************************************)
(* Building a graph: the validations of graph() in their order, Kahn's     *)
(* algorithm in toposort with one step per wave, and the node set of a     *)
(* back edge's cycle.  What a built graph guarantees is what GraphExecutor *)
(* assumes of its Waves and of the cycles of its BackEdge.                 *)
(*                                                                         *)
(* A wave is a set.  The code lists the ids of a wave in the order of the  *)
(* node map; what is said of the order of execution holds for any order    *)
(* within a wave.                                                          *)
(***************************************************************************)
EXTENDS Naturals, Sequences, FiniteSets, Functions

CONSTANTS
  Id,       \* the ids of nodes
  Inputs    \* GraphInputs: the nodes' ids, the edges, the entry

\* A back edge has a maxIterations.
Edge == [from : Id, to : Id, back : BOOLEAN, max : Nat]

ASSUME InputsAssumption ==
  \A in \in Inputs :
    in.nodes \in Seq(Id) /\ in.edges \in Seq(Edge) /\ in.entry \in Id

VARIABLES
  input,      \* the GraphInput being built
  pc,         \* "validate", "sort", "built" or "rejected"
  error,      \* which GraphValidationError was thrown
  inDegree,   \* the in-degrees that are left
  remaining,  \* the ids that are in no wave yet
  waves       \* the waves found so far, a sequence of sets of ids

vars == <<input, pc, error, inDegree, remaining, waves>>

Ids(in) == Range(in.nodes)
Forward(in) == {e \in Range(in.edges) : ~e.back}
BackEdges(in) == {e \in Range(in.edges) : e.back}

\* A set of edges as a relation on ids.
Pairs(edges) == {<<e.from, e.to>> : e \in edges}
Converse(R) == {<<p[2], p[1]>> : p \in R}

\* Breadth-first search from start along R; a path visits no more ids than R
\* has pairs.
CollectReachable(start, R) ==
  LET visited[k \in 0..Cardinality(R)] ==
        IF k = 0 THEN {start}
        ELSE LET seen == visited[k-1]
             IN  seen \cup {p[2] : p \in {q \in R : q[1] \in seen}}
  IN  visited[Cardinality(R)]

\* Mutant of Orphans: the search follows back edges too.
OrphansOfAllEdges(in) ==
  LET pairs == Pairs(Range(in.edges))
  IN  Ids(in) \ CollectReachable(in.entry, pairs \cup Converse(pairs))

\* The ids that no undirected path of forward edges connects to the entry.
Orphans(in) ==
  LET pairs == Pairs(Forward(in))
  IN  Ids(in) \ CollectReachable(in.entry, pairs \cup Converse(pairs))

Duplicate(in) == ~IsInjective(in.nodes)
EntryMissing(in) == in.entry \notin Ids(in)
Dangling(in) == \E e \in Range(in.edges) : e.from \notin Ids(in) \/ e.to \notin Ids(in)
SelfEdge(in) == \E e \in Range(in.edges) : e.from = e.to
Unbounded(in) == \E e \in BackEdges(in) : e.max = 0

\* The validation that throws: the first one whose condition holds.
FirstError(in) ==
  IF Duplicate(in) THEN "duplicate"
  ELSE IF EntryMissing(in) THEN "entry"
  ELSE IF Dangling(in) THEN "reference"
  ELSE IF SelfEdge(in) THEN "self"
  ELSE IF Unbounded(in) THEN "maxIterations"
  ELSE IF Orphans(in) # {} THEN "orphan"
  ELSE "none"

\* The forward edges from a set of ids into an id, by their numbers: an edge
\* that occurs twice counts twice.
EdgesFrom(sources, id) ==
  {n \in DOMAIN input.edges :
     input.edges[n] \in Forward(input) /\ input.edges[n].to = id /\ input.edges[n].from \in sources}

EdgesInto(id, sources) == Cardinality(EdgesFrom(sources, id))

-----------------------------------------------------------------------------
Init ==
  /\ input \in Inputs
  /\ pc = "validate" /\ error = "none"
  /\ inDegree = <<>> /\ remaining = {} /\ waves = <<>>

Reject(e) == pc' = "rejected" /\ error' = e

\* A validation throws before anything is sorted.
ValidationFails ==
  /\ pc = "validate"
  /\ FirstError(input) # "none"
  /\ Reject(FirstError(input))
  /\ UNCHANGED <<input, inDegree, remaining, waves>>

\* The start of toposort: every in-degree is counted, nothing is in a wave.
Validate ==
  /\ pc = "validate"
  /\ FirstError(input) = "none"
  /\ pc' = "sort"
  /\ inDegree' = [id \in Ids(input) |-> EdgesInto(id, Ids(input))]
  /\ remaining' = Ids(input)
  /\ UNCHANGED <<input, error, waves>>

\* Mutant of Ready: one edge left does not hold a node back.
ReadyWithOneEdge(id) == inDegree[id] <= 1

Ready(id) == inDegree[id] = 0

Wave == {id \in remaining : Ready(id)}

\* Mutant of TakeWave: an edge that occurs twice is counted down once.
TakeWaveOncePerNode ==
  /\ pc = "sort" /\ Wave # {}
  /\ remaining' = remaining \ Wave
  /\ inDegree' = [id \in Ids(input) |->
       IF EdgesInto(id, Wave) > 0 THEN inDegree[id] - 1 ELSE inDegree[id]]
  /\ waves' = Append(waves, Wave)
  /\ UNCHANGED <<input, pc, error>>

TakeWave ==
  /\ pc = "sort" /\ Wave # {}
  /\ remaining' = remaining \ Wave
  /\ inDegree' = [id \in Ids(input) |-> inDegree[id] - EdgesInto(id, Wave)]
  /\ waves' = Append(waves, Wave)
  /\ UNCHANGED <<input, pc, error>>

\* No id is ready but some remain: GraphCycleError.
DetectCycle ==
  /\ pc = "sort" /\ remaining # {} /\ Wave = {}
  /\ Reject("cycle")
  /\ UNCHANGED <<input, inDegree, remaining, waves>>

Built ==
  /\ pc = "sort" /\ remaining = {}
  /\ pc' = "built"
  /\ UNCHANGED <<input, error, inDegree, remaining, waves>>

Next == ValidationFails \/ Validate \/ TakeWave \/ DetectCycle \/ Built

Spec == Init /\ [][Next]_vars

-----------------------------------------------------------------------------
\* The order of execution is that of the waves: an id comes before another.
Earlier(id, other) ==
  \E v, w \in DOMAIN waves : v < w /\ id \in waves[v] /\ other \in waves[w]

\* Mutant of CycleNodes: everything reachable from the target is in the cycle.
ReachableNodes(b) == Ids(input) \cap CollectReachable(b.to, Pairs(Forward(input)))

\* getCycleNodes: the nodes on a path of forward edges from the target of
\* back edge b to its source.
CycleNodes(b) ==
  LET fromTarget == CollectReachable(b.to, Pairs(Forward(input)))
      toSource == CollectReachable(b.from, Converse(Pairs(Forward(input))))
  IN  Ids(input) \cap fromTarget \cap toSource

-----------------------------------------------------------------------------
HasSource(id, S) == \E e \in Forward(input) : e.to = id /\ e.from \in S

(* A set of ids each of which waits for another one of the set: no order   *)
(* of execution exists.                                                    *)
Deadlocked(S) == S # {} /\ \A id \in S : HasSource(id, S)

(* Every node of a built graph is in exactly one wave, every forward edge  *)
(* goes to a later wave, and a node waits no longer than it must: one of   *)
(* its sources is in the wave before its own.                              *)
WavesAreLevels ==
  pc = "built" =>
    /\ UNION Range(waves) = Ids(input)
    /\ \A v, w \in DOMAIN waves : v # w => waves[v] \cap waves[w] = {}
    /\ \A e \in Forward(input) : Earlier(e.from, e.to)
    /\ \A w \in DOMAIN waves \ {1} : \A id \in waves[w] : HasSource(id, waves[w-1])

(* A graph is rejected for a cycle exactly when some of its nodes wait for *)
(* each other along forward edges; back edges do not count.                *)
CyclesRejected ==
  /\ pc = "built" => \A S \in SUBSET Ids(input) : ~Deadlocked(S)
  /\ pc = "rejected" /\ error = "cycle" => \E S \in SUBSET Ids(input) : Deadlocked(S)

(* A built graph is in one piece: from any set of its nodes that holds the *)
(* entry some forward edge leads out of the set or into it.                *)
BuiltIsConnected ==
  pc = "built" =>
    \A S \in SUBSET Ids(input) :
      input.entry \in S /\ S # Ids(input) =>
        \E e \in Forward(input) : (e.from \in S) # (e.to \in S)

(* An iteration of a back edge starts at the edge's target, runs a node    *)
(* only after one of its sources ran in the same iteration and never       *)
(* before one, and ends at the edge's source, whose output decides whether *)
(* to go round again.  A back edge whose source its target does not lead   *)
(* to has no iterations.                                                   *)
CyclesRunFromTargetToSource ==
  pc = "built" =>
    \A b \in BackEdges(input) :
      LET cycle == CycleNodes(b)
          before(id) == {other \in cycle : Earlier(other, id)}
      IN  cycle # {} =>
            /\ {b.from, b.to} \subseteq cycle
            /\ \A id \in cycle : id = b.to \/ Earlier(b.to, id)
            /\ \A id \in cycle : id = b.from \/ Earlier(id, b.from)
            /\ \A id \in cycle \ {b.to} : HasSource(id, before(id))
            /\ \A id \in cycle : ~HasSource(id, cycle \ before(id))

=============================================================================
