----------------------------- MODULE Clustering -----------------------------
(***************************************************************************)
(* Stage 3 of the pipeline, cluster_signed: Louvain on the positive edges, *)
(* one node a step; clusters with many contradictions are split in two;    *)
(* the smallest are merged until the cap holds.  Claims are integers: the  *)
(* order of their ids breaks every tie.  Weights are doubled and gains are *)
(* scaled by the total weight, so both are whole numbers.                  *)
(*                                                                         *)
(* The job passes no edges today, the function takes any: both are checked.*)
(***************************************************************************)
EXTENDS Seeding

CONSTANT MaxClusters     (* 12 in the code                                   *)

ASSUME ClusteringAssumption == MaxClusters \in Nat \ {0}

VARIABLES
  adj,       (* [Claims -> [Claims -> Nat]]: the positive weights, doubled   *)
  foes,      (* the contradictions, as the edges they are                    *)
  strength,  (* [Claims -> Nat]: node_strength                               *)
  comm,      (* [visited -> Claims]: community_of                            *)
  todo,      (* the nodes this pass has not visited                          *)
  improved,  (* a node moved in this pass                                    *)
  louvain,   (* the partition Louvain returned                               *)
  parts      (* the clusters so far                                          *)

clusteringVars == <<adj, foes, strength, comm, todo, improved, louvain, parts>>

EdgeTypes == {"supports", "corroborates", "methodology", "contradicts", "supersedes"}
\* The sum of f over the claims of S, which f is defined on.
SumOver(S, f) == MapThenSumSet(LAMBDA x : f[x], S)

\* An edge has a source and a target: two claims may contradict each other.
Pairs == {p \in Claims \X Claims : p[1] # p[2]}

\* Twice the weight stage 3 gives an edge.
Weight(t) ==
  CASE t \in {"supports", "corroborates"} -> 2
    [] t = "methodology" -> 1
    [] t = "contradicts" -> -1
    [] t = "supersedes" -> 0

\* The positive part of the edges e \in [Pairs -> SUBSET EdgeTypes], seen from
\* both ends, and the negative part.
Support(e, a, b) ==
  IF a = b THEN 0 ELSE MapThenSumSet(Weight, {t \in e[<<a, b>>] : Weight(t) > 0})
PositiveAdj(e) == [a \in Claims |-> [b \in Claims |-> Support(e, a, b) + Support(e, b, a)]]
NegativeEdges(e) == {p \in Pairs : \E t \in e[p] : Weight(t) < 0}
-----------------------------------------------------------------------------
Members(c) == {m \in visited : comm[m] = c}
Candidates(n) == {comm[m] : m \in {x \in visited : adj[n][x] > 0} \cup {n}}

\* What n gains in community c, with n taken out of it, scaled by twice the
\* square of the total weight.
Gain(n, c) ==
  LET S == Members(c) \ {n}
  IN SumOver(visited, strength) * SumOver(S, adj[n]) - SumOver(S, strength) * strength[n]

\* The greatest gain wins and the smaller id at equal gain: a node moves for
\* no net gain only to a smaller id than its own.
BestCommunity(n) ==
  Min({c \in Candidates(n) : \A d \in Candidates(n) : Gain(n, d) <= Gain(n, c)})

\* Every claim starts alone.
StartClusters(e) ==
  /\ adj' = PositiveAdj(e) /\ foes' = NegativeEdges(e)
  /\ strength' = [n \in Claims |-> IF n \in visited THEN SumOver(visited, adj'[n]) ELSE 0]
  /\ comm' = [n \in visited |-> n] /\ todo' = visited /\ improved' = FALSE
  /\ louvain' = {} /\ parts' = {}

\* The nodes in the order of their ids.
VisitNode ==
  /\ todo # {}
  /\ \E best \in {BestCommunity(Min(todo))} :
       /\ comm' = [comm EXCEPT ![Min(todo)] = best]
       /\ improved' = (improved \/ best # comm[Min(todo)])
  /\ todo' = todo \ {Min(todo)}
  /\ UNCHANGED <<adj, foes, strength, louvain, parts>>

\* Mutant: a new pass starts as if a node had moved in it.
NextPassUnreset ==
  /\ todo = {} /\ improved
  /\ todo' = visited
  /\ UNCHANGED <<adj, foes, strength, comm, improved, louvain, parts>>

\* Another pass while one moves a node.
NextPass ==
  /\ todo = {} /\ improved
  /\ todo' = visited /\ improved' = FALSE
  /\ UNCHANGED <<adj, foes, strength, comm, louvain, parts>>
-----------------------------------------------------------------------------
ConflictsWithin(S) == Cardinality({p \in foes : p[1] \in S /\ p[2] \in S})
ConflictsWith(n, S) ==
  Cardinality({p \in foes : (p[1] = n /\ p[2] \in S) \/ (p[2] = n /\ p[1] \in S)})

\* Density 0.2: one contradiction for five claims.
IsDense(S) == Cardinality(S) > 1 /\ 5 * ConflictsWithin(S) > Cardinality(S)

\* The claims of S before n that side, a function of the claims, puts on s.
Before(S, n, side, s) == {m \in S : m < n /\ side[m] = s}

\* Mutant: a claim goes where it has more contradictions.
BipartitionWrong(S) ==
  LET side[n \in S] ==
        IF ConflictsWith(n, Before(S, n, side, 0)) >= ConflictsWith(n, Before(S, n, side, 1))
        THEN 0 ELSE 1
  IN <<{n \in S : side[n] = 0}, {n \in S : side[n] = 1}>>

\* Greedy bipartition in the order of the ids: a claim goes where it has fewer
\* contradictions with the ones before it, to side 0 in a tie.
Bipartition(S) ==
  LET side[n \in S] ==
        IF ConflictsWith(n, Before(S, n, side, 0)) <= ConflictsWith(n, Before(S, n, side, 1))
        THEN 0 ELSE 1
  IN <<{n \in S : side[n] = 0}, {n \in S : side[n] = 1}>>

SplitCluster(S) ==
  IF IsDense(S) THEN {Bipartition(S)[1], Bipartition(S)[2]} \ {{}} ELSE {S}

SeparateOnContradicts ==
  /\ todo = {} /\ ~improved /\ louvain = {}
  /\ louvain' = {Members(c) : c \in {comm[n] : n \in visited}}
  /\ parts' = UNION {SplitCluster(S) : S \in louvain'}
  /\ UNCHANGED <<adj, foes, strength, comm, todo, improved>>

IsBefore(c, d) ==
  Cardinality(c) < Cardinality(d) \/ (Cardinality(c) = Cardinality(d) /\ Min(c) < Min(d))
Smallest(C) == CHOOSE c \in C : \A d \in C \ {c} : IsBefore(c, d)

\* Mutant: the second smallest is dropped instead of merged.
MergeForgets ==
  /\ louvain # {} /\ Cardinality(parts) > MaxClusters
  /\ parts' = parts \ {Smallest(parts \ {Smallest(parts)})}
  /\ UNCHANGED <<adj, foes, strength, comm, todo, improved, louvain>>

\* The two smallest become one while there are too many.
MergeSmallest ==
  /\ louvain # {} /\ Cardinality(parts) > MaxClusters
  /\ LET c == Smallest(parts)
         d == Smallest(parts \ {c})
     IN parts' = (parts \ {c, d}) \cup {c \cup d}
  /\ UNCHANGED <<adj, foes, strength, comm, todo, improved, louvain>>

ClusteringStep == VisitNode \/ NextPass \/ SeparateOnContradicts \/ MergeSmallest
ClustersAreReady == louvain # {} /\ Cardinality(parts) <= MaxClusters
-----------------------------------------------------------------------------
\* Splitting leaves at most half of a cluster's contradictions inside its
\* halves, although the greedy pass never looks back.
ConflictsAreHalved ==
  \A S \in louvain : IsDense(S) =>
    2 * (ConflictsWithin(Bipartition(S)[1]) + ConflictsWithin(Bipartition(S)[2]))
      <= ConflictsWithin(S)
=============================================================================
