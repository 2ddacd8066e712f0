------------------------------ MODULE Seeding -------------------------------
(***************************************************************************)
(* Stages 1 and 2 of the pipeline: the seed claims (a theme's members, the *)
(* relevant and the diverse first, or a text recall), the seed filter, and *)
(* the traversal from the seeds.  A world is everything the stages read:   *)
(* it does not change while they run.  Similarities are percentages.       *)
(***************************************************************************)
EXTENDS Integers, Sequences, FiniteSets, SequencesExt, FiniteSetsExt

CONSTANTS
  NumClaims,   (* the claims of the kernel, 1..NumClaims                     *)
  SeedBudget   (* 50 in the code                                             *)

ASSUME SeedingAssumption == NumClaims \in Nat \ {0} /\ SeedBudget \in Nat \ {0}

Claims == 1..NumClaims

VARIABLES
  world,     (* theme: the seeds come from a theme; found: the claims the    *)
             (* kernel lists, best first; dim: the length of a claim's stored*)
             (* embedding, 0 for none that can be used; rel, cos: relevance  *)
             (* and likeness in percent; allowed: the claims the seed filter *)
             (* keeps; next: the neighbours in the provider's order;         *)
             (* relevant: what the prune keeps; readable: what the principal *)
             (* reads; hops, size: the traversal's limits                    *)
  pool,      (* candidates left, in order                                    *)
  picked,    (* the ones picked so far, in order                             *)
  seeds,     (* what the seed filter kept                                    *)
  visited,   (* the claims the traversal has                                 *)
  frontier   (* <<claim, hop>> to look at, first in first out                *)

seedingVars == <<pool, picked, seeds, visited, frontier>>

\* MMR_LAMBDA and DUP_COSINE, in tenths and in percent.
Lambda == 7
DupCosine == 95

\* The candidates with an embedding of the length of the first usable one.
Usable(found) ==
  LET sized == SelectSeq(found, LAMBDA c : world.dim[c] > 0)
  IN SelectSeq(sized, LAMBDA c : world.dim[c] = world.dim[sized[1]])

Redundancy(c) == Max({0} \cup {world.cos[c][p] : p \in ToSet(picked)})
Score(c) == Lambda * world.rel[c] - (10 - Lambda) * Redundancy(c)

\* The first of the best.
BestIn(cands) ==
  Min({i \in DOMAIN cands : \A j \in DOMAIN cands : Score(cands[j]) <= Score(cands[i])})

\* One round: the best candidate is picked, its near-duplicates leave.
PickSeed ==
  /\ pool # <<>> /\ Len(picked) < SeedBudget
  /\ LET best == BestIn(pool)
     IN /\ picked' = Append(picked, pool[best])
        /\ pool' = SelectSeq(RemoveAt(pool, best),
                             LAMBDA c : world.cos[c][pool[best]] < DupCosine)
  /\ UNCHANGED <<seeds, visited, frontier>>

PicksAreOver == pool = <<>> \/ Len(picked) = SeedBudget

\* The numbers of I, the smallest first.
InOrder(I) ==
  [k \in 1..Cardinality(I) |-> CHOOSE i \in I : Cardinality({j \in I : j <= i}) = k]

\* The seed filter, in order.
SeedFilter(chosen) ==
  LET kept == InOrder({i \in DOMAIN chosen : chosen[i] \in world.allowed})
  IN [k \in DOMAIN kept |-> chosen[kept[k]]]

StartTraversal(chosen) ==
  /\ seeds' = SeedFilter(chosen)
  /\ visited' = ToSet(chosen) \cap world.allowed
  /\ frontier' = [i \in DOMAIN seeds' |-> <<seeds'[i], 0>>]
  /\ pool' = <<>> /\ picked' = <<>>

\* The places of the neighbours that join: not known, relevant, not listed
\* before, and no more than the subgraph has room for.
Joining(neighbours) ==
  LET new == {i \in DOMAIN neighbours :
                /\ neighbours[i] \in world.relevant \ visited
                /\ \A j \in 1..(i - 1) : neighbours[j] # neighbours[i]}
  IN {i \in new : Cardinality(visited) + Cardinality({j \in new : j < i}) < world.size}

\* Mutant: last in, first out.
EnqueueInFront(queue, neighbours, h) ==
  LET order == SetToSortSeq(Joining(neighbours), >)
  IN [k \in DOMAIN order |-> <<neighbours[order[k]], h + 1>>] \o queue

\* The neighbours that join wait behind the others, in their order.
Enqueue(queue, neighbours, h) ==
  LET order == InOrder(Joining(neighbours))
  IN queue \o [k \in DOMAIN order |-> <<neighbours[order[k]], h + 1>>]

\* A claim at the last hop is not looked behind.
VisitFrontier ==
  /\ frontier # <<>> /\ Cardinality(visited) < world.size
  /\ LET claim == Head(frontier)[1]
         hop   == Head(frontier)[2]
         near  == world.next[claim]
     IN IF hop >= world.hops
        THEN visited' = visited /\ frontier' = Tail(frontier)
        ELSE /\ visited' = visited \cup {near[i] : i \in Joining(near)}
             /\ frontier' = Enqueue(Tail(frontier), near, hop)
  /\ UNCHANGED <<pool, picked, seeds>>

TraversalIsOver == frontier = <<>> \/ Cardinality(visited) >= world.size

\* A claim the principal may not read has no belief to look up: the stage fails
\* and the claim is in no snapshot.
BeliefsAreReadable == visited \subseteq world.readable
-----------------------------------------------------------------------------
\* The relevant claims one step from those of C, in world w.
Behind(w, C) == {n \in w.relevant : \E c \in C : n \in ToSet(w.next[c])}
\* The claims at most h relevant steps from those of S.
Within(w, S, h) ==
  LET reach[k \in 0..h] == IF k = 0 THEN S ELSE reach[k - 1] \cup Behind(w, reach[k - 1])
  IN  reach[h]

\* The snapshot is every claim within reach of the seeds, unless it is full: a
\* claim first met on a long way is not met too late on a short one.
SnapshotIsNear ==
  /\ visited \subseteq Within(world, ToSet(seeds), world.hops)
  /\ (frontier = <<>> /\ Cardinality(visited) < world.size) =>
       Within(world, ToSet(seeds), world.hops) \subseteq visited
=============================================================================
