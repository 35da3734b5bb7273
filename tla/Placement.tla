------------------------------ MODULE Placement ------------------------------
(***************************************************************************)
(* The pure part of the system: how a weight list is turned into a number  *)
(* of pods per NodeGroup, which node belongs to which group, how many pods *)
(* run in a group and which of them are too many.  The policy controller   *)
(* and the scheduler extender both call these functions.                   *)
(*                                                                         *)
(* A Go map is a function on its set of keys; reading a key that is not    *)
(* there gives the zero value (Lookup).  Where the code ranges over a map, *)
(* whose order Go leaves open, an operator returns the SET of the results  *)
(* the call may have.                                                      *)
(***************************************************************************)
EXTENDS Integers, Sequences, FiniteSets, SequencesExt, TLC

NoMap == [x \in {} |-> x]

Lookup(m, k) == IF k \in DOMAIN m THEN m[k] ELSE 0

IsMap(m, K, V) == DOMAIN m \subseteq K /\ m \in [DOMAIN m -> V]

\* m[k] = v for every k of K.
Put(m, K, v) == [k \in K \cup DOMAIN m |-> IF k \in K THEN v ELSE m[k]]

-----------------------------------------------------------------------------
(***************************************************************************)
(* DesiredPodsNumInTargetNodeGroups.  weights is a sequence of records     *)
(* [names |-> sequence of groups, weight |-> natural number]; an entry     *)
(* without a name makes the call panic.                                    *)
(***************************************************************************)
Panics(weights) == \E i \in DOMAIN weights : weights[i].names = <<>>

TotalWeight(weights) == FoldLeft(LAMBDA sum, e : sum + e.weight, 0, weights)

ShareTruncated(weight, total, replicas) ==
  IF total = 0 THEN 0 ELSE (weight * replicas) \div total

\* int32(ratio * float64(replicas) + 0.5): the exact share, rounded half up.
Share(weight, total, replicas) ==
  IF total = 0 THEN 0 ELSE (2 * weight * replicas + total) \div (2 * total)

\* The first name of an entry gets its share, the names from the third on
\* get 0; the loop of the code starts at index 2 and never sees the second.
Grant(results, names, share) ==
  Put(Put(results, {names[1]}, share), {names[i] : i \in 3..Len(names)}, 0)

Allot(weights, replicas) ==
  LET total == TotalWeight(weights)
      Serve(acc, e) ==
        LET share == Share(e.weight, total, replicas)
        IN  [results   |-> Grant(acc.results, e.names, share),
             allocated |-> acc.allocated + share]
  IN  FoldLeft(Serve, [results |-> NoMap, allocated |-> 0], weights)

DesiredForgetsLeft(weights, replicas) ==
  {Allot(weights, replicas).results}

\* What is left after rounding, which may be negative, goes to whichever key
\* Go's map iteration comes to first.
DesiredPodsNum(weights, replicas) ==
  LET allotted == Allot(weights, replicas)
      left     == replicas - allotted.allocated
      results  == allotted.results
  IN  IF left = 0 \/ DOMAIN results = {}
      THEN {results}
      ELSE {[results EXCEPT ![g] = @ + left] : g \in DOMAIN results}

Named(weights) ==
  UNION {{weights[i].names[j] : j \in DOMAIN weights[i].names} : i \in DOMAIN weights}

-----------------------------------------------------------------------------
(***************************************************************************)
(* GetNodesInGroups.  The nodes listed for a group overwrite what groups   *)
(* listed before it claimed: a node in two groups belongs to the last.     *)
(***************************************************************************)
AddNodesSwapped(nodesIn, nodes, g) == [h \in {g} |-> nodes] @@ nodesIn

AddNodes(nodesIn, nodes, g) == Put(nodesIn, nodes, g)

-----------------------------------------------------------------------------
(***************************************************************************)
(* getPodsNeedToDelete and the count of CurrentPodsNumInTargetNodeGroups.  *)
(* listing is the sequence of pods in the order the List call returned     *)
(* them, nodeOf[p] the node in p's spec, None for the empty name.          *)
(***************************************************************************)
RunsIn(p, g, nodeOf, nodesIn) ==
  /\ nodeOf[p] \in DOMAIN nodesIn
  /\ nodesIn[nodeOf[p]] = g

\* count[groupname] after the code has seen the first i pods of the listing.
CountUpTo(i, g, listing, nodeOf, nodesIn) ==
  Cardinality({j \in 1..i : RunsIn(listing[j], g, nodeOf, nodesIn)})

PodsNeedToDeleteOffByOne(listing, nodeOf, desired, nodesIn) ==
  {listing[i] : i \in {k \in DOMAIN listing :
     /\ nodeOf[listing[k]] \in DOMAIN nodesIn
     /\ LET g == nodesIn[nodeOf[listing[k]]]
        IN  CountUpTo(k, g, listing, nodeOf, nodesIn) >= Lookup(desired, g)}}

\* Compares before it counts the pod.
PodsNeedToDeleteLate(listing, nodeOf, desired, nodesIn) ==
  {listing[i] : i \in {k \in DOMAIN listing :
     /\ nodeOf[listing[k]] \in DOMAIN nodesIn
     /\ LET g == nodesIn[nodeOf[listing[k]]]
        IN  CountUpTo(k - 1, g, listing, nodeOf, nodesIn) > Lookup(desired, g)}}

\* Takes a missing node for a group of which nothing is desired.
PodsNeedToDeleteUnplaced(listing, nodeOf, desired, nodesIn) ==
  {listing[i] : i \in {k \in DOMAIN listing :
     \/ nodeOf[listing[k]] \notin DOMAIN nodesIn
     \/ LET g == nodesIn[nodeOf[listing[k]]]
        IN  CountUpTo(k, g, listing, nodeOf, nodesIn) > Lookup(desired, g)}}

PodsNeedToDelete(listing, nodeOf, desired, nodesIn) ==
  {listing[i] : i \in {k \in DOMAIN listing :
     /\ nodeOf[listing[k]] \in DOMAIN nodesIn
     /\ LET g == nodesIn[nodeOf[listing[k]]]
        IN  CountUpTo(k, g, listing, nodeOf, nodesIn) > Lookup(desired, g)}}

CurrentPodsNum(listing, nodeOf, nodesIn) ==
  [g \in {nodesIn[nodeOf[p]] : p \in {q \in listing : nodeOf[q] \in DOMAIN nodesIn}} |->
     Cardinality({p \in listing : RunsIn(p, g, nodeOf, nodesIn)})]

ShortOrFull(current, desired, g) == Lookup(current, g) <= Lookup(desired, g)

ShortOfTwo(current, desired, g) == Lookup(current, g) + 1 < Lookup(desired, g)

\* The group still lacks pods.
Short(current, desired, g) == Lookup(current, g) < Lookup(desired, g)

=============================================================================
