----------------------------- MODULE MCPlacement -----------------------------
(***************************************************************************)
(* TLC calls the operators of Placement on every small input: first        *)
(* DesiredPodsNum on a weight list and a number of replicas, then          *)
(* PodsNeedToDelete on a listing and what the first call returned, the way *)
(* the policy controller does for one deployment.                          *)
(***************************************************************************)
EXTENDS Placement

CONSTANTS a, b, c, d, None,          \* four groups, and the empty node name
          MaxWeight, MaxEntries, MaxReplicas, MaxListing

ASSUME BoundsAreNumbers ==
  MaxWeight \in Nat /\ MaxEntries \in Nat /\ MaxReplicas \in Nat /\ MaxListing \in Nat

Groups == {a, b, c, d}

\* Some entries name several groups; c and d are named first by some entry,
\* second or third by another.
Names == {<<a>>, <<b>>, <<c>>, <<a, b>>, <<b, c, d>>}

\* One node stands for all the nodes of its group; "stray" is a node that is
\* in no group.
Places == Groups \cup {"stray", None}
NodesIn == [n \in Groups |-> n]

WeightLists ==
  UNION {[1..k -> [names : Names, weight : 1..MaxWeight]] : k \in 0..MaxEntries}

VARIABLES call, weights, replicas, desired, places, doomed

vars == <<call, weights, replicas, desired, places, doomed>>

Init ==
  /\ call = "start"
  /\ weights \in WeightLists
  /\ replicas \in 0..MaxReplicas
  /\ desired = NoMap
  /\ places = <<>>
  /\ doomed = {}

Desire ==
  /\ call = "start"
  /\ call' = "desired"
  /\ desired' \in DesiredPodsNum(weights, replicas)
  /\ UNCHANGED <<weights, replicas, places, doomed>>

\* Only the map is passed on to the second call.
Pass ==
  /\ call = "desired"
  /\ call' = "pass"
  /\ weights' = <<>>
  /\ replicas' = 0
  /\ UNCHANGED <<desired, places, doomed>>

Cut ==
  /\ call = "pass"
  /\ call' = "cut"
  /\ places' \in UNION {[1..k -> Places] : k \in 0..MaxListing}
  /\ doomed' = PodsNeedToDelete([i \in DOMAIN places' |-> i], places', desired, NodesIn)
  /\ UNCHANGED <<weights, replicas, desired>>

Next == Desire \/ Pass \/ Cut

Spec == Init /\ [][Next]_vars

-----------------------------------------------------------------------------
SumOver(S, m) == MapThenSumSet(LAMBDA g : Lookup(m, g), S)

SingleNames == \A i \in DOMAIN weights : Len(weights[i].names) = 1

DistinctFirsts ==
  \A i, j \in DOMAIN weights : weights[i].names[1] = weights[j].names[1] => i = j

Abs(n) == IF n < 0 THEN -n ELSE n

\* When each entry names one group of its own, the desired numbers add up to
\* the replicas of the deployment: no replica is without a place and none is
\* promised twice, whatever the rounding did.
ExactTotal ==
  call = "desired" /\ weights # <<>> /\ SingleNames /\ DistinctFirsts
    => SumOver(Groups, desired) = replicas

\* Every group but at most one gets its exact proportional share to within
\* half a pod, and that one is off by no more than half a pod per other group.
NearestShare ==
  call = "desired" /\ weights # <<>> /\ SingleNames /\ DistinctFirsts
    => LET total == TotalWeight(weights)
           \* twice total times (what the group gets - its exact share)
           Error(i) == 2 * (Lookup(desired, weights[i].names[1]) * total
                              - weights[i].weight * replicas)
           off      == {i \in DOMAIN weights : Abs(Error(i)) > total}
       IN  /\ Cardinality(off) <= 1
           /\ \A i \in off : Abs(Error(i)) <= (Len(weights) - 1) * total

Running(g) == {i \in DOMAIN places : places[i] = g}

\* The cut leaves in each group exactly as many pods as are desired there, or
\* all of them when there are fewer, counts a negative desire as none, keeps
\* no pod in a group that nothing is desired for, and never touches a pod that
\* is not scheduled or runs outside every group.
KeepsExactly ==
  call = "cut" =>
    /\ \A g \in Groups :
         LET goal == IF Lookup(desired, g) < 0 THEN 0 ELSE Lookup(desired, g)
             have == Cardinality(Running(g))
         IN  Cardinality(Running(g) \ doomed) = IF have < goal THEN have ELSE goal
    /\ doomed \subseteq UNION {Running(g) : g \in Groups}

\* "multi nodegroup in one weight entry is not supported, only the first one
\* will be picked, other nodegroup will get 0 weight" (utils.go:122): a group
\* that is never the first of an entry is desired no pod.
OthersGetZero ==
  call = "desired" =>
    \A g \in Groups :
      (\A i \in DOMAIN weights : weights[i].names[1] # g) => Lookup(desired, g) = 0

=============================================================================
