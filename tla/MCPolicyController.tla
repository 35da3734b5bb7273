-------------------------- MODULE MCPolicyController --------------------------
(***************************************************************************)
(* Small instances of PolicyController.                                    *)
(***************************************************************************)
EXTENDS PolicyController

CONSTANTS p, q, a, b, m, n, d1, d2, x, y

Entry(names, weight) == [names |-> names, weight |-> weight]

East == {"east"}
West == {"west"}

\* One group for one deployment, two groups that share one deployment, one
\* group for two deployments.
OnlyA == [weights |-> <<Entry(<<a>>, 1)>>, selectors |-> <<d1>>]
Split == [weights |-> <<Entry(<<a>>, 1), Entry(<<b>>, 1)>>, selectors |-> <<d1>>]
Both  == [weights |-> <<Entry(<<a>>, 1)>>, selectors |-> <<d1, d2>>]

\* An entry that names no group.
Empty == [weights |-> <<Entry(<<>>, 1)>>, selectors |-> <<d1>>]

TriggerSpecs == {OnlyA, Split}
OneSpec      == {OnlyA}
BothSpec     == {Both}
EmptyOrNot   == {OnlyA, Empty}

OnlyEast == {East}
EastWest == {East, West}

OneReplica  == {1}
TwoReplicas == {2}

NothingSelected    == [dep \in Deploys |-> {}]
EverythingSelected == [dep \in Deploys |-> Pods]
\* x carries the labels both deployments select.
XShared == [dep \in Deploys |-> IF dep = d1 THEN Pods ELSE {x}]

=============================================================================
