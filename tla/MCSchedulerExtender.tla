------------------------- MODULE MCSchedulerExtender -------------------------
(***************************************************************************)
(* Small instances of SchedulerExtender.                                   *)
(***************************************************************************)
EXTENDS SchedulerExtender

CONSTANTS p, q, a, b, m, n, d1, d2, x, y, z

Entry(names, weight) == [names |-> names, weight |-> weight]

East == {"east"}
West == {"west"}
EastWest == {East, West}

\* Two replicas shared by weights 1 and 3, and by equal weights.
Uneven     == [weights |-> <<Entry(<<a>>, 1), Entry(<<b>>, 3)>>, selectors |-> <<d1>>]
Even       == [weights |-> <<Entry(<<a>>, 1), Entry(<<b>>, 1)>>, selectors |-> <<d1>>]
TwoDeploys == [weights |-> <<Entry(<<a>>, 1), Entry(<<b>>, 1)>>, selectors |-> <<d2, d1>>]
SecondOnly == [weights |-> <<Entry(<<b>>, 1)>>, selectors |-> <<d2>>]
Nameless   == [weights |-> <<Entry(<<a>>, 1), Entry(<<>>, 1)>>, selectors |-> <<d1>>]
Anything   == [weights |-> <<Entry(<<a>>, 1)>>, selectors |-> <<None>>]

OrderP  == <<p>>
OrderPQ == <<p, q>>

FilterSpecs == {TwoDeploys, SecondOnly, Nameless}
SurgeSpecs  == {Even}
LiveSpecs   == {Uneven}
EmptySpecs  == {Anything}

\* One pod per deployment, unless both select the same one.
OneEach  == {[size |-> 1, selects |-> {x}], [size |-> 1, selects |-> {y}]}
\* Two pods for two replicas, and what the deployment may be replaced with.
TwoOrNone == {[size |-> 2, selects |-> {x, y}], [size |-> 2, selects |-> {}]}
\* A rolling update: one pod more than replicas.
Surge    == {[size |-> 2, selects |-> {x, y, z}]}
OneOfOne == {[size |-> 1, selects |-> {x}]}

AllNodes == {Nodes}

\* Swapping the labels East and West, or the nodes m and n, everywhere turns a
\* behaviour into another one: one initial state of each kind is enough.
MCInit ==
  /\ Init
  /\ groups[a] = East
  /\ nodeLabels[m] = East \/ nodeLabels[n] = West

MCFairSpec == MCInit /\ [][Next]_vars /\ Fairness

=============================================================================
