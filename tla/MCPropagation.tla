---------------------------- MODULE MCPropagation ----------------------------
(***************************************************************************)
(* A small instance of Propagation: two groups of one node each.           *)
(***************************************************************************)
EXTENDS Propagation

CONSTANTS a, b, m, n

Entry(names, weight) == [names |-> names, weight |-> weight]

MinA == [x \in {m, n} |-> IF x = m THEN a ELSE b]

\* With two replicas, equal weights leave nothing over, 1 and 3 leave -1.
EvenAndUneven == {<<Entry(<<a>>, 1), Entry(<<b>>, 1)>>, <<Entry(<<a>>, 1), Entry(<<b>>, 3)>>}

=============================================================================
