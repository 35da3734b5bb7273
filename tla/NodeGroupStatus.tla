--------------------------- MODULE NodeGroupStatus ---------------------------
(***************************************************************************)
(* What the status of a NodeGroup promises to whoever reads it: it is only *)
(* ever replaced by a snapshot, one look at the nodes all at once, made    *)
(* with the matchLabels the group has when the snapshot is published.      *)
(* Looks are published one by one in the order they were taken, each at    *)
(* most once.  NodeGroupController implements this specification.          *)
(***************************************************************************)
CONSTANTS Groups, Nodes, None, Selectors, LabelSets

VARIABLES
  object,       \* object[g]: [matchLabels, nodes] or None
  nodeLabels,   \* the labels of each node
  look          \* look[g]: a snapshot yet to be published, or None

vars == <<object, nodeLabels, look>>

Snapshot(l) == [matchLabels |-> l, nodes |-> {n \in Nodes : l \subseteq nodeLabels[n]}]

\* A look may be taken with matchLabels the group no longer has.
Look(g) ==
  /\ look[g] = None
  /\ \E l \in Selectors : look' = [look EXCEPT ![g] = Snapshot(l)]
  /\ UNCHANGED <<object, nodeLabels>>

Publish(g) ==
  /\ look[g] # None
  /\ object[g] # None
  /\ object[g].matchLabels = look[g].matchLabels
  /\ object' = [object EXCEPT ![g] = look[g]]
  /\ look' = [look EXCEPT ![g] = None]
  /\ UNCHANGED nodeLabels

Forget(g) ==
  /\ look' = [look EXCEPT ![g] = None]
  /\ UNCHANGED <<object, nodeLabels>>

Create(g, l) ==
  /\ object[g] = None
  /\ object' = [object EXCEPT ![g] = [matchLabels |-> l, nodes |-> {}]]
  /\ UNCHANGED <<nodeLabels, look>>

Edit(g, l) ==
  /\ object[g] # None
  /\ object' = [object EXCEPT ![g] = [matchLabels |-> l, nodes |-> object[g].nodes]]
  /\ UNCHANGED <<nodeLabels, look>>

Delete(g) ==
  /\ object' = [object EXCEPT ![g] = None]
  /\ UNCHANGED <<nodeLabels, look>>

Relabel(n, labels) ==
  /\ nodeLabels' = [nodeLabels EXCEPT ![n] = labels]
  /\ UNCHANGED <<object, look>>

Init ==
  /\ object \in [Groups -> [matchLabels : Selectors, nodes : {{}}] \cup {None}]
  /\ nodeLabels \in [Nodes -> LabelSets]
  /\ look = [g \in Groups |-> None]

Next ==
  \/ \E g \in Groups :
       \/ Look(g) \/ Publish(g) \/ Forget(g) \/ Delete(g)
       \/ \E l \in Selectors : Create(g, l) \/ Edit(g, l)
  \/ \E n \in Nodes, labels \in LabelSets : Relabel(n, labels)

Spec == Init /\ [][Next]_vars

=============================================================================
