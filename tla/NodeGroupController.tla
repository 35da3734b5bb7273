------------------------- MODULE NodeGroupController -------------------------
(***************************************************************************)
(* The NodeGroup controller: it copies the names of the nodes a NodeGroup  *)
(* selects into its status.  It watches NodeGroups only, reads them and    *)
(* the nodes from caches, and writes through the API server, which refuses *)
(* an update made from an outdated copy.                                   *)
(*                                                                         *)
(* Instead of a resource version, undelivered holds the groups whose last  *)
(* write has not reached the informer, and copyStale says that the group   *)
(* was written after the version the worker's copy was read from.          *)
(***************************************************************************)
EXTENDS Integers, Sequences, FiniteSets, Functions

CONSTANTS
  Groups, Nodes,
  None,         \* no object
  Selectors,    \* the matchLabels users write, as sets of labels
  LabelSets,    \* the label sets a node may carry
  MaxEvents     \* bound on user edits and failing calls

ASSUME NoneIsNothing ==
  /\ None \notin Groups
  /\ None \notin [matchLabels : Selectors, nodes : SUBSET Nodes]
  /\ None \notin [matchLabels : Selectors, status : Seq(Nodes), deleting : BOOLEAN]

ASSUME NodesAreFinite == IsFiniteSet(Nodes)

ASSUME MaxEventsIsNat == MaxEvents \in Nat

VARIABLES
  group,        \* group[g] at the API server: [matchLabels, status, deleting] or None
  groupCache,   \* group[g] as the informer last saw it
  undelivered,  \* the groups with a write the informer has yet to see
  nodeLabels,   \* the labels of each node, as the node informer has them
  queue,        \* the work queue
  pc, key, copy, copyStale, listing,    \* the worker
  viewed,       \* history: the labels and the nodes of each group's last listing
  dropped,      \* history: the groups whose last update failed unnoticed
  spent         \* events so far, at most MaxEvents

server == <<group, undelivered>>
worker == <<pc, key, copy, copyStale, listing>>
vars == <<group, groupCache, undelivered, nodeLabels, queue, worker, viewed, dropped, spent>>

\* SelectorFromSet: no labels select every node.
Members(matchLabels) == {n \in Nodes : matchLabels \subseteq nodeLabels[n]}

\* A list from the cache comes in any order.
Listings(S) == {s \in [1..Cardinality(S) -> S] : Range(s) = S}

Live(g) == group[g] # None /\ ~group[g].deleting

\* A write to g at the API server: whatever was read of g before is outdated.
Write(g, object) ==
  /\ group' = [group EXCEPT ![g] = object]
  /\ undelivered' = undelivered \cup {g}
  /\ copyStale' = (copyStale \/ g = key)

-----------------------------------------------------------------------------
(***************************************************************************)
(* Reconcile                                                               *)
(***************************************************************************)
Return ==
  /\ pc' = "idle"
  /\ key' = None
  /\ copy' = None
  /\ listing' = <<>>

\* Goes on with an empty object when there is none.
GetIgnoresNotFound(g) ==
  /\ pc = "idle"
  /\ g \in queue
  /\ queue' = queue \ {g}
  /\ pc' = IF groupCache[g] # None /\ groupCache[g].deleting THEN "remove" ELSE "list"
  /\ key' = g
  /\ copy' = groupCache[g]
  /\ copyStale' = (g \in undelivered)
  /\ dropped' = dropped \ {g}
  /\ UNCHANGED <<server, groupCache, nodeLabels, listing, viewed, spent>>

\* Without the negation in the test of DeletionTimestamp.
GetRemovesLive(g) ==
  /\ pc = "idle"
  /\ g \in queue
  /\ groupCache[g] # None
  /\ queue' = queue \ {g}
  /\ pc' = IF groupCache[g].deleting THEN "list" ELSE "remove"
  /\ key' = g
  /\ copy' = groupCache[g]
  /\ copyStale' = (g \in undelivered)
  /\ dropped' = dropped \ {g}
  /\ UNCHANGED <<server, groupCache, nodeLabels, listing, viewed, spent>>

Get(g) ==
  /\ pc = "idle"
  /\ g \in queue
  /\ groupCache[g] # None
  /\ queue' = queue \ {g}
  /\ pc' = IF groupCache[g].deleting THEN "remove" ELSE "list"
  /\ key' = g
  /\ copy' = groupCache[g]
  /\ copyStale' = (g \in undelivered)
  /\ dropped' = dropped \ {g}
  /\ UNCHANGED <<server, groupCache, nodeLabels, listing, viewed, spent>>

GetNotFound(g) ==
  /\ pc = "idle"
  /\ g \in queue
  /\ groupCache[g] = None
  /\ queue' = queue \ {g}
  /\ dropped' = dropped \ {g}
  /\ UNCHANGED <<server, groupCache, nodeLabels, worker, viewed, spent>>

SeeNodes(s) ==
  viewed' = [viewed EXCEPT ![key] =
    [matchLabels |-> copy.matchLabels, nodes |-> Range(s)]]

\* Takes a status of the right length for the right status.
ListSameLength ==
  /\ pc = "list"
  /\ Len(copy.status) = Cardinality(Members(copy.matchLabels))
  /\ \E s \in Listings(Members(copy.matchLabels)) : SeeNodes(s)
  /\ Return
  /\ copyStale' = FALSE
  /\ UNCHANGED <<server, groupCache, nodeLabels, queue, dropped, spent>>

\* The comparison with the status is one of slices: order matters.
ListSame ==
  /\ pc = "list"
  /\ copy.status \in Listings(Members(copy.matchLabels))
  /\ SeeNodes(copy.status)
  /\ Return
  /\ copyStale' = FALSE
  /\ UNCHANGED <<server, groupCache, nodeLabels, queue, dropped, spent>>

ListDiffers ==
  /\ pc = "list"
  /\ \E s \in Listings(Members(copy.matchLabels)) :
       /\ s # copy.status
       /\ listing' = s
       /\ SeeNodes(s)
  /\ pc' = "update"
  /\ UNCHANGED <<server, groupCache, nodeLabels, queue, key, copy, copyStale, dropped, spent>>

ListFails ==
  /\ pc = "list"
  /\ spent < MaxEvents
  /\ spent' = spent + 1
  /\ queue' = queue \cup {key}
  /\ Return
  /\ copyStale' = FALSE
  /\ UNCHANGED <<server, groupCache, nodeLabels, viewed, dropped>>

\* Status().Update.  The API server takes the status of an up-to-date copy.
Update ==
  /\ pc = "update"
  /\ ~copyStale /\ group[key] # None
  /\ group' = [group EXCEPT ![key].status = listing]
  /\ undelivered' = undelivered \cup {key}
  /\ Return
  /\ copyStale' = FALSE
  /\ UNCHANGED <<groupCache, nodeLabels, queue, viewed, dropped, spent>>

\* Lets an outdated copy overwrite the status.
OverwriteWithStale ==
  /\ pc = "update"
  /\ copyStale
  /\ group[key] # None
  /\ group' = [group EXCEPT ![key].status = listing]
  /\ undelivered' = undelivered \cup {key}
  /\ Return
  /\ copyStale' = FALSE
  /\ UNCHANGED <<groupCache, nodeLabels, queue, viewed, dropped, spent>>

\* Retries on a conflict with what was listed before it.
RetryOnConflict ==
  /\ pc = "update"
  /\ copyStale /\ group[key] # None
  /\ copy' = group[key]
  /\ copyStale' = FALSE
  /\ UNCHANGED <<server, groupCache, nodeLabels, queue, pc, key, listing, viewed, dropped, spent>>

\* It answers Conflict to an outdated copy, NotFound when the group is gone.
\* The code looks at no error of this call.
RefuseUpdate ==
  /\ pc = "update"
  /\ copyStale \/ group[key] = None
  /\ Return
  /\ copyStale' = FALSE
  /\ UNCHANGED <<server, groupCache, nodeLabels, queue, viewed, dropped, spent>>

UpdateFails ==
  /\ pc = "update"
  /\ spent < MaxEvents
  /\ spent' = spent + 1
  /\ dropped' = dropped \cup {key}
  /\ Return
  /\ copyStale' = FALSE
  /\ UNCHANGED <<server, groupCache, nodeLabels, queue, viewed>>

\* removeNodeGroup: Delete by name.  On a group that is still being deleted it
\* does nothing; one that has been created anew in the meantime is deleted, at
\* once or, when it has finalizers, later.
Remove ==
  /\ pc = "remove"
  /\ IF Live(key)
     THEN /\ group' \in {[group EXCEPT ![key] = None], [group EXCEPT ![key].deleting = TRUE]}
          /\ undelivered' = undelivered \cup {key}
     ELSE UNCHANGED server
  /\ Return
  /\ copyStale' = FALSE
  /\ UNCHANGED <<groupCache, nodeLabels, queue, viewed, dropped, spent>>

RemoveFails ==
  /\ pc = "remove"
  /\ spent < MaxEvents
  /\ spent' = spent + 1
  /\ queue' = queue \cup {key}
  /\ Return
  /\ copyStale' = FALSE
  /\ UNCHANGED <<server, groupCache, nodeLabels, viewed, dropped>>

Reconcile ==
  \/ \E g \in Groups : Get(g) \/ GetNotFound(g)
  \/ ListSame \/ ListDiffers \/ ListFails
  \/ Update \/ RefuseUpdate \/ UpdateFails
  \/ Remove \/ RemoveFails

-----------------------------------------------------------------------------
(***************************************************************************)
(* The informers                                                           *)
(***************************************************************************)
Deliver(g) ==
  /\ g \in undelivered
  /\ undelivered' = undelivered \ {g}
  /\ groupCache' = [groupCache EXCEPT ![g] = group[g]]
  /\ queue' = queue \cup {g}
  /\ UNCHANGED <<group, nodeLabels, worker, viewed, dropped, spent>>

Resync ==
  /\ queue' = queue \cup {g \in Groups : groupCache[g] # None}
  /\ UNCHANGED <<server, groupCache, nodeLabels, worker, viewed, dropped, spent>>

-----------------------------------------------------------------------------
(***************************************************************************)
(* The controller manager.  Its process may end between any two steps, for *)
(* a panic of the other controller, a lost lease or a node that fails, and *)
(* is started again.                                                       *)
(***************************************************************************)
\* Run and setupControllers: nothing is kept across a restart.  What the worker
\* held is gone; the informer lists every group and reports it as created.
Restart ==
  /\ spent < MaxEvents
  /\ spent' = spent + 1
  /\ Return
  /\ copyStale' = FALSE
  /\ groupCache' = group
  /\ undelivered' = {}
  /\ queue' = {g \in Groups : group[g] # None}
  /\ dropped' = {}
  /\ UNCHANGED <<group, nodeLabels, viewed>>

-----------------------------------------------------------------------------
(***************************************************************************)
(* Users                                                                   *)
(***************************************************************************)
Edit ==
  /\ spent < MaxEvents
  /\ spent' = spent + 1
  /\ UNCHANGED <<groupCache, queue, pc, key, copy, listing, viewed, dropped>>

CreateGroup(g, matchLabels) ==
  /\ Edit
  /\ group[g] = None
  /\ Write(g, [matchLabels |-> matchLabels, status |-> <<>>, deleting |-> FALSE])
  /\ UNCHANGED nodeLabels

EditGroup(g, matchLabels) ==
  /\ Edit
  /\ group[g] # None
  /\ Write(g, [group[g] EXCEPT !.matchLabels = matchLabels])
  /\ UNCHANGED nodeLabels

\* A delete request for a group that has finalizers.
MarkDeleting(g) ==
  /\ Edit
  /\ Live(g)
  /\ Write(g, [group[g] EXCEPT !.deleting = TRUE])
  /\ UNCHANGED nodeLabels

\* The last finalizer is gone, or there was none.
Disappear(g) ==
  /\ Edit
  /\ group[g] # None
  /\ Write(g, None)
  /\ UNCHANGED nodeLabels

\* The node informer sees new labels; no controller is told.
RelabelNode(n, labels) ==
  /\ Edit
  /\ nodeLabels' = [nodeLabels EXCEPT ![n] = labels]
  /\ UNCHANGED <<server, copyStale>>

Users ==
  \/ \E g \in Groups :
       \/ \E matchLabels \in Selectors :
            CreateGroup(g, matchLabels) \/ EditGroup(g, matchLabels)
       \/ MarkDeleting(g)
       \/ Disappear(g)
  \/ \E n \in Nodes, labels \in LabelSets : RelabelNode(n, labels)

-----------------------------------------------------------------------------
Init ==
  /\ group \in [Groups -> [matchLabels : Selectors, status : {<<>>}, deleting : {FALSE}] \cup {None}]
  /\ groupCache = group
  /\ undelivered = {}
  /\ nodeLabels \in [Nodes -> LabelSets]
  /\ queue = {g \in Groups : group[g] # None}
  /\ pc = "idle"
  /\ key = None
  /\ copy = None
  /\ copyStale = FALSE
  /\ listing = <<>>
  /\ viewed = [g \in Groups |-> None]
  /\ dropped = {}
  /\ spent = 0

Informers == Resync \/ \E g \in Groups : Deliver(g)

Next == Reconcile \/ Informers \/ Restart \/ Users

Spec == Init /\ [][Next]_vars

\* The worker runs, the work queue is first in, first out, the informers
\* deliver and the resync period comes round.
FairSpec ==
  /\ Spec
  /\ WF_vars(Reconcile)
  /\ WF_vars(Resync)
  /\ \A g \in Groups : SF_vars(Get(g)) /\ WF_vars(Deliver(g))

-----------------------------------------------------------------------------
Objects ==
  [matchLabels : Selectors, status : Seq(Nodes), deleting : BOOLEAN] \cup {None}

Views == [matchLabels : Selectors, nodes : SUBSET Nodes] \cup {None}

\* Every variable has its type; the worker has a key exactly while a pass of
\* Reconcile is under way, and then a copy of a group that was found.
TypeOK ==
  /\ group \in [Groups -> Objects]
  /\ groupCache \in [Groups -> Objects]
  /\ undelivered \subseteq Groups
  /\ nodeLabels \in [Nodes -> LabelSets]
  /\ queue \subseteq Groups
  /\ pc \in {"idle", "list", "update", "remove"}
  /\ pc = "idle" <=> key = None
  /\ key \in Groups \cup {None}
  /\ copy \in Objects
  /\ key # None => copy # None
  /\ copyStale \in BOOLEAN
  /\ listing \in Seq(Nodes)
  /\ viewed \in [Groups -> Views]
  /\ dropped \subseteq Groups
  /\ spent \in 0..MaxEvents

\* The status is only ever overwritten with nodes that were listed for the
\* matchLabels the group has at that moment: an edit that comes between the
\* read of the group and the update of its status makes the update fail.
StatusFitsSpec ==
  [][\A g \in Groups :
       Live(g) /\ Live(g)' /\ group'[g].status # group[g].status
         => /\ viewed[g] # None
            /\ viewed[g].matchLabels = group[g].matchLabels
            /\ viewed[g].nodes = Range(group'[g].status)]_vars

\* The status of each group, and the snapshot the worker is about to publish.
Shown ==
  [g \in Groups |-> IF group[g] = None THEN None
     ELSE [matchLabels |-> group[g].matchLabels, nodes |-> Range(group[g].status)]]

Pending ==
  [g \in Groups |-> IF pc = "update" /\ g = key
     THEN [matchLabels |-> copy.matchLabels, nodes |-> Range(listing)] ELSE None]

Status == INSTANCE NodeGroupStatus WITH object <- Shown, look <- Pending

\* With its caches, conflicts, ignored errors and restarts, the controller
\* implements the promise of NodeGroupStatus: what it writes is a snapshot made
\* with the matchLabels of the group, and an older one never replaces a newer.
ImplementsStatus == Status!Spec

\* What is removed had been asked to be removed: the worker takes down a live
\* group only when it is a new one, created under the name of a group that was
\* being deleted when the pass read it and that has gone since.
LiveGroupsAreKept ==
  [][\A g \in Groups :
       Live(g) /\ ~Live(g)' /\ pc' # pc => key = g /\ copy.deleting /\ copyStale]_vars

\* Although the code looks at no error of the update, a conflict loses
\* nothing: a group that is neither queued, nor being worked on, nor written
\* without the informer knowing, nor the victim of another error has the
\* status its last listing called for, made for its present matchLabels.
Settled ==
  \A g \in Groups \ (queue \cup undelivered \cup dropped) :
    g # key /\ Live(g) =>
      /\ viewed[g] # None
      /\ viewed[g].matchLabels = group[g].matchLabels
      /\ viewed[g].nodes = Range(group[g].status)

Accurate ==
  \A g \in Groups : Live(g) =>
    Range(group[g].status) = Members(group[g].matchLabels)

\* When the users are done, the status of each group comes to hold exactly the
\* nodes the group selects and stays so, although nobody tells the controller
\* of nodes and the order of the listings keeps it rewriting: the resync makes
\* up for the changes it is not told of and the errors it does not see.
EventuallyAccurate == <>[]Accurate

=============================================================================
