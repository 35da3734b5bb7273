----------------------------- MODULE Propagation -----------------------------
(***************************************************************************)
(* The two halves of the system together: the scheduler extender, which    *)
(* lets a pod only into a group that lacks pods, and the policy controller, *)
(* which deletes the pods a group has too many of, on one deployment that  *)
(* is being rolled out.  The users are done: one policy, groups and nodes  *)
(* that no longer change.                                                  *)
(*                                                                         *)
(* The parts are coarser here than in their own modules.  A request of the *)
(* scheduler is one step: SchedulerExtender shows that Filter is as good   *)
(* as atomic while users change nothing.  A pass of the controller is one  *)
(* reading of its pod cache and then one Delete after the other.  The      *)
(* extender reads pods from the API server, the controller from a cache    *)
(* that lags; both count whatever has a node, terminating or not.          *)
(*                                                                         *)
(* A pass starts when the cluster is at rest, as resyncs are ten hours     *)
(* apart, or while it is in motion: a resync also delivers the NodeGroups, *)
(* whose events queue the policy again, and so do a status that is written *)
(* anew, a retry and a restart.  Between two passes that find the cluster  *)
(* at rest there are at most MaxEarly of the others.                       *)
(***************************************************************************)
EXTENDS Placement

CONSTANTS
  Nodes, Pods,
  None,           \* no node
  Groups,
  NodesIn,        \* NodesIn[n]: the group of node n, for the nodes in a group
  WeightLists,    \* the weight lists the policy may have
  Size,           \* the replicas of the deployment
  MaxUnavailable, MaxSurge, \* of its rolling update
  MaxEarly        \* bound on passes and restarts that find the cluster in motion
                  \* between two passes that find it at rest

ASSUME NodesAreGrouped ==
  None \notin Nodes /\ DOMAIN NodesIn \subseteq Nodes /\ NodesIn \in [DOMAIN NodesIn -> Groups]

ASSUME BoundsAreNat ==
  /\ Size \in Nat \ {0} /\ MaxUnavailable \in 1..Size /\ MaxSurge \in Nat
  /\ MaxEarly \in Nat

\* There are names for all the pods the rollout begins with.
ASSUME EnoughNames == IsFiniteSet(Pods) /\ \E S \in SUBSET Pods : Cardinality(S) = Size

VARIABLES
  draws,            \* what a call with the policy's weight list may draw
  pods,             \* pods[p]: [phase, node] at the API server
  old,              \* the pods of the revision that is being replaced
  oldSize, newSize, \* the replicas of the two replica sets
  podCache,         \* podCache[p]: the node the controller's cache shows for p
  queued,           \* the policy is in the controller's work queue
  working, doomed, failed,    \* the controller's worker
  early             \* passes and restarts in motion since a pass at rest

worker == <<queued, working, doomed, failed>>
cluster == <<pods, old, oldSize, newSize>>
vars == <<draws, cluster, podCache, worker, early>>

Absent  == [phase |-> "absent", node |-> None]
Pending == [phase |-> "pending", node |-> None]

\* spec.nodeName as the API server has it.
NodeOf == [p \in Pods |-> IF pods[p].phase \in {"bound", "terminating"} THEN pods[p].node ELSE None]

Alive   == {p \in Pods : pods[p].phase \in {"pending", "assumed", "bound"}}
Running == {p \in Pods : pods[p].phase = "bound"}

\* What a call may draw with one or another policy.
Drawings == {DesiredPodsNum(w, Size) : w \in WeightLists}

\* Nothing is left to do but for the controller.
AtRest ==
  /\ podCache = NodeOf
  /\ oldSize = 0 /\ old = {}
  /\ \A p \in Pods : pods[p].phase \in {"absent", "bound"}
  /\ Cardinality(Running) = Size

-----------------------------------------------------------------------------
(***************************************************************************)
(* The policy controller.                                                  *)
(***************************************************************************)
Calm == AtRest /\ early' = 0

InMotion == early < MaxEarly /\ early' = early + 1

\* Get the policy and all it needs, and pick the pods to delete.
Begin ==
  /\ queued
  /\ ~working
  /\ Calm \/ InMotion
  /\ \E listing \in SetToSeqs({p \in Pods : podCache[p] # None}),
        desired \in draws :
       doomed' = PodsNeedToDelete(listing, podCache, desired, NodesIn)
  /\ queued' = FALSE
  /\ working' = TRUE
  /\ UNCHANGED <<draws, cluster, podCache, failed>>

\* A pod with a node terminates first.  One that is gone makes the pass fail.
DeletePod(p) ==
  /\ p \in doomed
  /\ doomed' = doomed \ {p}
  /\ IF pods[p] = Absent
     THEN failed' = TRUE /\ UNCHANGED pods
     ELSE pods' = [pods EXCEPT ![p].phase = "terminating"] /\ UNCHANGED failed
  /\ UNCHANGED <<draws, old, oldSize, newSize, podCache, queued, working, early>>

\* Does not forget the errors of the pass.
FinishKeepsErrors ==
  /\ working
  /\ doomed = {}
  /\ working' = FALSE
  /\ queued' = (queued \/ failed)
  /\ UNCHANGED <<draws, cluster, podCache, doomed, failed, early>>

Finish ==
  /\ working
  /\ doomed = {}
  /\ working' = FALSE
  /\ queued' = (queued \/ failed)
  /\ failed' = FALSE
  /\ UNCHANGED <<draws, cluster, podCache, doomed, early>>

Reconcile == Begin \/ Finish \/ \E p \in Pods : DeletePod(p)

Resync ==
  /\ queued' = TRUE
  /\ UNCHANGED <<draws, cluster, podCache, working, doomed, failed, early>>

\* The manager ends between two Deletes and is started again.
Restart ==
  /\ InMotion
  /\ queued' = TRUE
  /\ working' = FALSE
  /\ doomed' = {}
  /\ failed' = FALSE
  /\ podCache' = NodeOf
  /\ UNCHANGED <<draws, cluster>>

SyncPod(p) ==
  /\ podCache' = [podCache EXCEPT ![p] = NodeOf[p]]
  /\ UNCHANGED <<draws, cluster, worker, early>>

-----------------------------------------------------------------------------
(***************************************************************************)
(* The scheduler, the deployment controller and the kubelets.              *)
(***************************************************************************)
SetPod(p, state) ==
  /\ pods' = [pods EXCEPT ![p] = state]
  /\ UNCHANGED <<draws, oldSize, newSize, podCache, worker, early>>

\* The nodes Filter leaves when it draws desired.
Offer(desired) ==
  LET current == CurrentPodsNum({p \in Pods : pods[p] # Absent}, NodeOf, NodesIn)
  IN  {n \in DOMAIN NodesIn : Short(current, desired, NodesIn[n])}

\* Ask the extender and assume the pod on one of the nodes it leaves.
Place(p) ==
  /\ pods[p] = Pending
  /\ \E desired \in draws : \E n \in Offer(desired) :
       SetPod(p, [phase |-> "assumed", node |-> n])
  /\ UNCHANGED old

Bind(p) ==
  /\ pods[p].phase = "assumed"
  /\ SetPod(p, [pods[p] EXCEPT !.phase = "bound"])
  /\ UNCHANGED old

RemovePod(p) ==
  /\ pods[p].phase = "terminating"
  /\ SetPod(p, Absent)
  /\ old' = old \ {p}

\* A name is used again only when nobody remembers the pod that had it.
Free == {p \in Pods : pods[p] = Absent /\ podCache[p] = None /\ p \notin doomed}

\* The replica sets replace the pods they miss.  Which free name the new pod gets
\* makes no difference.
CreatePod ==
  /\ Free # {}
  /\ LET p == CHOOSE q \in Free : TRUE
     IN  /\ SetPod(p, Pending)
         /\ \/ Cardinality(Alive \cap old) < oldSize /\ old' = old \cup {p}
            \/ Cardinality(Alive \ old) < newSize /\ old' = old

\* A pod of the old revision is one too many.
ScaleDown(p) ==
  /\ p \in Alive \cap old
  /\ Cardinality(Alive \cap old) > oldSize
  /\ SetPod(p, IF pods[p].phase = "bound" THEN [pods[p] EXCEPT !.phase = "terminating"] ELSE Absent)
  /\ old' = IF pods[p].phase = "bound" THEN old ELSE old \ {p}

\* The rollout: one replica less of the old revision when enough pods can be
\* left and that one is too many or does not run anyway, or one more of the new.
Roll ==
  /\ \/ /\ oldSize > 0
        /\ oldSize + Cardinality(Running \ old) > Size - MaxUnavailable
        /\ \/ Cardinality(Running) > Size - MaxUnavailable
           \/ Cardinality(Running \cap old) < oldSize
        /\ oldSize' = oldSize - 1
        /\ UNCHANGED newSize
     \/ /\ oldSize + newSize < Size + MaxSurge
        /\ newSize < Size
        /\ newSize' = newSize + 1
        /\ UNCHANGED oldSize
  /\ UNCHANGED <<draws, pods, old, podCache, worker, early>>

Cluster ==
  \/ Roll \/ CreatePod
  \/ \E p \in Pods : Place(p) \/ Bind(p) \/ RemovePod(p) \/ ScaleDown(p) \/ SyncPod(p)

-----------------------------------------------------------------------------
\* The pods of the revision to be replaced run anywhere.
Init ==
  /\ draws \in Drawings
  /\ old = CHOOSE S \in SUBSET Pods : Cardinality(S) = Size
  /\ \E at \in [old -> Nodes] :
       pods = [p \in Pods |-> IF p \in old THEN [phase |-> "bound", node |-> at[p]] ELSE Absent]
  /\ oldSize = Size
  /\ newSize = 0
  /\ podCache = NodeOf
  /\ queued = TRUE
  /\ working = FALSE
  /\ doomed = {}
  /\ failed = FALSE
  /\ early = 0

Next == Reconcile \/ Resync \/ Restart \/ Cluster

Spec == Init /\ [][Next]_vars

\* The worker goes on, resyncs come for ever, and the rest of the cluster does
\* something as long as there is something to do; nothing says in which order.
FairSpec == Spec /\ WF_vars(Reconcile) /\ WF_vars(Resync) /\ WF_vars(Cluster)

-----------------------------------------------------------------------------
\* The state is well formed; what the worker holds between passes is nothing.
TypeOK ==
  /\ draws \in Drawings
  /\ pods \in [Pods -> [phase : {"absent", "pending", "assumed", "bound", "terminating"},
                        node : Nodes \cup {None}]]
  /\ \A p \in Pods : pods[p].node = None <=> pods[p].phase \in {"absent", "pending"}
  /\ old \subseteq {p \in Pods : pods[p] # Absent}
  /\ oldSize \in 0..Size /\ newSize \in 0..Size
  /\ podCache \in [Pods -> Nodes \cup {None}]
  /\ queued \in BOOLEAN /\ working \in BOOLEAN /\ failed \in BOOLEAN
  /\ doomed \subseteq Pods
  /\ ~working => doomed = {} /\ ~failed
  /\ early \in 0..MaxEarly

\* The shares add up without a left-over: every call draws the same numbers.
Exact == \E desired \in draws : draws = {desired}

\* Every group runs what is desired there.
Balanced ==
  \E desired \in draws : \A g \in Groups :
    Cardinality({p \in Running : RunsIn(p, g, NodeOf, NodesIn)}) = Lookup(desired, g)

\* All of it is rolled out and spread as desired, and no pod is about to be deleted.
AtBalance == newSize = Size /\ doomed = {} /\ AtRest /\ Exact /\ Balanced

\* The spread the extender aims at is one the controller leaves alone, although
\* the two compare their counts with the desired numbers each in its own way:
\* from there on no pass picks a pod and no replica set misses one.
BalanceIsStable == [][AtBalance => AtBalance']_vars

Full == Cardinality(Running \ old) = Size

\* The extender and the controller do not work against each other for ever:
\* when the weights divide the replicas, the pods end up spread as desired and
\* stay so, wherever they ran before, and although passes in the middle of the
\* rollout count pods that are terminating or gone and delete the wrong ones.
\* That is so when such passes come to an end: as long as they follow each pass
\* at rest, they may undo in each round what it has done.
EventuallyBalanced == Exact /\ <>[](early = 0) => <>[]Balanced

\* A left-over, drawn anew by every call, makes the controller delete pods the
\* extender let in, at every resync.  But the pods always come back: again and
\* again all replicas run, all of the new revision.
AlwaysComesBack == []<>Full

=============================================================================
