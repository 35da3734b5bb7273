--------------------------- MODULE PolicyController ---------------------------
(***************************************************************************)
(* The PropagationPolicy controller: a work queue of policies, one worker  *)
(* that runs Reconcile, and the event handlers that fill the queue.        *)
(*                                                                         *)
(* Reconcile reads policies, NodeGroups, nodes, deployments and pods from  *)
(* informer caches, one List or Get after the other, and deletes pods      *)
(* through the API server.  Everything else may change between two of its  *)
(* reads.  For a kind only users change, the variable holds what the cache *)
(* holds; pods, which the worker itself changes, have a variable for the   *)
(* API server (pods) and one for the lagging cache (podCache).             *)
(***************************************************************************)
EXTENDS Placement

CONSTANTS
  Policies, Groups, Nodes, Deploys, Pods,
  None,         \* no object, no node name
  Specs,        \* the policy specs users write: [weights, selectors]
  Selectors,    \* the matchLabels users write, as sets of labels
  LabelSets,    \* the label sets a node may carry
  Sizes,        \* the replica counts users choose
  Selected,     \* Selected[d]: the pods d's label selector matches, in any namespace
  MaxEvents     \* bound on user edits and failing calls

ASSUME NoneIsNothing ==
  /\ None \notin Policies /\ None \notin Groups /\ None \notin Nodes
  /\ None \notin Selectors /\ None \notin Sizes
  /\ None \notin [spec : Specs, deleting : BOOLEAN]

ASSUME MaxEventsIsNat == MaxEvents \in Nat

ASSUME SelectedIsPods == Selected \in [Deploys -> SUBSET Pods]

\* The schema of the API admits no weight below 1 and no negative replicas.
ASSUME SpecsNameThings ==
  \A s \in Specs : /\ s.weights \in Seq([names : Seq(Groups), weight : Nat])
                   /\ s.selectors \in Seq(Deploys)

ASSUME SizesAreNat == Sizes \subseteq Nat

ASSUME PodsAreFinite == IsFiniteSet(Pods)

VARIABLES
  \* The cluster, as far as this controller reads it.
  policy,       \* policy[pol]: [spec, deleting] or None
  group,        \* group[g]: the matchLabels of g; None: absent, or nil labels
  nodeLabels,   \* nodeLabels[n]: the labels of node n
  replicas,     \* replicas[d]: spec.replicas of d, None when d is absent
  pods,         \* pods[p]: [phase, node] at the API server
  podCache,     \* podCache[p]: the same, as the informer last saw it
  \* The work queue, and NodeGroup events whose map function has yet to run.
  queue, groupEvents,
  \* The worker's program counter and local variables.
  pc, key, spec, listed, todo, nodesIn, selectors, deploys,
  counted,      \* the scheduled pods of the last listing
  desired, doomed, failed,
  \* History.
  seen,         \* seen[pol]: the policy and the groups pol's last pass read
  dropped,      \* policies whose last pass or event a swallowed error cut short
  spent         \* events so far, at most MaxEvents

objects == <<policy, group, nodeLabels, replicas>>
podVars == <<pods, podCache>>
locals  == <<key, spec, listed, todo, nodesIn, selectors, deploys,
             counted, desired, doomed, failed>>
vars == <<objects, podVars, queue, groupEvents, pc, locals, seen, dropped, spent>>

Phases == {"unborn", "pending", "bound", "terminating", "gone"}
Unborn == [phase |-> "unborn", node |-> None]
Gone   == [phase |-> "gone", node |-> None]
PodStates == [phase : Phases, node : Nodes \cup {None}]

NamedBy(pol) == IF policy[pol] = None THEN {} ELSE Named(policy[pol].spec.weights)

\* A group without matchLabels selects nothing, an empty map everything.
NodesWith(matchLabels) ==
  IF matchLabels = None THEN {} ELSE {n \in Nodes : matchLabels \subseteq nodeLabels[n]}

\* What a List of d's pods returns: whatever carries its labels, scheduled or
\* not, terminating or not, of whichever namespace and owner.
PodsOf(d) == {p \in Selected[d] : podCache[p].phase \in {"pending", "bound", "terminating"}}

-----------------------------------------------------------------------------
(***************************************************************************)
(* Reconcile                                                               *)
(***************************************************************************)
\* The locals are gone when Reconcile returns.
Return ==
  /\ pc' = "idle"
  /\ key' = None
  /\ spec' = None
  /\ listed' = [g \in Groups |-> None]
  /\ todo' = {}
  /\ nodesIn' = NoMap
  /\ selectors' = <<>>
  /\ deploys' = <<>>
  /\ counted' = {}
  /\ desired' = NoMap
  /\ doomed' = {}
  /\ failed' = FALSE

\* Get the policy.  Only one that is not found ends the pass: the test of
\* DeletionTimestamp sits in the branch of a Get that failed.
Begin(pol) ==
  /\ pc = "idle"
  /\ pol \in queue
  /\ policy[pol] # None
  /\ queue' = queue \ {pol}
  /\ pc' = "groups"
  /\ key' = pol
  /\ spec' = policy[pol]
  /\ seen' = [seen EXCEPT ![pol].policy = policy[pol]]
  /\ dropped' = dropped \ {pol}
  /\ UNCHANGED <<objects, podVars, groupEvents, listed, todo, nodesIn, selectors,
                 deploys, counted, desired, doomed, failed, spent>>

BeginNotFound(pol) ==
  /\ pc = "idle"
  /\ pol \in queue
  /\ policy[pol] = None
  /\ queue' = queue \ {pol}
  /\ dropped' = dropped \ {pol}
  /\ UNCHANGED <<objects, podVars, groupEvents, pc, locals, seen, spent>>

ListGroups ==
  /\ pc = "groups"
  /\ pc' = "nodes"
  /\ listed' = group
  /\ todo' = {g \in Groups : group[g] # None}
  /\ seen' = [seen EXCEPT ![key].groups = group]
  /\ UNCHANGED <<objects, podVars, queue, groupEvents, key, spec, nodesIn, selectors,
                 deploys, counted, desired, doomed, failed, dropped, spent>>

\* List the nodes of the next group, with the labels the group had when the
\* groups were listed.  The order of the list is the order of a Go map.
ListNodes(g) ==
  /\ pc = "nodes"
  /\ g \in todo
  /\ todo' = todo \ {g}
  /\ nodesIn' = AddNodes(nodesIn, NodesWith(listed[g]), g)
  /\ UNCHANGED <<objects, podVars, queue, groupEvents, pc, key, spec, listed, selectors,
                 deploys, counted, desired, doomed, failed, seen, dropped, spent>>

NodesListed ==
  /\ pc = "nodes"
  /\ todo = {}
  /\ pc' = "deploys"
  /\ selectors' = spec.spec.selectors
  /\ UNCHANGED <<objects, podVars, queue, groupEvents, key, spec, listed, todo, nodesIn,
                 deploys, counted, desired, doomed, failed, seen, dropped, spent>>

\* Listing groups or nodes fails: logged, and the request is not retried.
ListFails ==
  /\ \/ pc = "groups"
     \/ pc = "nodes" /\ todo # {}
  /\ spent < MaxEvents
  /\ spent' = spent + 1
  /\ dropped' = dropped \cup {key}
  /\ Return
  /\ UNCHANGED <<objects, podVars, queue, groupEvents, seen>>

\* GetManifestsDeploys: one Get per selector, errors collected.
GetDeploy ==
  /\ pc = "deploys"
  /\ selectors # <<>>
  /\ LET d == Head(selectors)
     IN  IF replicas[d] = None
         THEN failed' = TRUE /\ UNCHANGED deploys
         ELSE deploys' = Append(deploys, [name |-> d, size |-> replicas[d]]) /\ UNCHANGED failed
  /\ selectors' = Tail(selectors)
  /\ UNCHANGED <<objects, podVars, queue, groupEvents, pc, key, spec, listed, todo, nodesIn,
                 counted, desired, doomed, seen, dropped, spent>>

DeploysFetched ==
  /\ pc = "deploys"
  /\ selectors = <<>>
  /\ ~failed
  /\ pc' = "pods"
  /\ UNCHANGED <<objects, podVars, queue, groupEvents, locals, seen, dropped, spent>>

\* One missing deployment requeues the policy before any pod is looked at.
DeployMissing ==
  /\ pc = "deploys"
  /\ selectors = <<>>
  /\ failed
  /\ queue' = queue \cup {key}
  /\ Return
  /\ UNCHANGED <<objects, podVars, groupEvents, seen, dropped, spent>>

\* List the pods of the next deployment and pick the ones to delete.  The
\* order of the listing and the key that takes the left-over pods are Go's.
ListPods ==
  /\ pc = "pods"
  /\ doomed = {}
  /\ deploys # <<>>
  /\ ~Panics(spec.spec.weights)
  /\ LET d      == Head(deploys).name
         nodeOf == [p \in Pods |-> podCache[p].node]
     IN  \E listing \in SetToSeqs(PodsOf(d)),
            want \in DesiredPodsNum(spec.spec.weights, Head(deploys).size) :
           /\ listing # <<>>
           /\ desired' = want
           /\ counted' = {p \in PodsOf(d) : nodeOf[p] # None}
           /\ doomed' = PodsNeedToDelete(listing, nodeOf, want, nodesIn)
  /\ deploys' = Tail(deploys)
  /\ UNCHANGED <<objects, podVars, queue, groupEvents, pc, key, spec, listed, todo, nodesIn,
                 selectors, failed, seen, dropped, spent>>

NoPods ==
  /\ pc = "pods"
  /\ doomed = {}
  /\ deploys # <<>>
  /\ PodsOf(Head(deploys).name) = {}
  /\ deploys' = Tail(deploys)
  /\ counted' = {}
  /\ desired' = NoMap
  /\ UNCHANGED <<objects, podVars, queue, groupEvents, pc, key, spec, listed, todo, nodesIn,
                 selectors, doomed, failed, seen, dropped, spent>>

\* The List of pods fails: logged, the loop continues with the next deployment.
ListPodsFails ==
  /\ pc = "pods"
  /\ doomed = {}
  /\ deploys # <<>>
  /\ spent < MaxEvents
  /\ spent' = spent + 1
  /\ deploys' = Tail(deploys)
  /\ counted' = {}
  /\ desired' = NoMap
  /\ dropped' = dropped \cup {key}
  /\ UNCHANGED <<objects, podVars, queue, groupEvents, pc, key, spec, listed, todo, nodesIn,
                 selectors, doomed, failed, seen>>

\* Gives up the rest after the first error.
DeletePodStops(p) ==
  /\ p \in doomed
  /\ IF pods[p].phase = "gone"
     THEN failed' = TRUE /\ doomed' = {} /\ UNCHANGED pods
     ELSE /\ pods' = [pods EXCEPT ![p].phase = "terminating"]
          /\ doomed' = doomed \ {p}
          /\ UNCHANGED failed
  /\ UNCHANGED <<objects, podCache, queue, groupEvents, pc, key, spec, listed, todo, nodesIn,
                 selectors, deploys, counted, desired, seen, dropped, spent>>

\* Delete succeeds on a pod that is already terminating, and answers NotFound
\* for one that is gone: the only error the code reports.
DeletePod(p) ==
  /\ p \in doomed
  /\ doomed' = doomed \ {p}
  /\ IF pods[p].phase = "gone"
     THEN failed' = TRUE /\ UNCHANGED pods
     ELSE pods' = [pods EXCEPT ![p].phase = "terminating"] /\ UNCHANGED failed
  /\ UNCHANGED <<objects, podCache, queue, groupEvents, pc, key, spec, listed, todo, nodesIn,
                 selectors, deploys, counted, desired, seen, dropped, spent>>

\* Any other error of Delete fails the test err != nil && IsNotFound(err).
DeletePodFails(p) ==
  /\ p \in doomed
  /\ spent < MaxEvents
  /\ spent' = spent + 1
  /\ doomed' = doomed \ {p}
  /\ dropped' = dropped \cup {key}
  /\ UNCHANGED <<objects, podVars, queue, groupEvents, pc, key, spec, listed, todo, nodesIn,
                 selectors, deploys, counted, desired, failed, seen>>

\* The aggregate of the errors, when there is one, requeues the request.
Finish ==
  /\ pc = "pods"
  /\ deploys = <<>>
  /\ doomed = {}
  /\ queue' = IF failed THEN queue \cup {key} ELSE queue
  /\ Return
  /\ UNCHANGED <<objects, podVars, groupEvents, seen, dropped, spent>>

Reconcile ==
  \/ \E pol \in Policies : Begin(pol) \/ BeginNotFound(pol)
  \/ ListGroups \/ NodesListed \/ ListFails
  \/ \E g \in Groups : ListNodes(g)
  \/ GetDeploy \/ DeploysFetched \/ DeployMissing
  \/ ListPods \/ NoPods \/ ListPodsFails
  \/ \E p \in Pods : DeletePod(p) \/ DeletePodFails(p)
  \/ Finish

-----------------------------------------------------------------------------
(***************************************************************************)
(* The watches: policy events put the policy into the queue as they come,  *)
(* NodeGroup events wait in groupEvents for newNodeGroupMapFunc.  Nothing  *)
(* watches nodes, deployments or pods.                                     *)
(***************************************************************************)
PoliciesNamingFirst(g) ==
  {pol \in Policies : policy[pol] # None /\ g \in Named(SubSeq(policy[pol].spec.weights, 1, 1))}

PoliciesNaming(g) == {pol \in Policies : g \in NamedBy(pol)}

MapGroupEvent(g) ==
  /\ g \in groupEvents
  /\ groupEvents' = groupEvents \ {g}
  /\ queue' = queue \cup PoliciesNaming(g)
  /\ UNCHANGED <<objects, podVars, pc, locals, seen, dropped, spent>>

\* Listing the policies fails: the event is lost.
MapGroupEventFails(g) ==
  /\ g \in groupEvents
  /\ spent < MaxEvents
  /\ spent' = spent + 1
  /\ groupEvents' = groupEvents \ {g}
  /\ dropped' = dropped \cup PoliciesNaming(g)
  /\ UNCHANGED <<objects, podVars, queue, pc, locals, seen>>

\* The informer delivers an update for every object once per resync period.
Resync ==
  /\ queue' = queue \cup {pol \in Policies : policy[pol] # None}
  /\ groupEvents' = groupEvents \cup {g \in Groups : group[g] # None}
  /\ UNCHANGED <<objects, podVars, pc, locals, seen, dropped, spent>>

-----------------------------------------------------------------------------
(***************************************************************************)
(* The controller manager.  Nothing is kept across a restart of its        *)
(* process: what the worker held is gone, and the informers list every     *)
(* object and report it as created.                                        *)
(***************************************************************************)
StartUp ==
  /\ Return
  /\ podCache' = pods
  /\ queue' = {pol \in Policies : policy[pol] # None}
  /\ groupEvents' = {g \in Groups : group[g] # None}
  /\ dropped' = {}
  /\ UNCHANGED <<objects, pods, seen>>

\* The process ends between two steps, for a lost lease or a node that fails.
Restart ==
  /\ spent < MaxEvents
  /\ spent' = spent + 1
  /\ StartUp

\* Nothing recovers from a panic of Reconcile: it takes the manager down, and
\* again on the next pass over the same policy.
CrashOnPolicy ==
  /\ pc = "pods"
  /\ doomed = {}
  /\ deploys # <<>>
  /\ PodsOf(Head(deploys).name) # {}
  /\ Panics(spec.spec.weights)
  /\ StartUp
  /\ UNCHANGED spent

Manager == Restart \/ CrashOnPolicy

-----------------------------------------------------------------------------
(***************************************************************************)
(* Users, the deployment controller, the scheduler and the kubelets.       *)
(***************************************************************************)
Edit ==
  /\ spent < MaxEvents
  /\ spent' = spent + 1
  /\ UNCHANGED <<podVars, pc, locals, seen, dropped>>

WritePolicy(pol, s) ==
  /\ Edit
  /\ policy' = [policy EXCEPT ![pol] =
       [spec |-> s, deleting |-> policy[pol] # None /\ policy[pol].deleting]]
  /\ queue' = queue \cup {pol}
  /\ UNCHANGED <<group, nodeLabels, replicas, groupEvents>>

\* A delete request for a policy that has finalizers.
MarkDeleting(pol) ==
  /\ Edit
  /\ policy[pol] # None
  /\ ~policy[pol].deleting
  /\ policy' = [policy EXCEPT ![pol].deleting = TRUE]
  /\ queue' = queue \cup {pol}
  /\ UNCHANGED <<group, nodeLabels, replicas, groupEvents>>

RemovePolicy(pol) ==
  /\ Edit
  /\ policy[pol] # None
  /\ policy' = [policy EXCEPT ![pol] = None]
  /\ queue' = queue \cup {pol}
  /\ UNCHANGED <<group, nodeLabels, replicas, groupEvents>>

WriteGroup(g, matchLabels) ==
  /\ Edit
  /\ group' = [group EXCEPT ![g] = matchLabels]
  /\ groupEvents' = groupEvents \cup {g}
  /\ UNCHANGED <<policy, nodeLabels, replicas, queue>>

RelabelNode(n, labels) ==
  /\ Edit
  /\ nodeLabels' = [nodeLabels EXCEPT ![n] = labels]
  /\ UNCHANGED <<policy, group, replicas, queue, groupEvents>>

Scale(d, size) ==
  /\ Edit
  /\ replicas' = [replicas EXCEPT ![d] = size]
  /\ UNCHANGED <<policy, group, nodeLabels, queue, groupEvents>>

Users ==
  \/ \E pol \in Policies :
       (\E s \in Specs : WritePolicy(pol, s)) \/ MarkDeleting(pol) \/ RemovePolicy(pol)
  \/ \E g \in Groups, matchLabels \in Selectors \cup {None} : WriteGroup(g, matchLabels)
  \/ \E n \in Nodes, labels \in LabelSets : RelabelNode(n, labels)
  \/ \E d \in Deploys, size \in Sizes \cup {None} : Scale(d, size)

SetPod(p, state) ==
  /\ pods' = [pods EXCEPT ![p] = state]
  /\ UNCHANGED <<objects, podCache, queue, groupEvents, pc, locals, seen, dropped, spent>>

CreatePod(p) == pods[p] = Unborn /\ SetPod(p, [phase |-> "pending", node |-> None])

BindPod(p, n) == pods[p].phase = "pending" /\ SetPod(p, [phase |-> "bound", node |-> n])

\* Somebody else deletes the pod: a scale-down, an eviction, a user.
EvictPod(p) ==
  pods[p].phase \in {"pending", "bound"} /\ SetPod(p, [pods[p] EXCEPT !.phase = "terminating"])

RemovePod(p) == pods[p].phase = "terminating" /\ SetPod(p, Gone)

\* The informer catches up with one pod.
SyncPod(p) ==
  /\ podCache' = [podCache EXCEPT ![p] = pods[p]]
  /\ UNCHANGED <<objects, pods, queue, groupEvents, pc, locals, seen, dropped, spent>>

Cluster ==
  \E p \in Pods :
    \/ CreatePod(p)
    \/ \E n \in Nodes : BindPod(p, n)
    \/ EvictPod(p)
    \/ RemovePod(p)
    \/ SyncPod(p)

Watches == Resync \/ \E g \in Groups : MapGroupEvent(g) \/ MapGroupEventFails(g)

-----------------------------------------------------------------------------
\* The manager has just started on a cluster with some pods, of deployments
\* that may be yet to be created: the first list of each informer delivers every
\* object as created.
Init ==
  /\ policy \in [Policies -> [spec : Specs, deleting : {FALSE}]]
  /\ group \in [Groups -> Selectors]
  /\ nodeLabels \in [Nodes -> LabelSets]
  /\ replicas \in [Deploys -> Sizes \cup {None}]
  /\ pods \in [Pods -> {Unborn} \cup [phase : {"bound"}, node : Nodes]]
  /\ podCache = pods
  /\ queue = Policies
  /\ groupEvents = Groups
  /\ pc = "idle"
  /\ key = None
  /\ spec = None
  /\ listed = [g \in Groups |-> None]
  /\ todo = {}
  /\ nodesIn = NoMap
  /\ selectors = <<>>
  /\ deploys = <<>>
  /\ counted = {}
  /\ desired = NoMap
  /\ doomed = {}
  /\ failed = FALSE
  /\ seen = [pol \in Policies |-> [policy |-> None, groups |-> [g \in Groups |-> None]]]
  /\ dropped = {}
  /\ spent = 0

Next == Reconcile \/ Watches \/ Manager \/ Users \/ Cluster

Spec == Init /\ [][Next]_vars

\* The worker, the map function and the informers run as long as the manager
\* does; the work queue is first in, first out; kubelets stop the pods they are
\* told to stop; the resync period comes round.
FairSpec ==
  /\ Spec
  /\ WF_vars(Reconcile \/ CrashOnPolicy)
  /\ \A pol \in Policies : SF_vars(Begin(pol))
  /\ WF_vars(Resync)
  /\ \A g \in Groups : WF_vars(MapGroupEvent(g))
  /\ \A p \in Pods : WF_vars(SyncPod(p)) /\ WF_vars(RemovePod(p))

-----------------------------------------------------------------------------
Objects == [spec : Specs, deleting : BOOLEAN] \cup {None}
GroupMaps == [Groups -> Selectors \cup {None}]

\* Every variable has its type; the worker has a key, and a copy of its policy,
\* exactly while a pass of Reconcile is under way, and pods to delete only after
\* it has listed some.
TypeOK ==
  /\ policy \in [Policies -> Objects]
  /\ group \in GroupMaps
  /\ nodeLabels \in [Nodes -> LabelSets]
  /\ replicas \in [Deploys -> Sizes \cup {None}]
  /\ pods \in [Pods -> PodStates]
  /\ podCache \in [Pods -> PodStates]
  /\ queue \subseteq Policies
  /\ groupEvents \subseteq Groups
  /\ pc \in {"idle", "groups", "nodes", "deploys", "pods"}
  /\ pc = "idle" <=> key = None
  /\ key \in Policies \cup {None}
  /\ spec \in Objects
  /\ key # None => spec # None
  /\ listed \in GroupMaps
  /\ todo \subseteq Groups
  /\ IsMap(nodesIn, Nodes, Groups)
  /\ selectors \in Seq(Deploys)
  /\ deploys \in Seq([name : Deploys, size : Sizes])
  /\ counted \subseteq Pods
  /\ doomed \subseteq Pods
  /\ doomed # {} => pc = "pods"
  /\ failed \in BOOLEAN
  /\ seen \in [Policies -> [policy : Objects, groups : GroupMaps]]
  /\ dropped \subseteq Policies
  /\ spent \in 0..MaxEvents

\* No trigger is lost: when no pass of a policy is queued or cut short by a
\* swallowed error, its last pass read the policy as it is now, and every group
\* it names as it is now or else an event of the group is still to be mapped.
\* The pass under way is held to the same as far as it has read.
NoLostTrigger ==
  \A pol \in Policies \ (queue \cup dropped) :
    policy[pol] # None =>
      /\ seen[pol].policy = policy[pol]
      /\ \/ pol = key /\ pc = "groups"
         \/ \A g \in NamedBy(pol) \ groupEvents : seen[pol].groups[g] = group[g]

\* Whatever the lag of the caches, the controller is only ever about to delete
\* pods that carry the labels of a deployment its policy selects and that the
\* scheduler has put on a node this pass found in some group; never one that
\* waits to be scheduled.
OnlyPlacedPods ==
  \A p \in doomed :
    /\ \E i \in DOMAIN spec.spec.selectors : p \in Selected[spec.spec.selectors[i]]
    /\ pods[p].phase # "gone" => pods[p].node \in DOMAIN nodesIn

RunningIn(S, g, nodeOf) ==
  {p \in S : pods[p].phase = "bound" /\ RunsIn(p, g, nodeOf, nodesIn)}

NodeOf == [p \in Pods |-> pods[p].node]

\* When the pods picked from a listing have been dealt with and no error was
\* swallowed, no group runs more of the pods that were listed than desired.
Trimmed ==
  pc = "pods" /\ key \notin dropped =>
    \A g \in Groups :
      LET kept == Cardinality(RunningIn(counted \ doomed, g, NodeOf))
      IN  kept > 0 => kept <= Lookup(desired, g)

\* "currently do nothing, leave the scheduled pods as they are": a pass over a
\* policy that is being deleted picks no pod (propagationpolicy_controller.go:51).
DeletingLeavesPods == doomed # {} => ~spec.deleting

\* The desired numbers of a call differ only in who takes the left-over pods.
Cap(pol, d, g) ==
  LET wants == DesiredPodsNum(policy[pol].spec.weights, replicas[d])
  IN  {Lookup(want, g) : want \in wants}

\* No group runs more pods of a selected deployment than some call of
\* DesiredPodsNumInTargetNodeGroups asks for.
NotCrowded ==
  \A pol \in Policies :
    policy[pol] # None /\ ~Panics(policy[pol].spec.weights) =>
      \A i \in DOMAIN policy[pol].spec.selectors, g \in Groups :
        LET d    == policy[pol].spec.selectors[i]
            only == {n \in NodesWith(group[g]) :
                       \A h \in Groups \ {g} : n \notin NodesWith(group[h])}
            here == {p \in Selected[d] : pods[p].phase = "bound" /\ pods[p].node \in only}
        IN  replicas[d] # None /\ here # {} => \E cap \in Cap(pol, d, g) : Cardinality(here) <= cap

AllDeployed == \A d \in Deploys : replicas[d] # None

NonePanics == \A pol \in Policies : policy[pol] # None => ~Panics(policy[pol].spec.weights)

\* When the users are done, every deployment is there and no policy has an entry
\* without a name, the controller brings each group down to what its policies
\* desire there and it stays so, although it is not told of pods, nodes or
\* deployments that change, drops events and errors on the way and may have
\* crashed over and over before: resyncs and restarts make up for them.
Converges == <>[](AllDeployed /\ NonePanics) => <>[]NotCrowded

=============================================================================
