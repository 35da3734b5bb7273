----------------------- MODULE PolicyControllerProofs -----------------------
(***************************************************************************)
(* Theorems about PolicyController for every number of policies, groups,   *)
(* nodes, deployments and pods, and every bound on the events.             *)
(***************************************************************************)
EXTENDS PolicyController, PlacementProofs

-----------------------------------------------------------------------------
(***************************************************************************)
(* Type correctness                                                        *)
(***************************************************************************)
\* Returning from Reconcile leaves well-typed locals.
LEMMA ReturnTypes ==
  ASSUME Return
  PROVE  /\ pc' = "idle" /\ key' = None /\ spec' = None
         /\ listed' \in GroupMaps /\ todo' = {} /\ IsMap(nodesIn', Nodes, Groups)
         /\ selectors' = <<>> /\ deploys' = <<>>
         /\ counted' = {} /\ doomed' = {} /\ failed' = FALSE
BY NoMapIsMap DEF Return, GroupMaps

\* The initial state has the declared types.
LEMMA InitTypes == Init => TypeOK
<1> SUFFICES ASSUME Init PROVE TypeOK
  OBVIOUS
<1>1. policy \in [Policies -> Objects] /\ group \in GroupMaps
  BY DEF Init, Objects, GroupMaps
<1>2. pods \in [Pods -> PodStates] /\ podCache \in [Pods -> PodStates]
  BY DEF Init, PodStates, Unborn, Phases
<1>3. spec \in Objects /\ listed \in GroupMaps
  BY DEF Init, Objects, GroupMaps
<1>4. seen \in [Policies -> [policy : Objects, groups : GroupMaps]]
  BY DEF Init, Objects, GroupMaps
<1>5. IsMap(nodesIn, Nodes, Groups)
  BY NoMapIsMap DEF Init
<1>6. selectors \in Seq(Deploys) /\ deploys \in Seq([name : Deploys, size : Sizes])
  BY DEF Init
<1>7. pc = "idle" <=> key = None
  BY DEF Init
<1>8. replicas \in [Deploys -> Sizes \cup {None}]
  BY DEF Init
<1>9. /\ queue \subseteq Policies /\ groupEvents \subseteq Groups /\ todo \subseteq Groups
      /\ counted \subseteq Pods /\ doomed \subseteq Pods /\ doomed = {} /\ dropped \subseteq Policies
      /\ nodeLabels \in [Nodes -> LabelSets]
      /\ pc = "idle" /\ key = None /\ failed \in BOOLEAN
  BY DEF Init
<1>10. spent \in 0..MaxEvents
  BY MaxEventsIsNat DEF Init
<1> QED
  BY <1>1, <1>2, <1>3, <1>4, <1>5, <1>6, <1>7, <1>8, <1>9, <1>10 DEF TypeOK

\* The deployments that are left to look at have names and sizes.
LEMMA HeadOfDeploys ==
  ASSUME TypeOK, deploys # <<>>
  PROVE  Head(deploys).name \in Deploys /\ Head(deploys).size \in Sizes
<1> DEFINE D == [name : Deploys, size : Sizes]
<1>1. deploys \in Seq(D)
  BY DEF TypeOK
<1>2. Head(deploys) \in D
  <2> HIDE DEF D
  <2> QED
    BY <1>1
<1> QED
  BY <1>2

\* A pod that is told to terminate keeps its node.
LEMMA TerminatingTypes ==
  ASSUME NEW P \in [Pods -> PodStates], NEW p \in Pods
  PROVE  [P EXCEPT ![p].phase = "terminating"] \in [Pods -> PodStates]
<1>1. P[p] \in [phase : Phases, node : Nodes \cup {None}]
  BY DEF PodStates
<1>2. [P[p] EXCEPT !.phase = "terminating"] \in PodStates
  BY <1>1 DEF PodStates, Phases
<1>3. [P EXCEPT ![p].phase = "terminating"] = [P EXCEPT ![p] = [P[p] EXCEPT !.phase = "terminating"]]
  OBVIOUS
<1> QED
  BY <1>2, <1>3

\* Every step of the worker keeps the types.
LEMMA ReconcileTypes == TypeOK /\ Reconcile => TypeOK'
<1> SUFFICES ASSUME TypeOK, Reconcile PROVE TypeOK'
  OBVIOUS
<1> USE NoneIsNothing
<1>1. ASSUME NEW pol \in Policies, Begin(pol) PROVE TypeOK'
  BY <1>1 DEF TypeOK, Begin, objects, podVars
<1>2. ASSUME NEW pol \in Policies, BeginNotFound(pol) PROVE TypeOK'
  BY <1>2 DEF TypeOK, BeginNotFound, objects, podVars, locals
<1>3. CASE ListGroups
  BY <1>3 DEF TypeOK, ListGroups, objects, podVars
<1>4. CASE NodesListed
  <2>1. key # None /\ spec \in [spec : Specs, deleting : BOOLEAN]
    BY <1>4 DEF TypeOK, NodesListed, Objects
  <2>2. selectors' \in Seq(Deploys)
    BY <1>4, <2>1, SpecsNameThings DEF NodesListed
  <2> QED
    BY <1>4, <2>2 DEF TypeOK, NodesListed, objects, podVars
<1>5. CASE ListFails
  BY <1>5, ReturnTypes, MaxEventsIsNat DEF TypeOK, ListFails, objects, podVars, Objects
<1>6. ASSUME NEW g \in Groups, ListNodes(g) PROVE TypeOK'
  <2>1. NodesWith(listed[g]) \subseteq Nodes
    BY DEF NodesWith
  <2>2. IsMap(nodesIn', Nodes, Groups)
    BY <1>6, <2>1, AddNodesIsMap DEF ListNodes, TypeOK
  <2> QED
    BY <1>6, <2>2 DEF TypeOK, ListNodes, objects, podVars
<1>7. CASE GetDeploy
  <2>1. Head(selectors) \in Deploys /\ Tail(selectors) \in Seq(Deploys)
    BY <1>7 DEF TypeOK, GetDeploy
  <2>2. deploys' \in Seq([name : Deploys, size : Sizes]) /\ failed' \in BOOLEAN
    <3> DEFINE D == [name : Deploys, size : Sizes]
    <3>1. deploys \in Seq(D) /\ failed \in BOOLEAN
      BY DEF TypeOK
    <3>2. CASE replicas[Head(selectors)] = None
      BY <1>7, <3>1, <3>2 DEF GetDeploy
    <3>3. CASE replicas[Head(selectors)] # None
      <4>1. [name |-> Head(selectors), size |-> replicas[Head(selectors)]] \in D
        BY <2>1, <3>3 DEF TypeOK
      <4>2. deploys' = Append(deploys, [name |-> Head(selectors), size |-> replicas[Head(selectors)]])
        BY <1>7, <3>3 DEF GetDeploy
      <4>3. failed' = failed
        BY <1>7, <3>3 DEF GetDeploy
      <4> HIDE DEF D
      <4>4. deploys' \in Seq(D)
        BY <3>1, <4>1, <4>2
      <4> QED
        BY <3>1, <4>3, <4>4 DEF D
    <3> QED
      BY <3>2, <3>3
  <2> QED
    BY <1>7, <2>1, <2>2 DEF TypeOK, GetDeploy, objects, podVars
<1>8. CASE DeploysFetched
  BY <1>8 DEF TypeOK, DeploysFetched, objects, podVars, locals
<1>9. CASE DeployMissing
  BY <1>9, ReturnTypes DEF TypeOK, DeployMissing, objects, podVars, Objects
<1>10. CASE ListPods
  <2>1. doomed' \subseteq Pods
    <3>1. PICK listing \in SetToSeqs(PodsOf(Head(deploys).name)),
               want \in DesiredPodsNum(spec.spec.weights, Head(deploys).size) :
            doomed' = PodsNeedToDelete(listing, [p \in Pods |-> podCache[p].node],
                                       want, nodesIn)
      BY <1>10 DEF ListPods
    <3>2. \A i \in DOMAIN listing : listing[i] \in PodsOf(Head(deploys).name)
      BY DEF SetToSeqs
    <3>3. Head(deploys).name \in Deploys
      BY <1>10, HeadOfDeploys DEF ListPods
    <3> QED
      BY <3>1, <3>2, <3>3, DoomedArePlaced, SelectedIsPods DEF PodsOf
  <2>2. counted' \subseteq Pods
    BY <1>10, HeadOfDeploys, SelectedIsPods DEF ListPods, PodsOf
  <2>3. deploys' \in Seq([name : Deploys, size : Sizes])
    BY <1>10 DEF ListPods, TypeOK
  <2> QED
    BY <1>10, <2>1, <2>2, <2>3 DEF TypeOK, ListPods, objects, podVars
<1>11. CASE NoPods
  BY <1>11 DEF TypeOK, NoPods, objects, podVars
<1>12. CASE ListPodsFails
  BY <1>12, MaxEventsIsNat DEF TypeOK, ListPodsFails, objects, podVars
<1>13. ASSUME NEW p \in Pods, DeletePod(p) PROVE TypeOK'
  <2>1. pods' \in [Pods -> PodStates] /\ failed' \in BOOLEAN
    <3>1. pods \in [Pods -> PodStates] /\ failed \in BOOLEAN
      BY DEF TypeOK
    <3>2. CASE pods[p].phase = "gone"
      BY <1>13, <3>1, <3>2 DEF DeletePod
    <3>3. CASE pods[p].phase # "gone"
      <4>1. pods' = [pods EXCEPT ![p].phase = "terminating"] /\ failed' = failed
        BY <1>13, <3>3 DEF DeletePod
      <4> QED
        BY <3>1, <4>1, TerminatingTypes
    <3> QED
      BY <3>2, <3>3
  <2> QED
    BY <1>13, <2>1 DEF TypeOK, DeletePod, objects
<1>14. ASSUME NEW p \in Pods, DeletePodFails(p) PROVE TypeOK'
  BY <1>14, MaxEventsIsNat DEF TypeOK, DeletePodFails, objects, podVars
<1>15. CASE Finish
  BY <1>15, ReturnTypes DEF TypeOK, Finish, objects, podVars, Objects
<1> QED
  BY <1>1, <1>2, <1>3, <1>4, <1>5, <1>6, <1>7, <1>8, <1>9, <1>10, <1>11, <1>12,
     <1>13, <1>14, <1>15 DEF Reconcile

\* Every step of the watches keeps the types.
LEMMA WatchesTypes == TypeOK /\ Watches => TypeOK'
<1> SUFFICES ASSUME TypeOK, Watches PROVE TypeOK'
  OBVIOUS
<1>1. CASE Resync
  BY <1>1 DEF TypeOK, Resync, objects, podVars, locals
<1>2. ASSUME NEW g \in Groups, MapGroupEvent(g) PROVE TypeOK'
  BY <1>2 DEF TypeOK, MapGroupEvent, PoliciesNaming, objects, podVars, locals
<1>3. ASSUME NEW g \in Groups, MapGroupEventFails(g) PROVE TypeOK'
  BY <1>3, MaxEventsIsNat DEF TypeOK, MapGroupEventFails, PoliciesNaming, objects, podVars, locals
<1> QED
  BY <1>1, <1>2, <1>3 DEF Watches

\* Every step of the users keeps the types.
LEMMA UsersTypes == TypeOK /\ Users => TypeOK'
<1> SUFFICES ASSUME TypeOK, Users PROVE TypeOK'
  OBVIOUS
<1> USE MaxEventsIsNat
<1>1. ASSUME NEW pol \in Policies, NEW s \in Specs, WritePolicy(pol, s) PROVE TypeOK'
  <2>1. policy' \in [Policies -> Objects]
    BY <1>1 DEF TypeOK, WritePolicy, Objects
  <2> QED
    BY <1>1, <2>1 DEF TypeOK, WritePolicy, Edit, podVars, locals
<1>2. ASSUME NEW pol \in Policies, MarkDeleting(pol) PROVE TypeOK'
  <2>1. policy' \in [Policies -> Objects]
    BY <1>2 DEF TypeOK, MarkDeleting, Objects
  <2> QED
    BY <1>2, <2>1 DEF TypeOK, MarkDeleting, Edit, podVars, locals
<1>3. ASSUME NEW pol \in Policies, RemovePolicy(pol) PROVE TypeOK'
  BY <1>3 DEF TypeOK, RemovePolicy, Edit, podVars, locals, Objects
<1>4. ASSUME NEW g \in Groups, NEW l \in Selectors \cup {None}, WriteGroup(g, l) PROVE TypeOK'
  BY <1>4 DEF TypeOK, WriteGroup, Edit, podVars, locals, GroupMaps
<1>5. ASSUME NEW n \in Nodes, NEW l \in LabelSets, RelabelNode(n, l) PROVE TypeOK'
  BY <1>5 DEF TypeOK, RelabelNode, Edit, podVars, locals
<1>6. ASSUME NEW d \in Deploys, NEW size \in Sizes \cup {None}, Scale(d, size) PROVE TypeOK'
  BY <1>6 DEF TypeOK, Scale, Edit, podVars, locals
<1> QED
  BY <1>1, <1>2, <1>3, <1>4, <1>5, <1>6 DEF Users

\* Every step of the rest of the cluster keeps the types.
LEMMA ClusterTypes == TypeOK /\ Cluster => TypeOK'
<1> SUFFICES ASSUME TypeOK, NEW p \in Pods,
                    \/ CreatePod(p) \/ \E n \in Nodes : BindPod(p, n)
                    \/ EvictPod(p) \/ RemovePod(p) \/ SyncPod(p)
             PROVE  TypeOK'
  BY DEF Cluster
<1>1. pods' \in [Pods -> PodStates]
  <2>1. pods[p] \in [phase : Phases, node : Nodes \cup {None}]
    BY DEF TypeOK, PodStates
  <2>2. /\ [phase |-> "pending", node |-> None] \in PodStates
        /\ Gone \in PodStates
        /\ [pods[p] EXCEPT !.phase = "terminating"] \in PodStates
        /\ \A n \in Nodes : [phase |-> "bound", node |-> n] \in PodStates
    BY <2>1 DEF PodStates, Phases, Gone
  <2> QED
    BY <2>2 DEF TypeOK, CreatePod, BindPod, EvictPod, RemovePod, SyncPod, SetPod
<1>2. podCache' \in [Pods -> PodStates]
  BY DEF TypeOK, CreatePod, BindPod, EvictPod, RemovePod, SyncPod, SetPod
<1> QED
  BY <1>1, <1>2 DEF TypeOK, CreatePod, BindPod, EvictPod, RemovePod, SyncPod, SetPod,
                    objects, locals

\* A restart leaves the worker as Return does, and the cache a copy.
LEMMA ManagerTypes == TypeOK /\ Manager => TypeOK'
<1> SUFFICES ASSUME TypeOK, Manager PROVE TypeOK'
  OBVIOUS
<1>1. StartUp
  BY DEF Manager, Restart, CrashOnPolicy
<1>2. spent' \in 0..MaxEvents
  BY MaxEventsIsNat DEF Manager, Restart, CrashOnPolicy, TypeOK
<1>3. /\ policy' = policy /\ group' = group /\ nodeLabels' = nodeLabels /\ replicas' = replicas
      /\ pods' = pods /\ podCache' = pods /\ seen' = seen
      /\ queue' \subseteq Policies /\ groupEvents' \subseteq Groups /\ dropped' \subseteq Policies
  BY <1>1 DEF StartUp, objects
<1> QED
  BY <1>1, <1>2, <1>3, ReturnTypes DEF StartUp, TypeOK, Objects

\* A step that changes nothing keeps the types.
LEMMA StutterTypes == TypeOK /\ UNCHANGED vars => TypeOK'
BY DEF TypeOK, vars, objects, podVars, locals

\* Every variable keeps to the values the code can give it.
THEOREM TypeCorrect == Spec => []TypeOK
<1>1. TypeOK /\ [Next]_vars => TypeOK'
  BY ReconcileTypes, WatchesTypes, ManagerTypes, UsersTypes, ClusterTypes, StutterTypes DEF Next
<1> QED
  BY InitTypes, <1>1, PTL DEF Spec

-----------------------------------------------------------------------------
(***************************************************************************)
(* No trigger is lost.  NoLostTrigger is inductive relative to TypeOK: the *)
(* clause about the pass under way is what makes it so, because a policy   *)
(* leaves the queue when its pass begins and its groups are read later.    *)
(***************************************************************************)
\* What NoLostTrigger says of one policy.
Caught(pol) ==
  policy[pol] # None =>
    /\ seen[pol].policy = policy[pol]
    /\ \/ pol = key /\ pc = "groups"
       \/ \A g \in NamedBy(pol) \ groupEvents : seen[pol].groups[g] = group[g]

\* The variables that NoLostTrigger reads.
triggers == <<policy, group, queue, groupEvents, pc, key, seen, dropped>>

\* A step that leaves these variables alone keeps NoLostTrigger.
LEMMA UntouchedTriggers ==
  ASSUME NoLostTrigger, UNCHANGED triggers
  PROVE  NoLostTrigger'
BY DEF NoLostTrigger, triggers, NamedBy

\* So does one that moves the worker from one place to another, neither of
\* them before the groups are listed.
LEMMA LaterTriggers ==
  ASSUME NoLostTrigger, pc # "groups",
         UNCHANGED <<policy, group, groupEvents, seen>>,
         queue \subseteq queue', dropped \subseteq dropped'
  PROVE  NoLostTrigger'
BY DEF NoLostTrigger, NamedBy

\* The worker and the watches keep NoLostTrigger.
LEMMA ReconcileTriggers == TypeOK /\ NoLostTrigger /\ Reconcile => NoLostTrigger'
<1> SUFFICES ASSUME TypeOK, NoLostTrigger, Reconcile PROVE NoLostTrigger'
  OBVIOUS
<1>1. ASSUME NEW pol \in Policies, Begin(pol) PROVE NoLostTrigger'
  <2> SUFFICES ASSUME NEW r \in Policies \ (queue' \cup dropped') PROVE Caught(r)'
    BY DEF NoLostTrigger, Caught
  <2>1. CASE r = pol
    BY <1>1, <2>1 DEF Begin, objects, Caught, TypeOK
  <2>2. CASE r # pol
    <3>1. r \notin queue \cup dropped
      BY <1>1, <2>2 DEF Begin
    <3>2. Caught(r)
      BY <3>1 DEF NoLostTrigger, Caught
    <3>3. seen'[r] = seen[r] /\ policy' = policy /\ group' = group /\ groupEvents' = groupEvents
      BY <1>1, <2>2 DEF Begin, objects, TypeOK
    <3>4. pc # "groups"
      BY <1>1 DEF Begin
    <3> QED
      BY <3>2, <3>3, <3>4 DEF Caught, NamedBy
  <2> QED
    BY <2>1, <2>2
<1>2. ASSUME NEW pol \in Policies, BeginNotFound(pol) PROVE NoLostTrigger'
  BY <1>2 DEF BeginNotFound, NoLostTrigger, NamedBy, objects, locals
<1>3. CASE ListGroups
  <2> SUFFICES ASSUME NEW r \in Policies \ (queue' \cup dropped') PROVE Caught(r)'
    BY DEF NoLostTrigger, Caught
  <2>1. Caught(r)
    BY <1>3 DEF ListGroups, NoLostTrigger, Caught
  <2>2. UNCHANGED <<policy, group, groupEvents, key>>
    BY <1>3 DEF ListGroups, objects
  <2>3. CASE r = key
    BY <1>3, <2>1, <2>2, <2>3 DEF ListGroups, Caught, TypeOK
  <2>4. CASE r # key
    <3>1. seen'[r] = seen[r]
      BY <1>3, <2>4 DEF ListGroups, TypeOK
    <3> QED
      BY <2>1, <2>2, <2>4, <3>1 DEF Caught, NamedBy
  <2> QED
    BY <2>3, <2>4
<1>4. CASE ListFails
  BY <1>4 DEF ListFails, NoLostTrigger, NamedBy, objects
<1>5. CASE NodesListed \/ DeploysFetched \/ DeployMissing \/ Finish
  BY <1>5, LaterTriggers
     DEF NodesListed, DeploysFetched, DeployMissing, Finish, objects
<1>6. CASE GetDeploy \/ ListPods \/ NoPods \/ ListPodsFails
  BY <1>6, LaterTriggers DEF GetDeploy, ListPods, NoPods, ListPodsFails, objects
<1>7. ASSUME NEW g \in Groups, ListNodes(g) PROVE NoLostTrigger'
  BY <1>7, UntouchedTriggers DEF ListNodes, triggers, objects
<1>8. ASSUME NEW p \in Pods, DeletePod(p) PROVE NoLostTrigger'
  BY <1>8, UntouchedTriggers DEF DeletePod, triggers, objects
<1>9. ASSUME NEW p \in Pods, DeletePodFails(p) PROVE NoLostTrigger'
  BY <1>9, LaterTriggers DEF DeletePodFails, objects, TypeOK
<1> QED
  BY <1>1, <1>2, <1>3, <1>4, <1>5, <1>6, <1>7, <1>8, <1>9 DEF Reconcile

\* A NodeGroup event leaves groupEvents for the queue, or is dropped.
LEMMA WatchesTriggers == TypeOK /\ NoLostTrigger /\ Watches => NoLostTrigger'
<1> SUFFICES ASSUME TypeOK, NoLostTrigger, Watches PROVE NoLostTrigger'
  OBVIOUS
<1>1. CASE Resync
  BY <1>1 DEF Resync, NoLostTrigger, NamedBy, objects, locals
<1>2. ASSUME NEW g \in Groups, MapGroupEvent(g) PROVE NoLostTrigger'
  BY <1>2 DEF MapGroupEvent, PoliciesNaming, NoLostTrigger, NamedBy, objects, locals
<1>3. ASSUME NEW g \in Groups, MapGroupEventFails(g) PROVE NoLostTrigger'
  BY <1>3 DEF MapGroupEventFails, PoliciesNaming, NoLostTrigger, NamedBy, objects, locals
<1> QED
  BY <1>1, <1>2, <1>3 DEF Watches

\* A write to a policy or a group comes with its event.
LEMMA UsersTriggers == TypeOK /\ NoLostTrigger /\ Users => NoLostTrigger'
<1> SUFFICES ASSUME TypeOK, NoLostTrigger, Users PROVE NoLostTrigger'
  OBVIOUS
<1>1. ASSUME NEW pol \in Policies, NEW s \in Specs, WritePolicy(pol, s) PROVE NoLostTrigger'
  BY <1>1 DEF WritePolicy, Edit, NoLostTrigger, NamedBy, locals, TypeOK
<1>2. ASSUME NEW pol \in Policies, MarkDeleting(pol) PROVE NoLostTrigger'
  BY <1>2 DEF MarkDeleting, Edit, NoLostTrigger, NamedBy, locals, TypeOK
<1>3. ASSUME NEW pol \in Policies, RemovePolicy(pol) PROVE NoLostTrigger'
  BY <1>3 DEF RemovePolicy, Edit, NoLostTrigger, NamedBy, locals, TypeOK
<1>4. ASSUME NEW g \in Groups, NEW l \in Selectors \cup {None}, WriteGroup(g, l)
      PROVE  NoLostTrigger'
  BY <1>4 DEF WriteGroup, Edit, NoLostTrigger, NamedBy, locals, TypeOK
<1>5. ASSUME NEW n \in Nodes, NEW l \in LabelSets, RelabelNode(n, l) PROVE NoLostTrigger'
  BY <1>5, UntouchedTriggers DEF RelabelNode, Edit, triggers, locals
<1>6. ASSUME NEW d \in Deploys, NEW size \in Sizes \cup {None}, Scale(d, size)
      PROVE  NoLostTrigger'
  BY <1>6, UntouchedTriggers DEF Scale, Edit, triggers, locals
<1> QED
  BY <1>1, <1>2, <1>3, <1>4, <1>5, <1>6 DEF Users

\* Pods come and go without any trigger.
LEMMA ClusterTriggers == TypeOK /\ NoLostTrigger /\ Cluster => NoLostTrigger'
BY UntouchedTriggers
   DEF Cluster, CreatePod, BindPod, EvictPod, RemovePod, SyncPod, SetPod, triggers, objects, locals

\* After a restart every policy there is is queued.
LEMMA ManagerTriggers == NoLostTrigger /\ Manager => NoLostTrigger'
BY DEF Manager, Restart, CrashOnPolicy, StartUp, objects, NoLostTrigger

\* No change to a policy, and none to a group that a policy names, goes by
\* without a pass that reads it, unless the code swallowed an error.
THEOREM NoTriggerIsLost == Spec => []NoLostTrigger
<1>1. Init => NoLostTrigger
  BY DEF Init, NoLostTrigger
<1>2. TypeOK /\ NoLostTrigger /\ [Next]_vars => NoLostTrigger'
  <2> SUFFICES ASSUME TypeOK, NoLostTrigger, [Next]_vars PROVE NoLostTrigger'
    OBVIOUS
  <2>1. CASE UNCHANGED vars
    BY <2>1, UntouchedTriggers DEF vars, triggers, objects, locals
  <2> QED
    BY <2>1, ReconcileTriggers, WatchesTriggers, ManagerTriggers, UsersTriggers, ClusterTriggers
       DEF Next
<1> QED
  BY <1>1, <1>2, TypeCorrect, PTL DEF Spec

-----------------------------------------------------------------------------
(***************************************************************************)
(* Only placed pods are deleted.  The pods picked from a listing are on a  *)
(* node as the cache knows it; that they are there at the API server rests *)
(* on the cache being late but never wrong about a node (CacheLags), and   *)
(* that the policy selects them on where the worker's locals come from     *)
(* (ChosenDeploys).                                                        *)
(***************************************************************************)
\* A pod that is not scheduled has no node, and a node the cache shows is the
\* one the pod has, for as long as the pod exists.
CacheLags ==
  \A p \in Pods :
    /\ pods[p].phase \in {"unborn", "pending"} => pods[p].node = None
    /\ podCache[p].node # None => pods[p].phase = "gone" \/ pods[p].node = podCache[p].node

Chosen == {spec.spec.selectors[i] : i \in DOMAIN spec.spec.selectors}

\* The deployments that are looked up and looked at are the policy's.
ChosenDeploys ==
  /\ pc = "deploys" => \A i \in DOMAIN selectors : selectors[i] \in Chosen
  /\ pc \in {"deploys", "pods"} => \A i \in DOMAIN deploys : deploys[i].name \in Chosen
  /\ pc \in {"idle", "groups", "nodes"} => deploys = <<>>

\* Steps that leave the pods alone, or only move the cache, keep CacheLags.
LEMMA CacheLagsStep == TypeOK /\ CacheLags /\ [Next]_vars => CacheLags'
<1> SUFFICES ASSUME TypeOK, CacheLags, [Next]_vars PROVE CacheLags'
  OBVIOUS
<1>0. pods \in [Pods -> PodStates] /\ podCache \in [Pods -> PodStates]
  BY DEF TypeOK
<1>1. ASSUME NEW p \in Pods, DeletePod(p) PROVE CacheLags'
  <2>1. podCache' = podCache
    BY <1>1 DEF DeletePod
  <2>2. \A r \in Pods : pods'[r].node = pods[r].node
    BY <1>0, <1>1 DEF DeletePod, PodStates
  <2>3. \A r \in Pods : pods'[r].phase = pods[r].phase
                        \/ (pods[r].phase # "gone" /\ pods'[r].phase = "terminating")
    <3>1. CASE pods[p].phase = "gone"
      BY <1>1, <3>1 DEF DeletePod
    <3>2. CASE pods[p].phase # "gone"
      <4>1. pods' = [pods EXCEPT ![p].phase = "terminating"]
        BY <1>1, <3>2 DEF DeletePod
      <4>2. \A r \in Pods \ {p} : pods'[r] = pods[r]
        BY <1>0, <4>1
      <4>3. pods'[p].phase = "terminating"
        BY <1>0, <4>1 DEF PodStates
      <4> QED
        BY <3>2, <4>2, <4>3
    <3> QED
      BY <3>1, <3>2
  <2> QED
    BY <2>1, <2>2, <2>3 DEF CacheLags
<1>2. ASSUME NEW p \in Pods, Cluster PROVE CacheLags'
  <2> SUFFICES ASSUME NEW r \in Pods,
                      \/ CreatePod(r) \/ \E n \in Nodes : BindPod(r, n)
                      \/ EvictPod(r) \/ RemovePod(r) \/ SyncPod(r)
               PROVE  CacheLags'
    BY <1>2 DEF Cluster
  <2>1. CASE SyncPod(r)
    BY <1>0, <2>1 DEF SyncPod, CacheLags
  <2>2. CASE CreatePod(r)
    BY <1>0, <2>2 DEF CreatePod, SetPod, CacheLags, Unborn
  <2>3. ASSUME NEW n \in Nodes, BindPod(r, n) PROVE CacheLags'
    BY <1>0, <2>3 DEF BindPod, SetPod, CacheLags
  <2>4. CASE EvictPod(r)
    <3>1. pods'[r].node = pods[r].node /\ pods'[r].phase = "terminating" /\ pods[r].phase # "gone"
      BY <1>0, <2>4 DEF EvictPod, SetPod, PodStates
    <3>2. \A t \in Pods \ {r} : pods'[t] = pods[t]
      BY <1>0, <2>4 DEF EvictPod, SetPod
    <3> QED
      BY <2>4, <3>1, <3>2 DEF EvictPod, SetPod, CacheLags
  <2>5. CASE RemovePod(r)
    BY <1>0, <2>5 DEF RemovePod, SetPod, CacheLags, Gone
  <2> QED
    BY <2>1, <2>2, <2>3, <2>4, <2>5
<1>3. CASE UNCHANGED podVars
  BY <1>3 DEF podVars, CacheLags
<1>4. CASE Manager
  BY <1>4 DEF Manager, Restart, CrashOnPolicy, StartUp, CacheLags
<1>5. \/ UNCHANGED podVars \/ Cluster \/ Manager \/ \E p \in Pods : DeletePod(p)
  <2>1. CASE UNCHANGED vars \/ Watches \/ Users
    BY <2>1 DEF vars, podVars, Watches, Resync, MapGroupEvent, MapGroupEventFails, Users,
       WritePolicy, MarkDeleting, RemovePolicy, WriteGroup, RelabelNode, Scale, Edit
  <2>2. CASE Reconcile
    BY <2>2 DEF podVars, Reconcile, Begin, BeginNotFound, ListGroups, NodesListed, ListFails,
       ListNodes, GetDeploy, DeploysFetched, DeployMissing, ListPods, NoPods, ListPodsFails,
       DeletePodFails, Finish
  <2> QED
    BY <2>1, <2>2 DEF Next
<1> QED
  BY <1>1, <1>2, <1>3, <1>4, <1>5 DEF Cluster

\* The worker's locals come from the policy it fetched.
LEMMA ChosenDeploysStep == TypeOK /\ ChosenDeploys /\ [Next]_vars => ChosenDeploys'
<1> SUFFICES ASSUME TypeOK, ChosenDeploys, [Next]_vars PROVE ChosenDeploys'
  OBVIOUS
<1>1. CASE UNCHANGED <<pc, spec, selectors, deploys>>
  BY <1>1 DEF ChosenDeploys, Chosen
<1>2. ASSUME NEW pol \in Policies, Begin(pol) PROVE ChosenDeploys'
  BY <1>2 DEF Begin, ChosenDeploys
<1>3. CASE ListGroups
  BY <1>3 DEF ListGroups, ChosenDeploys
<1>4. CASE NodesListed
  BY <1>4 DEF NodesListed, ChosenDeploys, Chosen
<1>5. CASE Return
  BY <1>5 DEF Return, ChosenDeploys
<1>6. CASE GetDeploy
  <2> DEFINE D == [name : Deploys, size : Sizes]
  <2>1. selectors \in Seq(Deploys) /\ selectors # <<>> /\ deploys \in Seq(D)
    BY <1>6 DEF TypeOK, GetDeploy
  <2>2. Head(selectors) = selectors[1] /\ 1 \in DOMAIN selectors
    BY <2>1
  <2>3. \A i \in DOMAIN Tail(selectors) : i + 1 \in DOMAIN selectors
                                          /\ Tail(selectors)[i] = selectors[i + 1]
    BY <2>1
  <2>4. \/ deploys' = deploys
        \/ deploys' = Append(deploys, [name |-> Head(selectors), size |-> replicas[Head(selectors)]])
    BY <1>6 DEF GetDeploy
  <2>5. \A i \in DOMAIN deploys' : \/ i \in DOMAIN deploys /\ deploys'[i] = deploys[i]
                                   \/ deploys'[i].name = Head(selectors)
    <3> DEFINE last == [name |-> Head(selectors), size |-> replicas[Head(selectors)]]
    <3>1. last.name = Head(selectors)
      OBVIOUS
    <3>2. deploys' = deploys \/ deploys' = Append(deploys, last)
      BY <2>4
    <3> HIDE DEF D, last
    <3>3. \A i \in DOMAIN deploys' : \/ i \in DOMAIN deploys /\ deploys'[i] = deploys[i]
                                     \/ deploys'[i] = last
      BY <2>1, <3>2
    <3> QED
      BY <3>1, <3>3
  <2>6. spec' = spec /\ pc = "deploys" /\ pc' = "deploys" /\ selectors' = Tail(selectors)
    BY <1>6 DEF GetDeploy
  <2> QED
    BY <2>2, <2>3, <2>5, <2>6 DEF ChosenDeploys, Chosen
<1>7. CASE DeploysFetched
  BY <1>7 DEF DeploysFetched, locals, ChosenDeploys, Chosen
<1>8. CASE ListPods \/ NoPods \/ ListPodsFails
  <2> DEFINE D == [name : Deploys, size : Sizes]
  <2>1. deploys \in Seq(D) /\ deploys # <<>> /\ pc = "pods" /\ pc' = pc
        /\ deploys' = Tail(deploys) /\ spec' = spec
    BY <1>8 DEF TypeOK, ListPods, NoPods, ListPodsFails
  <2>2. \A i \in DOMAIN deploys' : i + 1 \in DOMAIN deploys /\ deploys'[i] = deploys[i + 1]
    <3> HIDE DEF D
    <3> QED
      BY <2>1
  <2> QED
    BY <2>1, <2>2 DEF ChosenDeploys, Chosen
<1>9. \/ UNCHANGED <<pc, spec, selectors, deploys>>
      \/ \E pol \in Policies : Begin(pol)
      \/ ListGroups \/ NodesListed \/ Return \/ GetDeploy \/ DeploysFetched
      \/ ListPods \/ NoPods \/ ListPodsFails
  <2>1. CASE UNCHANGED vars \/ Watches \/ Users \/ Cluster
    BY <2>1 DEF vars, locals, Watches, Resync, MapGroupEvent, MapGroupEventFails, Users,
       WritePolicy, MarkDeleting, RemovePolicy, WriteGroup, RelabelNode, Scale, Edit,
       Cluster, CreatePod, BindPod, EvictPod, RemovePod, SyncPod, SetPod
  <2>2. CASE Reconcile
    BY <2>2 DEF Reconcile, BeginNotFound, ListFails, ListNodes, DeployMissing,
       DeletePod, DeletePodFails, Finish, locals
  <2>3. CASE Manager
    BY <2>3 DEF Manager, Restart, CrashOnPolicy, StartUp
  <2> QED
    BY <2>1, <2>2, <2>3 DEF Next
<1> QED
  BY <1>1, <1>2, <1>3, <1>4, <1>5, <1>6, <1>7, <1>8, <1>9

\* What OnlyPlacedPods says of one pod.
Placed(p) ==
  /\ \E i \in DOMAIN spec.spec.selectors : p \in Selected[spec.spec.selectors[i]]
  /\ pods[p].phase # "gone" => pods[p].node \in DOMAIN nodesIn

\* The pods a listing dooms are placed.
LEMMA ListedPodsArePlaced ==
  TypeOK /\ CacheLags /\ ChosenDeploys /\ ListPods => OnlyPlacedPods'
<1> SUFFICES ASSUME TypeOK, CacheLags, ChosenDeploys, ListPods, NEW p \in doomed'
             PROVE  Placed(p)'
  BY DEF OnlyPlacedPods, Placed
<1> DEFINE nodeOf == [r \in Pods |-> podCache[r].node]
           dep    == Head(deploys).name
<1>1. PICK listing \in SetToSeqs(PodsOf(dep)),
           want \in DesiredPodsNum(spec.spec.weights, Head(deploys).size) :
        doomed' = PodsNeedToDelete(listing, nodeOf, want, nodesIn)
  BY DEF ListPods
<1>2. PICK i \in DOMAIN listing : p = listing[i] /\ nodeOf[p] \in DOMAIN nodesIn
  BY <1>1, DoomedArePlaced
<1>3. p \in PodsOf(dep)
  BY <1>1, <1>2 DEF SetToSeqs
<1>4. p \in Selected[dep] /\ dep \in Deploys /\ p \in Pods
  BY <1>3, HeadOfDeploys, SelectedIsPods DEF PodsOf, ListPods
<1>5. dep \in Chosen
  <2> DEFINE D == [name : Deploys, size : Sizes]
  <2>1. deploys \in Seq(D) /\ deploys # <<>>
    BY DEF TypeOK, ListPods
  <2>2. 1 \in DOMAIN deploys /\ Head(deploys) = deploys[1]
    <3> HIDE DEF D
    <3> QED
      BY <2>1
  <2> QED
    BY <2>2 DEF ChosenDeploys, ListPods
<1>6. podCache[p].node \in DOMAIN nodesIn /\ podCache[p].node # None
  BY <1>2, <1>4, NoneIsNothing DEF TypeOK, IsMap
<1>7. pods[p].phase = "gone" \/ pods[p].node \in DOMAIN nodesIn
  BY <1>4, <1>6 DEF CacheLags
<1>8. UNCHANGED <<spec, pods, nodesIn>>
  BY DEF ListPods, podVars
<1> QED
  BY <1>4, <1>5, <1>7, <1>8 DEF Placed, Chosen

\* Doomed pods stay placed while the rest of the cluster goes on.
LEMMA OnlyPlacedPodsStep ==
  TypeOK /\ CacheLags /\ ChosenDeploys /\ OnlyPlacedPods /\ [Next]_vars => OnlyPlacedPods'
<1> SUFFICES ASSUME TypeOK, CacheLags, ChosenDeploys, OnlyPlacedPods, [Next]_vars
             PROVE  OnlyPlacedPods'
  OBVIOUS
<1>0. pods \in [Pods -> PodStates] /\ doomed \subseteq Pods
      /\ \A p \in doomed : Placed(p)
  BY DEF TypeOK, OnlyPlacedPods, Placed
<1>1. CASE doomed' = {}
  BY <1>1 DEF OnlyPlacedPods
<1>2. CASE ListPods
  BY <1>2, ListedPodsArePlaced
<1>3. CASE doomed' \subseteq doomed /\ UNCHANGED <<spec, pods, nodesIn>>
  BY <1>3 DEF OnlyPlacedPods
<1>4. ASSUME NEW r \in Pods, DeletePod(r) PROVE OnlyPlacedPods'
  <2>1. \A p \in Pods : pods'[p].node = pods[p].node
                        /\ (pods'[p].phase # "gone" => pods[p].phase # "gone")
    BY <1>0, <1>4 DEF DeletePod, PodStates
  <2>2. doomed' \subseteq doomed /\ UNCHANGED <<spec, nodesIn>>
    BY <1>4 DEF DeletePod
  <2> QED
    BY <1>0, <2>1, <2>2 DEF OnlyPlacedPods, Placed
<1>5. CASE Cluster
  <2>1. UNCHANGED <<spec, nodesIn, doomed>>
    BY <1>5 DEF Cluster, CreatePod, BindPod, EvictPod, RemovePod, SyncPod, SetPod, locals
  <2> SUFFICES ASSUME NEW p \in doomed, pods'[p].phase # "gone"
               PROVE  pods'[p].node \in DOMAIN nodesIn
    BY <1>0, <2>1 DEF OnlyPlacedPods, Placed
  <2>2. pods[p].phase # "gone" => pods[p].node \in DOMAIN nodesIn /\ pods[p].node # None
    BY <1>0, NoneIsNothing DEF Placed, TypeOK, IsMap
  <2>3. pods[p].phase \notin {"unborn", "pending"}
    BY <1>0, <2>2 DEF CacheLags
  <2>4. pods'[p] = pods[p] \/ (pods[p].phase # "gone" /\ pods'[p].node = pods[p].node)
    <3>1. ASSUME NEW r \in Pods, EvictPod(r) PROVE <2>4!2 \/ <2>4!1
      BY <1>0, <3>1 DEF EvictPod, SetPod, PodStates
    <3>2. ASSUME NEW r \in Pods, \/ CreatePod(r) \/ \E n \in Nodes : BindPod(r, n)
                                 \/ RemovePod(r) \/ SyncPod(r)
          PROVE  pods'[p] = pods[p]
      BY <1>0, <2>3, <3>2 DEF CreatePod, BindPod, RemovePod, SyncPod, SetPod, Unborn, Gone
    <3> QED
      BY <1>5, <3>1, <3>2 DEF Cluster
  <2> QED
    BY <2>2, <2>4
<1>6. \/ doomed' = {} \/ ListPods \/ Cluster \/ \E r \in Pods : DeletePod(r)
      \/ (doomed' \subseteq doomed /\ UNCHANGED <<spec, pods, nodesIn>>)
  <2>1. CASE UNCHANGED vars \/ Watches \/ Users
    BY <2>1 DEF vars, locals, podVars, Watches, Resync, MapGroupEvent, MapGroupEventFails, Users,
       WritePolicy, MarkDeleting, RemovePolicy, WriteGroup, RelabelNode, Scale, Edit
  <2>2. CASE Reconcile
    <3>1. CASE \/ \E pol \in Policies : Begin(pol)
               \/ \E g \in Groups : ListNodes(g)
      BY <3>1 DEF Begin, ListNodes, TypeOK
    <3>2. CASE ListFails \/ DeployMissing \/ Finish
      BY <3>2 DEF ListFails, DeployMissing, Finish, Return
    <3>3. CASE \/ \E pol \in Policies : BeginNotFound(pol)
               \/ ListGroups \/ NodesListed \/ GetDeploy \/ DeploysFetched
      BY <3>3 DEF BeginNotFound, ListGroups, NodesListed, GetDeploy, DeploysFetched, locals, podVars
    <3>4. CASE NoPods \/ ListPodsFails \/ \E p \in Pods : DeletePodFails(p)
      BY <3>4 DEF NoPods, ListPodsFails, DeletePodFails, podVars
    <3> QED
      BY <2>2, <3>1, <3>2, <3>3, <3>4 DEF Reconcile
  <2>3. CASE Manager
    BY <2>3 DEF Manager, Restart, CrashOnPolicy, StartUp, Return
  <2> QED
    BY <2>1, <2>2, <2>3 DEF Next
<1> QED
  BY <1>1, <1>2, <1>3, <1>4, <1>5, <1>6

\* The controller is never about to delete a pod that its policy does not
\* select or that has not been put on a node of some group.
THEOREM OnlyPlacedPodsAreDeleted == Spec => []OnlyPlacedPods
<1>1. Init => CacheLags /\ ChosenDeploys /\ OnlyPlacedPods
  <2> SUFFICES ASSUME Init PROVE CacheLags /\ ChosenDeploys /\ OnlyPlacedPods
    OBVIOUS
  <2>1. CacheLags
    BY DEF Init, CacheLags, Unborn
  <2>2. ChosenDeploys /\ OnlyPlacedPods
    BY DEF Init, ChosenDeploys, OnlyPlacedPods
  <2> QED
    BY <2>1, <2>2
<1> QED
  BY <1>1, TypeCorrect, CacheLagsStep, ChosenDeploysStep, OnlyPlacedPodsStep, PTL DEF Spec

-----------------------------------------------------------------------------
(***************************************************************************)
(* Groups are trimmed.  What makes Trimmed inductive is that the pods of a *)
(* listing that are counted were all scheduled when they were listed       *)
(* (CountedAreScheduled): none of them can be bound to a node later, so    *)
(* what runs of them in a group only shrinks, whatever the cluster does.   *)
(***************************************************************************)
CountedAreScheduled ==
  /\ \A p \in counted : pods[p].phase \notin {"unborn", "pending"}
  /\ pc # "pods" => counted = {}
  /\ desired \in Maps(Groups)

\* What runs in g of the pods that were listed and are not to be deleted.
Left(g) == RunningIn(counted \ doomed, g, NodeOf)

\* When no more of them run, the groups stay trimmed.
LEMMA FewerStayTrimmed ==
  ASSUME TypeOK, CountedAreScheduled, Trimmed, pc = "pods",
         desired' = desired, key' = key, dropped \subseteq dropped',
         \A g \in Groups : Left(g)' \subseteq Left(g)
  PROVE  Trimmed'
<1> SUFFICES ASSUME key \notin dropped, NEW g \in Groups, Cardinality(Left(g)') > 0
             PROVE  Cardinality(Left(g)') <= Lookup(desired, g)
  BY DEF Trimmed, Left
<1>1. Left(g) \in SUBSET Pods
  BY DEF Left, RunningIn, TypeOK
<1>2. IsFiniteSet(Left(g)) /\ Cardinality(Left(g)) \in Nat
  BY <1>1, PodsAreFinite, FS_Subset, FS_CardinalityType
<1>3. Cardinality(Left(g)') <= Cardinality(Left(g)) /\ Cardinality(Left(g)') \in Nat
  BY <1>2, FS_Subset, FS_CardinalityType
<1>4. Cardinality(Left(g)) <= Lookup(desired, g)
  BY <1>2, <1>3 DEF Trimmed, Left
<1>5. Lookup(desired, g) \in Int
  BY LookupIsInt DEF CountedAreScheduled
<1> QED
  BY <1>2, <1>3, <1>4, <1>5

\* After a listing has been cut, no group runs more of it than desired.
LEMMA ListPodsTrims ==
  ASSUME TypeOK, CacheLags, ListPods
  PROVE  Trimmed' /\ CountedAreScheduled'
<1> DEFINE dep    == Head(deploys).name
           nodeOf == [p \in Pods |-> podCache[p].node]
           ws     == spec.spec.weights
<1>1. PICK listing \in SetToSeqs(PodsOf(dep)),
           want \in DesiredPodsNum(ws, Head(deploys).size) :
        /\ desired' = want
        /\ doomed' = PodsNeedToDelete(listing, nodeOf, want, nodesIn)
        /\ counted' = {p \in PodsOf(dep) : nodeOf[p] # None}
  BY DEF ListPods
<1>2. PodsOf(dep) \in SUBSET Pods /\ IsFiniteSet(PodsOf(dep))
  <2>1. dep \in Deploys
    BY HeadOfDeploys DEF ListPods
  <2> HIDE DEF dep
  <2> QED
    BY <2>1, SelectedIsPods, PodsAreFinite, FS_Subset DEF PodsOf
<1>3. want \in Maps(Groups)
  <2>1. key # None /\ spec \in [spec : Specs, deleting : BOOLEAN]
    BY NoneIsNothing DEF TypeOK, ListPods, Objects
  <2>2. ws \in Seq(Entries(Groups)) /\ ~Panics(ws)
    BY <2>1, SpecsNameThings DEF Entries, ListPods
  <2>3. Head(deploys).size \in Nat
    BY HeadOfDeploys, SizesAreNat DEF ListPods
  <2> HIDE DEF ws
  <2> QED
    BY <1>1, <2>2, <2>3, DesiredIsMap
<1>4. UNCHANGED <<pods, podCache, nodesIn, pc>> /\ pc = "pods"
  BY DEF ListPods, podVars
<1>5. \A p \in counted' : p \in Pods /\ podCache[p].node # None
  BY <1>1, <1>2
<1>6. \A p \in counted' : pods[p].phase \notin {"unborn", "pending"}
  BY <1>5 DEF CacheLags
<1>7. CountedAreScheduled'
  BY <1>1, <1>3, <1>4, <1>6 DEF CountedAreScheduled
<1>8. ASSUME NEW g \in Groups, Cardinality(Left(g)') > 0
      PROVE  Cardinality(Left(g)') <= Lookup(want, g)
  <2> DEFINE here == {p \in PodsOf(dep) : RunsIn(p, g, nodeOf, nodesIn)}
             kept == here \ doomed'
  <2>1. Lookup(want, g) \in Int
    BY <1>3, LookupIsInt
  <2>2. Cardinality(kept) = LeastOf(Cardinality(here), Floor0(Lookup(want, g)))
    <3> HIDE DEF dep, nodeOf, ws
    <3> QED
      BY <1>1, <1>2, <2>1, ListingIsCutToTheGoal
  <2>3. IsFiniteSet(here) /\ IsFiniteSet(kept)
        /\ Cardinality(here) \in Nat /\ Cardinality(kept) \in Nat
    <3>1. here \in SUBSET PodsOf(dep) /\ kept \in SUBSET PodsOf(dep)
      OBVIOUS
    <3> HIDE DEF here, kept, dep, nodeOf
    <3> QED
      BY <1>2, <3>1, FS_Subset, FS_CardinalityType
  <2>4. Left(g)' \subseteq kept
    <3> SUFFICES ASSUME NEW p \in counted', p \notin doomed', pods[p].phase = "bound",
                        RunsIn(p, g, NodeOf, nodesIn)
                 PROVE  p \in kept
      BY <1>4 DEF Left, RunningIn, NodeOf
    <3>1. p \in PodsOf(dep) /\ p \in Pods /\ podCache[p].node # None
      BY <1>1, <1>5
    <3>2. NodeOf[p] = nodeOf[p]
      BY <3>1 DEF CacheLags, NodeOf
    <3>3. RunsIn(p, g, nodeOf, nodesIn)
      BY <3>2 DEF RunsIn
    <3> QED
      BY <3>1, <3>3
  <2> HIDE DEF here, kept
  <2>5. Cardinality(Left(g)') <= Cardinality(kept) /\ Cardinality(Left(g)') \in Nat
    BY <2>3, <2>4, FS_Subset, FS_CardinalityType
  <2> QED
    BY <1>8, <2>1, <2>2, <2>3, <2>5 DEF LeastOf, Floor0
<1>9. Trimmed'
  BY <1>1, <1>8 DEF Trimmed, Left
<1> QED
  BY <1>7, <1>9


\* Every other step of the worker keeps the groups trimmed: one that is about
\* the doomed pods stops a pod, finds it gone, or swallows an error.
LEMMA ReconcileTrims ==
  ASSUME TypeOK, CacheLags, CountedAreScheduled, Trimmed, Reconcile
  PROVE  Trimmed' /\ CountedAreScheduled'
<1>0. NoMap \in Maps(Groups)
  BY NoMapIsMap, MapsAreMaps
<1>1. CASE Return
  BY <1>0, <1>1 DEF Return, Trimmed, CountedAreScheduled
<1>2. CASE \/ \E pol \in Policies : Begin(pol) \/ BeginNotFound(pol)
           \/ ListGroups \/ NodesListed \/ GetDeploy
           \/ \E g \in Groups : ListNodes(g)
  <2>1. pc' # "pods" /\ pc # "pods" /\ UNCHANGED <<counted, desired, pods>>
    BY <1>2 DEF Begin, BeginNotFound, ListGroups, NodesListed, GetDeploy, ListNodes, locals, podVars
  <2> QED
    BY <2>1 DEF Trimmed, CountedAreScheduled
<1>3. CASE DeploysFetched
  <2>1. pc # "pods" /\ UNCHANGED <<counted, doomed, desired, pods, nodesIn>> /\ counted = {}
    BY <1>3 DEF DeploysFetched, locals, podVars, CountedAreScheduled
  <2>2. \A g \in Groups : Left(g)' = {}
    BY <2>1 DEF Left, RunningIn
  <2> QED
    BY <2>1, <2>2, FS_EmptySet DEF Trimmed, Left, CountedAreScheduled
<1>4. CASE ListPods
  BY <1>4, ListPodsTrims
<1>5. CASE NoPods \/ ListPodsFails
  <2>1. counted' = {} /\ desired' = NoMap
    BY <1>5 DEF NoPods, ListPodsFails
  <2>2. \A g \in Groups : Left(g)' = {}
    BY <2>1 DEF Left, RunningIn
  <2> QED
    <3>1. \A g \in Groups : ~(Cardinality(Left(g)') > 0)
      BY <2>2, FS_EmptySet
    <3>2. Trimmed'
      BY <3>1 DEF Trimmed, Left
    <3>3. CountedAreScheduled'
      BY <1>0, <2>1 DEF CountedAreScheduled
    <3> QED
      BY <3>2, <3>3
<1>6. ASSUME NEW p \in Pods, DeletePodFails(p) PROVE Trimmed' /\ CountedAreScheduled'
  <2>1. key' \in dropped' /\ UNCHANGED <<pc, counted, desired, pods>>
    BY <1>6 DEF DeletePodFails, podVars
  <2> QED
    BY <2>1 DEF Trimmed, CountedAreScheduled
<1>7. ASSUME NEW p \in Pods, DeletePod(p) PROVE Trimmed' /\ CountedAreScheduled'
  <2>1. /\ UNCHANGED <<pc, key, counted, desired, dropped, nodesIn>> /\ doomed' = doomed \ {p}
        /\ pc = "pods"
    BY <1>7 DEF DeletePod, TypeOK
  <2>2. /\ \A r \in Pods : pods'[r].node = pods[r].node
        /\ \A r \in Pods : pods'[r].phase \in {pods[r].phase, "terminating"}
        /\ pods'[p].phase # "bound"
    <3>1. CASE pods[p].phase = "gone"
      BY <1>7, <3>1 DEF DeletePod
    <3>2. CASE pods[p].phase # "gone"
      <4>1. pods' = [pods EXCEPT ![p].phase = "terminating"] /\ pods \in [Pods -> PodStates]
        BY <1>7, <3>2 DEF DeletePod, TypeOK
      <4>2. \A r \in Pods \ {p} : pods'[r] = pods[r]
        BY <4>1
      <4>3. pods'[p].phase = "terminating" /\ pods'[p].node = pods[p].node
        BY <4>1 DEF PodStates
      <4> QED
        BY <4>2, <4>3
    <3> QED
      BY <3>1, <3>2
  <2>3. \A g \in Groups : Left(g)' \subseteq Left(g)
    <3> SUFFICES ASSUME NEW g \in Groups, NEW r \in Left(g)' PROVE r \in Left(g)
      OBVIOUS
    <3>1. r \in counted /\ r \in Pods /\ r \notin doomed \ {p} /\ pods'[r].phase = "bound"
          /\ RunsIn(r, g, NodeOf', nodesIn)
      BY <2>1 DEF Left, RunningIn, TypeOK
    <3>2. r # p /\ pods[r].phase = "bound"
      BY <2>2, <3>1
    <3>3. NodeOf'[r] = NodeOf[r]
      BY <2>2, <3>1 DEF NodeOf
    <3> QED
      BY <3>1, <3>2, <3>3 DEF Left, RunningIn, RunsIn
  <2>4. CountedAreScheduled'
    BY <2>1, <2>2 DEF CountedAreScheduled, TypeOK
  <2> QED
    BY <2>1, <2>3, <2>4, FewerStayTrimmed
<1> QED
  BY <1>1, <1>2, <1>3, <1>4, <1>5, <1>6, <1>7 DEF Reconcile, ListFails, DeployMissing, Finish

\* The cluster binds none of the counted pods, and revives none.
LEMMA ClusterTrims ==
  ASSUME TypeOK, CountedAreScheduled, Trimmed, Cluster
  PROVE  Trimmed' /\ CountedAreScheduled'
<1>1. UNCHANGED <<pc, key, counted, doomed, desired, dropped, nodesIn>>
  BY DEF Cluster, CreatePod, BindPod, EvictPod, RemovePod, SyncPod, SetPod, locals
<1>2. \A r \in counted : /\ pods'[r].phase \in {pods[r].phase, "terminating", "gone"}
                         /\ pods'[r].phase = "bound" => pods'[r].node = pods[r].node
  <2> SUFFICES ASSUME NEW r \in counted
               PROVE  /\ pods'[r].phase \in {pods[r].phase, "terminating", "gone"}
                      /\ pods'[r].phase = "bound" => pods'[r].node = pods[r].node
    OBVIOUS
  <2>1. r \in Pods /\ pods[r].phase \notin {"unborn", "pending"} /\ pods \in [Pods -> PodStates]
    BY DEF TypeOK, CountedAreScheduled
  <2>2. ASSUME NEW p \in Pods, EvictPod(p) PROVE pods'[r] = pods[r] \/ pods'[r].phase = "terminating"
    BY <2>1, <2>2 DEF EvictPod, SetPod, PodStates
  <2>3. ASSUME NEW p \in Pods, CreatePod(p) \/ SyncPod(p) PROVE pods'[r] = pods[r]
    BY <2>1, <2>3 DEF CreatePod, SyncPod, SetPod, Unborn
  <2>6. ASSUME NEW p \in Pods, NEW n \in Nodes, BindPod(p, n) PROVE pods'[r] = pods[r]
    BY <2>1, <2>6 DEF BindPod, SetPod
  <2>4. ASSUME NEW p \in Pods, RemovePod(p) PROVE pods'[r] = pods[r] \/ pods'[r].phase = "gone"
    BY <2>1, <2>4 DEF RemovePod, SetPod, Gone
  <2>5. pods'[r] = pods[r] \/ pods'[r].phase = "terminating" \/ pods'[r].phase = "gone"
    BY <2>2, <2>3, <2>4, <2>6, Zenon DEF Cluster
  <2> QED
    BY <2>5
<1>3. CountedAreScheduled'
  BY <1>1, <1>2 DEF CountedAreScheduled
<1>4. CASE pc # "pods"
  BY <1>1, <1>3, <1>4 DEF Trimmed
<1>5. CASE pc = "pods"
  <2>1. \A g \in Groups : Left(g)' \subseteq Left(g)
    <3> SUFFICES ASSUME NEW g \in Groups, NEW r \in Left(g)' PROVE r \in Left(g)
      OBVIOUS
    <3>1. r \in counted /\ r \in Pods /\ r \notin doomed /\ pods'[r].phase = "bound"
          /\ RunsIn(r, g, NodeOf', nodesIn)
      BY <1>1 DEF Left, RunningIn, TypeOK
    <3>2. pods[r].phase = "bound" /\ NodeOf'[r] = NodeOf[r]
      BY <1>2, <3>1 DEF NodeOf
    <3> QED
      BY <3>1, <3>2 DEF Left, RunningIn, RunsIn
  <2> QED
    BY <1>1, <1>3, <1>5, <2>1, FewerStayTrimmed
<1> QED
  BY <1>4, <1>5

\* Whatever a pass lists and however late its caches are, when it has dealt with
\* the pods it picked no group runs more of the listed pods than is desired.
THEOREM GroupsAreTrimmed == Spec => []Trimmed
<1>1. Init => Trimmed /\ CountedAreScheduled
  BY NoMapIsMap, MapsAreMaps DEF Init, Trimmed, CountedAreScheduled
<1>2. TypeOK /\ CacheLags /\ Trimmed /\ CountedAreScheduled /\ [Next]_vars
        => Trimmed' /\ CountedAreScheduled'
  <2> SUFFICES ASSUME TypeOK, CacheLags, Trimmed, CountedAreScheduled, [Next]_vars
               PROVE  Trimmed' /\ CountedAreScheduled'
    OBVIOUS
  <2>1. CASE Reconcile
    BY <2>1, ReconcileTrims
  <2>2. CASE Cluster
    BY <2>2, ClusterTrims
  <2>3. CASE Manager
    <3>1. NoMap \in Maps(Groups)
      BY NoMapIsMap, MapsAreMaps
    <3> QED
      BY <2>3, <3>1 DEF Manager, Restart, CrashOnPolicy, StartUp, Return, Trimmed, CountedAreScheduled
  <2>4. CASE Watches \/ Users \/ UNCHANGED vars
    <3>1. UNCHANGED <<pc, key, counted, doomed, desired, pods, nodesIn>> /\ dropped \subseteq dropped'
      BY <2>4 DEF vars, locals, podVars, Watches, Resync, MapGroupEvent, MapGroupEventFails, Users,
         WritePolicy, MarkDeleting, RemovePolicy, WriteGroup, RelabelNode, Scale, Edit
    <3> QED
      BY <3>1 DEF Trimmed, RunningIn, NodeOf, CountedAreScheduled
  <2> QED
    BY <2>1, <2>2, <2>3, <2>4 DEF Next
<1>3. Init => CacheLags
  BY DEF Init, CacheLags, Unborn
<1> QED
  BY <1>1, <1>2, <1>3, TypeCorrect, CacheLagsStep, PTL DEF Spec

=============================================================================
