# A TLA+ model of nodes-grouping

nodes-grouping spreads the pods of Kubernetes Deployments over groups of nodes.
Users write two kinds of objects: a **NodeGroup** selects nodes by labels, a
**PropagationPolicy** names deployments and gives weights to NodeGroups. Two
controllers and a scheduler extender act on them. This directory models the
three, checks the models with TLC on small instances and proves part of what is
checked, for all instances, with TLAPS.

## 1. Inventory

| component | source | state | operations |
|---|---|---|---|
| placement arithmetic | `pkg/utils/utils.go`, `getPodsNeedToDelete` | none | desired pods per group, nodes per group, current pods per group, pods to delete |
| PropagationPolicy controller | `pkg/controllers/policy` | work queue, locals of `Reconcile` | `Reconcile`, `newNodeGroupMapFunc` |
| NodeGroup controller | `pkg/controllers/group` | work queue, locals of `Reconcile` | `syncNodeGroup`, `removeNodeGroup` |
| scheduler extender | `pkg/schedulerextender` | locals of a request | `Filter` (two plugins), `Prioritize` (one plugin) |
| API types | `pkg/apis` | the objects at the API server | |
| controller manager | `cmd/controller-manager` | | starts both controllers, ends with a panic or a lost lease |
| extender command | `cmd/extender` | | wiring |
| OverridePolicy, extender cache, generated code | `pkg/apis`, `cache/cache.go` | | none |

How they interact. Nothing calls anything else directly: all communication is
through objects at the API server. The controllers read from informer caches
that lag, the extender from the API server itself. The NodeGroup controller
writes the status of a NodeGroup, and every write of a NodeGroup is an event
that makes the policy controller reconcile the policies that name it. The
extender decides where a new pod may go; the policy controller deletes the pods
that are too many where they are; the deployment controller replaces what was
deleted, and the replacement goes through the extender again. Both use the same
arithmetic, which draws the receiver of the left-over replicas anew in each
call.

What is hard about it. A pass of a controller and a request to the extender make
many reads with anything happening in between. Several errors are dropped.
Nothing watches nodes, pods or deployments. The scheduler binds pods in the
background, so what it has decided is invisible for a while. Status updates
race with edits. Processes end and start again, with nothing kept but the
objects. `PROJECT.json` lists these hazards one by one, each with its
line and the properties that are about it.

What makes each part correct:

* arithmetic: no replica lost or promised twice, each group near its share, the
  cut leaves exactly what is desired;
* policy controller: no change goes unnoticed, only pods it may touch are
  deleted, groups do not stay crowded;
* NodeGroup controller: a status is never written for another spec or replaced
  by an older one, becomes accurate, and no group is removed that should stay;
* extender: the answer is that of one consistent read, groups overshoot only by
  what the scheduler hides, no pod waits for ever;
* together: what the extender admits the controller does not delete for ever.

## 2. Modules

| module | what it is |
|---|---|
| `Placement` | the pure functions, as operators |
| `PolicyController` | the PropagationPolicy controller in its environment; extends `Placement` |
| `NodeGroupController` | the NodeGroup controller in its environment |
| `NodeGroupStatus` | the abstract specification: what the status of a NodeGroup promises |
| `SchedulerExtender` | the extender and the scheduler that asks it; extends `Placement` |
| `Propagation` | extender, policy controller and deployment controller together, coarser; extends `Placement` |
| `MCPlacement` | every small input of `Placement`, as a state machine of three calls, with reference definitions |
| `MCPolicyController`, `MCNodeGroupController`, `MCSchedulerExtender`, `MCPropagation` | instances for TLC |
| `FoldTheorems` | what folds and sums do, and induction on numbers and finite sets, for the proofs |
| `PlacementProofs`, `MCPlacementProofs` | theorems about the operators of `Placement`, and about the calls of `MCPlacement` |
| `PolicyControllerProofs`, `NodeGroupControllerProofs`, `PropagationProofs` | theorems about the module of that name |
| `SchedulerExtenderProofs`, `FilterProofs` | type correctness of `SchedulerExtender`; what Filter answers |

The `map` of `PROJECT.json` gives the lines each definition stands for. Some
definitions carry a plausible bug (`ShareTruncated`, `DeletePodStops`, ...): no
specification uses them; each shows that a property notices it.

### Placement

A Go map is a function on its keys; a missing key reads as 0 (`Lookup`). Where
the code ranges over a map, an operator returns the set of possible results:
`DesiredPodsNum` is a set of maps, one for each key that may take the left-over.
`Share` is the exact rational share rounded half up; the code computes it in
`float64`, which agrees except where the share lies within a rounding error of
an exact half. Counts are unbounded integers: `int32` does not overflow for
numbers of replicas Kubernetes accepts. Weights are at least 1, as the CRD
demands. The list of names of an entry is required but may be empty; the call
then panics (`Panics`), which is up to its callers.

### PolicyController

`Reconcile` is cut at every call of the client: `Begin` (Get the policy),
`ListGroups`, one `ListNodes` per group in the order of the list, one
`GetDeploy` per selector, then per deployment `ListPods` (list, desired numbers
and cut, all local after the list) and one `DeletePod` per picked pod. Each call
that can fail has an action for the failure that does what the code does with
it: `ListFails` drops the request, `DeployMissing` requeues it,
`ListPodsFails` goes on with the next deployment, `DeletePodFails` ignores the
error, while a NotFound in `DeletePod` requeues. A policy whose Get fails with
another error stays in the queue, which is no step of the model.

The queue is a set: controller-runtime merges equal requests and puts one that
arrives during its own pass back afterwards. Policy events are put into it as
they happen; NodeGroup events wait in `groupEvents` until `MapGroupEvent` has
run. For objects that only users change, the variable is what the cache holds.
Pods have both a state at the API server (`pods`) and a cached one (`podCache`)
that `SyncPod` brings up to date pod by pod.

A deployment may be missing from the start, as a policy may be written before
what it names. Names of pods are not reused: a pod that is gone stays gone, as names generated
by a ReplicaSet do. `Selected` fixes which pods carry the labels of which
deployment.

The manager may end between any two steps (`Restart`). `StartUp` is what a new
process begins with: nothing in hand, caches as the API server is, and an event
for every policy and group. A pass over a policy with an entry without names
panics (`CrashOnPolicy`); controller-runtime recovers nothing, the process ends
and meets the policy again. Because both controllers share the process, such a
policy keeps all others from being served, which is why `Converges` is about
clusters that get rid of it (`NonePanics`).

`seen` and `dropped` are history: what the last pass of a policy has read, and
which policies an error that the code swallows has cut short.

### NodeGroupController

`Get`, then either `ListSame`/`ListDiffers` and `Update`/`RefuseUpdate`, or
`Remove`. Instead of resource versions, `undelivered` holds the groups with a
write the informer has not seen and `copyStale` tells whether the worker's copy
is outdated: the API server refuses an update from an outdated copy
(`RefuseUpdate`), and the code looks at no error of it. `UpdateFails` is any
other error. A list from the cache comes in any order, and the comparison with
the status is one of slices, so a set of nodes in another order is written
again. `Remove` is a Delete by name without precondition: it deletes a group
that was created anew under the same name; `LiveGroupsAreKept` says that this is
the only way a live group is lost. `Restart` gives up the copy and lists all
groups anew.

`NodeGroupStatus` says the same to a reader who sees only the groups: a status
is a snapshot of the nodes at one moment, made with the matchLabels the group has
when it is published, and looks are published in order and at most once. The
mapping (`Status` in `NodeGroupController`) hides cache, queue and worker: the
object shown is the group's matchLabels and the set of nodes in its status, the
look is the set the worker is about to write. A conflict maps to a look that is
forgotten; a retry of the update with a stale list would be none of the
abstract steps.

### SchedulerExtender

`pass` is the request being served: the program counter and the locals of the
handler. `GetRelativeDeployAndPolicy` is `ListPolicies`, `MatchDeploy`,
`MatchFails`, `PolicyMatches`, `PolicyDoesNotMatch` and `NoPolicy`;
`GetRelativeDeployment` is `GetDeploy`, `DeployFound`, `DeployNotFetched` and
`PluginPanics` (the nil dereference, and an entry without names); `GetNodeGroupsWithName` and
`GetNodesInGroups`, run by both filter plugins and the prioritizer, are
`GetGroup`, `GroupsFetched` and `ListNodes`; the plugins themselves are
`EnoughPods`, `NotInNodeGroups` and `DiffBased`. `PluginDone` is the loop over
the plugins, which goes on after an error, and `Answer` the HTTP handler, which
throws the result away when there was one. `ReadFails` lets any of the reads
fail, `ServerDies` ends the process in the middle of a request.

A panic in a handler closes the connection (`Aborted`). `DiffBased` always ends
so, because of the type assertion on the result of `sort.Reverse`, and every
other outcome of `Prioritize` is answered with status 500. The scores
themselves are therefore not modelled: none reaches the scheduler.

The scheduler is external: it asks for one pod at a time (`Ask`), asks for
scores when more than one node is left (`AskForScores`), assumes the pod on any
node that is left, whatever the answer about scores (`Assume`), and binds in the
background (`Bind`). `MaxBinding` bounds how many binds can be under way,
counting the pod that is being placed. A pod that is gone may come back under
the same name, which stands for its replacement. A NodeGroup whose matchLabels
are nil selects nothing; it is represented by labels no node has. NodeGroups are
namespaced, but the extender gets them from the namespace `default` only:
`groups` holds those, and a group that is elsewhere is a missing one (`GetGroup`).

The properties about Filter's answers speak of a view: what somebody sees who
reads policies, groups, nodes and deployments all at once (`Shown` is that of the
present state). `Governing`, `Home`, `Lacking` and `Reference` say on a view what
policy decides about a pod, which group a node counts for, and what Filter should
answer. `FewTooMany` is about deployments that share no pod (`NoneShared`): when a
pod is selected by two, the room that a request finds for the one is not kept by
the pods that are let in for the other, and TLC finds more pods than the bound
admits. Kubernetes forbids overlapping selectors but does not prevent them.

### Propagation

One deployment that is rolled out, one policy, nodes and groups that no longer
change. The policy counts only through what `DesiredPodsNum` may return for it,
so the state holds that set (`draws`). `Begin` reads the pod cache and picks the pods to delete, `DeletePod`
deletes them one by one, `Finish` requeues after a NotFound. `Place` is a whole
request: `Offer` counts the pods at the API server and leaves the nodes of groups
that lack pods. The deployment controller, external, creates missing pods
(`CreatePod`) and moves replicas from the old revision to the new one (`Roll`)
within maxSurge and maxUnavailable; a replacement is created as soon as a pod is
terminating. Names of pods are used again when nobody, the cache included,
remembers them.

A pass finds the cluster at rest (`AtRest`), because resyncs come every ten hours
while binds, kubelets and informers take seconds, or in motion (`InMotion`). The
second kind is not rare: a resync delivers the NodeGroups as well, whose events
queue the policy again; the NodeGroup controller may write a status anew for
another order of the same nodes, which is one more event; a pass that met a
NotFound is retried; the manager may be restarted. Between two passes that find
the cluster at rest there are at most `MaxEarly` passes and restarts that do not.
Without any bound, each round of replacements could lose a pod to one more pass.

What it shows: if the weights divide the replicas, the pods end up as desired
and stay (`EventuallyBalanced`; that they stay is `BalanceIsStable`, which is
proved), although passes in the middle of the rollout count terminating pods and
delete the wrong ones. This needs such passes to end at some time
(`<>[](early = 0)`): the code does not see to it, and without this premise TLC finds
the round in which the pass at rest deletes one of two pods that are in the same
group, a second pass deletes the other, and both replacements are placed in one
group again before either is bound. If the weights do not divide the replicas,
the draw of the left-over differs from call to call, the controller deletes at
every resync what the extender admitted before, and only `AlwaysComesBack` holds,
without any such premise: this churn never ends.

A surge pod gets no node while the groups have their pods, so the rollout goes on
only when an old pod may be unavailable. `MaxUnavailable` is at least 1 for that
reason: with maxSurge 1 and maxUnavailable 0, where the default of 25% each ends
up for up to three replicas, TLC finds the rollout standing still.

## 3. Runs

| run | instance | checks | shows |
|---|---|---|---|
| `placement` | 4 groups, up to 3 entries, weights up to 3, up to 6 replicas, listings of up to 4 pods | `ExactTotal`, `NearestShare`, `KeepsExactly` | the arithmetic against reference definitions |
| `placement_others` | the same | `OthersGetZero` | **violated**: a third name of an entry may be desired -1 pods |
| `policy_triggers` | 2 policies, 2 groups, 1 node, 1 deployment, 2 events | `NoLostTrigger` | no event is missed except through swallowed errors |
| `policy_pods` | 1 policy, 2 groups, 2 deployments that share a pod, 2 pods, 1 event | `TypeOK`, `OnlyPlacedPods`, `Trimmed` | which pods are deleted, and that enough are |
| `policy_live` | 1 policy, with or without names, 1 group, 1 deployment, there or not, 2 pods, 1 event | `Converges` | no group stays crowded unless the manager crashes for ever |
| `policy_deleting` | 1 policy, 2 groups, 1 deployment, 2 pods, 1 event | `DeletingLeavesPods` | **violated**: a policy that is being deleted goes on deleting pods |
| `nodegroup` | 1 group, 2 nodes, 4 events | `TypeOK`, `Settled`, `StatusFitsSpec`, `LiveGroupsAreKept`, `ImplementsStatus`, `EventuallyAccurate` | races of the status with edits, restarts; the refinement |
| `extender_filter` | 2 policies, 2 deployments, 2 groups, 2 nodes, 2 pods, 1 failing call or dying server | `TypeOK`, `AnswerIsRight` | many reads give the answer of one |
| `extender_surge` | 3 pods for 2 replicas, 2 binds under way | `FewTooMany` | how far a group can overshoot |
| `extender_live` | 2 pods, 2 replicas with weights 1 and 3, 1 edit | `EveryPodIsPlaced` | no pod waits for ever |
| `propagation` | 2 groups of a node each, 2 replicas, 3 names of pods, weights 1:1 and 1:3, maxSurge 1, maxUnavailable 1, `MaxEarly` 1 | `TypeOK`, `BalanceIsStable`, `EventuallyBalanced`, `AlwaysComesBack` | extender and controller do not fight for ever |
| `extender_empty` | 1 policy with an empty selector | `EmptyFieldsAreAllowed` | **violated**: one such policy fails every request of its namespace |

The three violations are recorded as findings in `PROJECT.json` with the lines
they contradict.

Why the bounds are enough. The arithmetic's properties depend on rounding,
which shows with three entries and a handful of replicas. `NoLostTrigger` is
about one group and one policy changing during a pass; the second of each shows
that neither is mistaken for the other, and the theorem covers any number. The
cut needs two pods in one group to have one too many, and a pod shared by two
deployments to be counted twice. In `policy_triggers` there are no pods and in
`policy_pods` few edits, since the two concerns do not meet in the code.
The overshoot needs three pods: one bound, one being bound and one being
placed; with the bound of `FewTooMany` lowered by one TLC finds a violation. The
left-over replica of `extender_live` is drawn anew in every call: two replicas
with weights 1 and 3 give (0, 2) or (1, 1). Its initial states are one of each
kind up to swapping the two labels or the two nodes (`MCFairSpec`); edits and steps
are not restricted. In `propagation` three names allow a
replacement to be placed while the pod it replaces is still terminating, and a
surge pod to wait beside the old ones; with it two pods may be placed at once, which
is how the extender itself misses the balance.
A fourth event in `nodegroup` allows a group to be marked for deletion, to go, to
be created again and edited while the worker holds its copy.

`CHECK_DEADLOCK FALSE`: a cluster on which nobody acts is at rest, and events
are bounded.

### Fairness

* Controllers: weak fairness on the worker, strong on taking up each queued
  request (the work queue is first in, first out), weak on informers, on map
  functions, on the kubelets that end terminating pods, and on the resync, which
  the controller-runtime cache does every ten hours by default. None on users,
  failures, the creation of pods or the scheduler.
* Extender: weak fairness on the handler and on the scheduler's next step,
  strong on taking up each pending pod (the scheduler's queue retries every pod),
  weak on binds and kubelets.
* `Propagation`: weak fairness on the worker, on the resync and on the rest of the
  cluster as a whole: it does something while there is something to do, in any
  order. That is less than each part of it guarantees.

`Converges` assumes that all deployments exist in the end: while one is missing,
the code touches no pod of its policy, also not of its other deployments. `EveryPodIsPlaced` assumes `Servable`:
deployments and groups exist, each weighted group has a node that counts for it,
and a deployment has no more pods than replicas. The last part excludes a
rolling update with surge, during which the extender leaves a surge pod no node
until another pod is gone.

## 4. Proofs

Every invariant and every action property that a run checks is also proved, for
all values of the constants; so is the refinement of `NodeGroupStatus`. What is
left to TLC is liveness.

| theorem | states |
|---|---|
| `MCPlacementProofs!TotalIsExact` | `Spec => []ExactTotal` |
| `MCPlacementProofs!SharesAreNearest` | `Spec => []NearestShare` |
| `MCPlacementProofs!CutKeepsExactly` | `Spec => []KeepsExactly` |
| `PolicyControllerProofs!TypeCorrect` | `Spec => []TypeOK` |
| `PolicyControllerProofs!NoTriggerIsLost` | `Spec => []NoLostTrigger` |
| `PolicyControllerProofs!OnlyPlacedPodsAreDeleted` | `Spec => []OnlyPlacedPods` |
| `PolicyControllerProofs!GroupsAreTrimmed` | `Spec => []Trimmed` |
| `NodeGroupControllerProofs!TypeCorrect` | `Spec => []TypeOK` |
| `NodeGroupControllerProofs!RestingGroupsAreSettled` | `Spec => []Settled` |
| `NodeGroupControllerProofs!StatusIsWrittenForItsSpec` | `Spec => StatusFitsSpec` |
| `NodeGroupControllerProofs!LiveGroupsAreKeptAlive` | `Spec => LiveGroupsAreKept` |
| `NodeGroupControllerProofs!ControllerImplementsStatus` | `Spec => ImplementsStatus` |
| `SchedulerExtenderProofs!TypeCorrect` | `Spec => []TypeOK` |
| `FilterProofs!AnswersAreRight` | `Spec => []AnswerIsRight` |
| `FilterProofs!FewAreTooMany` | `Spec => []FewTooMany` |
| `PropagationProofs!TypeCorrect` | `Spec => []TypeOK` |
| `PropagationProofs!BalanceStays` | `Spec => BalanceIsStable` |

*Assumptions.* All constants are arbitrary, subject to the named assumptions of
the modules, which TLC evaluates in every run: `None` is no object; bounds are
natural numbers; weights and replicas are natural numbers, and policies name
groups and deployments of the model (`SpecsNameThings`, `SizesAreNat`,
`DeploysSelectPods`; the API server admits nothing else); there are finitely many
pods (`PodsAreFinite`, `EnoughNames`) and, for the NodeGroup controller, nodes; the
policies are those of a list (`PoliciesAreListed`), which is the order in which
the API server returns them; the groups of `Propagation` are those its nodes are
in (`NodesAreGrouped`), and it has names for the pods it begins with.

*Induction.* The code's loops are folds in the models. The library's induction
theorems take a predicate as parameter, which the provers cannot instantiate.
`FoldTheorems` gets around this with sets in place of predicates: a set of
numbers that holds 0 and the successor of each of its members holds all
(`NumberInduction`), from the fact that every non-empty set of numbers has a least
one, and that from the well-foundedness of strict inclusion on finite sets
(`SubsetInduction` is the same for the subsets of a finite set). From there:
the fold of the community modules, a recursive function behind a `CHOOSE`, has a
value for every finite set (`FoldExists`, `FoldUnique`), and `StepByStep` turns
`FoldLeft` into what the loop does, one entry after the other.

*Arithmetic.* `AllotStepByStep` and `TotalWeightAddsUp` say so of the two loops of
`DesiredPodsNum`. `SinglesAddUp` and `AllButOneAreNear` are the general results,
for any set of groups: what the entries are given and the left-over add up
to the replicas, each share is off by half a pod, and the entry that takes the
left-over is off by what the others are off together. `ListingIsCutToTheGoal` is
the cut: of a listing in any order it leaves in a group as many pods as desired,
by counting the indices up to the last one that is kept and up to the first one
that is not. The theorems about `MCPlacement` apply these to its calls, for all
bounds; `Passed` says what one call hands to the next.

*Policy controller.* `NoLostTrigger` is inductive together with `TypeOK`: it
speaks of the pass under way as far as it has read, and that is what makes it
so. `OnlyPlacedPods` is not inductive: a cached node must still be the pod's
node, and the deployments whose pods are listed must be the policy's. The
strengthening adds `CacheLags` (a pod has no node before it is bound, and a
cached node is the pod's node unless the pod is gone) and `ChosenDeploys` (the
selectors still to be fetched and the deployments fetched are from the copy of
the policy). `DoomedArePlaced` in `PlacementProofs` says what the cut may pick.
`Trimmed` is about the pods that were listed, minus those that are to be deleted:
`ListPodsTrims` gets it from the lemma about the cut, and no later step of the
pass adds to what runs, since a listed pod has a node and no pod gets a second
one (`CountedAreScheduled`).

*NodeGroup controller.* `Settled` says what a group at rest looks like, which no
step from a group at work can establish by itself. `StatusInv` adds that a
group without undelivered writes is the cached one (`CacheOK`), that a copy that
is not outdated is the group (`CopyFreshOK`), that the group of an outdated copy
is queued or has an event coming (`CopyStaleOK`), that a status about to be
written is that of the last listing, made for the copy's labels (`ViewOK`), and
that only a copy that is being deleted is removed (`RemoveOK`). `StatusFitsSpec`
follows from `StatusInv`: only `Update` writes a status of a live group, from a
copy that is not stale. `LiveGroupsAreKept` follows from it as well: a copy that
is not stale is the group, so a group the worker removes with a fresh copy is
being deleted. For the refinement, `ShownTypes` and the lemmas around it say how
the mapped variables change with each variable of the controller; every step of
the reconciler is then a Look, a Publish, a Forget or a stutter
(`ReconcileImplements`), every other step one of the user's or a stutter
(`OthersImplement`). A list that differs only in its order is published too, as
the same snapshot.

*Scheduler extender.* `TypeOK` is inductive together with `PassOK`, which says what
the locals of a request hold in each phase. `AnswerIsRight` speaks of the end of a
request only. The invariant that makes it inductive, `Tracks`, says that while a
request of Filter is undisturbed, what it has read agrees with the view
(`Follows`): the policies still to be tried are those of the view in their order
and none that governs the pod has been passed over; the deployments fetched are
the first of the policy's selectors; the groups fetched and the nodes mapped are
those of the names so far, each node counted for the last group it is in
(`Mapped`); and what the first plugin left is what `Reference` says. There is one
lemma per action, and `ServerFollows` puts them together.

*FewTooMany.* With the same view the rest is counting. `Sparse` says that the binds
under way stay below `MaxBinding` (`Bounded`), that every node a request still
offers has room for one more pod (`Rooms`), and that every group with a pod keeps
to the bound (`Within`). Filter establishes the room: it does not count the pods
being bound, of which there are fewer than `MaxBinding` (`EnoughPodsRooms`). Only
the pod of the request gets a node, so the room is there when it is assumed
(`OneMorePlaced`); that it is the room of the right deployment needs
`NoneShared` (`SiblingsAgree`).

*Propagation.* `TypeOK` needs `Remembered`: a name that the cache or a pass in
progress remembers is not the name of a pod that waits for a node, or the worker
would make a pod without a node terminate. `BalanceIsStable` is the safety half of
`EventuallyBalanced`: at rest the cache shows the pods that run, a pass can draw
only the numbers they are spread by, and by `ListingIsCutToTheGoal` it then picks
none; the replica sets miss none, and nothing else moves.

*Only model-checked:* liveness (`Converges`, `EventuallyAccurate`,
`EveryPodIsPlaced`, `EventuallyBalanced`, `AlwaysComesBack`), which needs fairness
and is beyond the prover; and the three properties that the code violates.

## 5. Not modelled

* `cmd/`: flags and wiring; leader election is client-go's. Two managers at work at
  the same time, which a lease does not quite exclude, are not modelled. A failing
  set-up of a controller is logged and leaves the manager without it: that happens
  with a broken installation only.
* `OverridePolicy`: types without code. `cache/cache.go` is empty. Generated deep
  copies: values are copied in the models anyway.
* `ParseNamespaceName`: called by nothing.
* `WithCheck`: net/http never gives a server request a nil body.
* Concurrent requests to the extender: the only caller is one scheduler, and
  handlers share no state. A graceful shutdown: the context of `Run` is the
  background context, which is never done.
* Namespaces: policies and pods are in one namespace, NodeGroups in `default`. The
  policy controller lists groups of all namespaces and tells two of one name not
  apart; the extender sees those in `default` only. The List of a
  deployment's pods is not limited to a namespace in the code; the sets
  `Selected` and `selects` may contain any pods for that reason.
* Scores, as explained above.

## 6. Plan

1. Done: `Placement`, `PolicyController`, `NodeGroupController`,
   `SchedulerExtender`, `Propagation`, the refinement of `NodeGroupStatus`, their
   runs, and the theorems above.
2. Proofs of the safety parts of the liveness properties: which states no step
   but the expected one leaves, as `BalanceIsStable` does for `Propagation`, for
   `Converges` and for `EveryPodIsPlaced`.
