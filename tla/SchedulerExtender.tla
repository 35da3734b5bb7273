-------------------------- MODULE SchedulerExtender --------------------------
(***************************************************************************)
(* The scheduler extender: an HTTP server that the kube-scheduler asks, for *)
(* one pod after the other, which of the feasible nodes to keep (Filter)   *)
(* and, if it keeps several, how to score them (Prioritize).               *)
(*                                                                         *)
(* The extender has no cache and no state of its own.  Each of its Lists   *)
(* and Gets goes to the API server and is a step here: anything may change *)
(* between two of them.  pass is the request being served with the locals  *)
(* of its handler.  The scheduler places one pod at a time but binds it in *)
(* the background, so a pod it has assumed to run on a node still has no   *)
(* node at the API server.                                                 *)
(***************************************************************************)
EXTENDS Placement

CONSTANTS
  PolicyOrder,  \* the names of the policies, in the order a List returns them
  Groups, Nodes, Deploys, Pods,
  None,         \* no object, no node name, an empty field of a selector
  Specs,        \* the policy specs users write: [weights, selectors]
  DeploySpecs,  \* what deployments look like: [size, selects]
  Selectors,    \* the matchLabels users write; one no node has stands for nil
  LabelSets,    \* the label sets a node may carry
  Feasible,     \* the sets of nodes the scheduler's own filters leave
  MaxBinding,   \* bound on the binds under way, the pod being placed included
  MaxEdits,     \* bound on user edits
  MaxFailures   \* bound on failing calls

Policies == {PolicyOrder[i] : i \in DOMAIN PolicyOrder}

ASSUME NoneIsNothing ==
  /\ None \notin Policies /\ None \notin Groups /\ None \notin Nodes
  /\ None \notin Deploys /\ None \notin Pods /\ None \notin Selectors
  /\ None \notin Specs /\ None \notin DeploySpecs

ASSUME BoundsAreNat == MaxBinding \in Nat \ {0} /\ MaxEdits \in Nat /\ MaxFailures \in Nat

ASSUME FeasibleAreNodes == Feasible \subseteq SUBSET Nodes

ASSUME PoliciesAreListed == PolicyOrder \in Seq(Policies)

\* The schema of the API admits no weight below 1 and no negative replicas.
ASSUME SpecsNameThings ==
  \A s \in Specs : /\ s.weights \in Seq([names : Seq(Groups), weight : Nat])
                   /\ s.selectors \in Seq(Deploys \cup {None})

ASSUME DeploysSelectPods ==
  /\ IsFiniteSet(Pods)
  /\ \A dep \in DeploySpecs : dep.size \in Nat /\ dep.selects \subseteq Pods

VARIABLES
  policies,    \* policies[q]: the spec of q, or None
  groups,      \* groups[g]: the matchLabels of g, or None
  nodeLabels,  \* nodeLabels[n]: the labels of node n
  deploys,     \* deploys[d]: [size, selects], or None
  pods,        \* pods[p]: [phase, node]
  pass,        \* the request being served
  edits, failures,
  quiet,       \* history: no user edit since this request began
  there        \* history: who ran where when Filter listed the pods

objects == <<policies, groups, nodeLabels, deploys>>
vars == <<objects, pods, pass, edits, failures, quiet, there>>

Absent  == [phase |-> "absent", node |-> None]
Pending == [phase |-> "pending", node |-> None]

Idle ==
  [pc |-> "idle", verb |-> "filter", pod |-> None, nodes |-> {}, rest |-> <<>>,
   policy |-> None, plugin |-> "enoughPods", todo |-> <<>>, got |-> <<>>, deploy |-> None,
   nodesIn |-> NoMap, offer |-> {}, missing |-> FALSE, errs |-> FALSE, status |-> 0]

NodesWith(matchLabels) == {n \in Nodes : matchLabels \subseteq nodeLabels[n]}

Nowhere == [p \in Pods |-> None]

\* spec.nodeName as the API server has it.
NodeOf == [p \in Pods |-> IF pods[p].phase \in {"bound", "terminating"} THEN pods[p].node ELSE None]

PodsOf(dep) == {p \in dep.selects : pods[p].phase # "absent"}

TargetNames(spec) == FoldLeft(LAMBDA names, e : names \o e.names, <<>>, spec.weights)

\* The policies that are there, in their order.
Present ==
  FoldLeft(LAMBDA specs, q : IF policies[q] = None THEN specs ELSE Append(specs, policies[q]),
           <<>>, PolicyOrder)

\* Tests only the first deployment.
SelectsFirst(got, p) == got # <<>> /\ p \in got[1].selects

\* Some deployment that was fetched selects the pod.
Selects(got, p) == \E i \in DOMAIN got : p \in got[i].selects

-----------------------------------------------------------------------------
(***************************************************************************)
(* The handlers.                                                           *)
(***************************************************************************)
Serve(next) ==
  /\ pass' = next
  /\ UNCHANGED <<objects, pods, edits, failures, quiet>>

Step(next) == Serve(next) /\ UNCHANGED there

\* WithPrioritizeHander writes 500 whether Prioritize succeeded or not.
PrioritizeStatus(status) == IF status = 200 THEN 500 ELSE status

\* The body of an error answer holds no nodes.
Answer(status, nodes) ==
  [pass EXCEPT !.pc = "answered", !.offer = nodes,
               !.status = IF pass.verb = "prioritize" THEN PrioritizeStatus(status) ELSE status]

\* A panic: net/http closes the connection.
Aborted == [pass EXCEPT !.pc = "answered", !.offer = {}, !.status = 0]

\* A plugin returns: the next one runs on its nodes even if it failed.
PluginDone(nodes, failed) ==
  IF pass.plugin = "enoughPods"
  THEN [pass EXCEPT !.pc = "groups", !.plugin = "notInNodeGroups", !.got = <<>>,
                    !.todo = TargetNames(pass.policy), !.nodesIn = NoMap,
                    !.offer = nodes, !.errs = failed]
  ELSE IF failed \/ pass.errs THEN Answer(500, {}) ELSE Answer(200, nodes)

(***************************************************************************)
(* GetRelativeDeployAndPolicy                                              *)
(***************************************************************************)
ListPolicies ==
  /\ pass.pc = "policies"
  /\ Step([pass EXCEPT !.pc = "match", !.rest = Present])

Matching == pass.pc = "match" /\ pass.rest # <<>>

\* The selector whose deployment is fetched next.
NextSelector == Head(pass.rest).selectors[Len(pass.got) + 1]

MoreSelectors == Len(pass.got) < Len(Head(pass.rest).selectors)

MatchDeploy ==
  /\ Matching
  /\ MoreSelectors
  /\ NextSelector # None
  /\ deploys[NextSelector] # None
  /\ Step([pass EXCEPT !.got = Append(@, deploys[NextSelector])])

\* One selector with an empty field, or whose deployment is missing, fails the
\* request, whichever policy it is in.
MatchFails ==
  /\ Matching
  /\ MoreSelectors
  /\ NextSelector = None \/ deploys[NextSelector] = None
  /\ Step(Answer(500, {}))

PolicyMatches ==
  /\ Matching
  /\ ~MoreSelectors
  /\ Selects(pass.got, pass.pod)
  /\ Step([pass EXCEPT !.pc = "deploys", !.policy = Head(pass.rest), !.rest = <<>>,
                       !.todo = Head(pass.rest).selectors, !.got = <<>>])

PolicyDoesNotMatch ==
  /\ Matching
  /\ ~MoreSelectors
  /\ ~Selects(pass.got, pass.pod)
  /\ Step([pass EXCEPT !.rest = Tail(@), !.got = <<>>])

\* Filter keeps all the nodes, Prioritize scores them all 0.
NoPolicy ==
  /\ pass.pc = "match"
  /\ pass.rest = <<>>
  /\ Step(Answer(200, pass.nodes))

(***************************************************************************)
(* The plugins: enoughPodsFilter and diffBasedPrioritizePlugin start with  *)
(* GetRelativeDeployment, notInNodeGroupsFilter with the groups.           *)
(***************************************************************************)
GetDeploy ==
  /\ pass.pc = "deploys"
  /\ pass.todo # <<>>
  /\ LET dep == deploys[Head(pass.todo)]
     IN  Step(IF dep = None THEN [pass EXCEPT !.todo = Tail(@), !.missing = TRUE]
                            ELSE [pass EXCEPT !.todo = Tail(@), !.got = Append(@, dep)])

DeployFound ==
  /\ pass.pc = "deploys"
  /\ pass.todo = <<>>
  /\ ~pass.missing
  /\ Selects(pass.got, pass.pod)
  /\ ~Panics(pass.policy.weights)
  /\ LET first == pass.got[Min({i \in DOMAIN pass.got : pass.pod \in pass.got[i].selects})]
     IN  Step([pass EXCEPT !.pc = "groups", !.deploy = first, !.got = <<>>,
                           !.todo = TargetNames(pass.policy)])

\* The code says it continues with the deployments it has, and returns the error.
DeployNotFetched ==
  /\ pass.pc = "deploys"
  /\ pass.todo = <<>>
  /\ pass.missing
  /\ Step(PluginDone({}, TRUE))

\* Deployments that no longer select the pod: a nil dereference.  An entry
\* without a name: an index out of range.
PluginPanics ==
  /\ pass.pc = "deploys"
  /\ pass.todo = <<>>
  /\ ~pass.missing
  /\ ~Selects(pass.got, pass.pod) \/ Panics(pass.policy.weights)
  /\ Step(Aborted)

\* The Get is for the namespace "default": groups holds the groups in there.
GetGroup ==
  /\ pass.pc = "groups"
  /\ pass.todo # <<>>
  /\ LET g == Head(pass.todo)
     IN  Step(IF groups[g] = None THEN PluginDone({}, TRUE)
              ELSE [pass EXCEPT !.todo = Tail(@),
                                !.got = Append(@, [name |-> g, labels |-> groups[g]])])

GroupsFetched ==
  /\ pass.pc = "groups"
  /\ pass.todo = <<>>
  /\ Step([pass EXCEPT !.pc = "nodes"])

ListNodes ==
  /\ pass.pc = "nodes"
  /\ pass.got # <<>>
  /\ LET g == Head(pass.got)
     IN  Step([pass EXCEPT !.got = Tail(@),
                           !.nodesIn = AddNodes(@, NodesWith(g.labels), g.name)])

NodesListed ==
  /\ pass.pc = "nodes"
  /\ pass.got = <<>>
  /\ pass.plugin # "notInNodeGroups"
  /\ Step([pass EXCEPT !.pc = "pods"])

\* notInNodeGroupsFilter: keep the nodes of some target group.
NotInNodeGroups ==
  /\ pass.pc = "nodes"
  /\ pass.got = <<>>
  /\ pass.plugin = "notInNodeGroups"
  /\ Step(PluginDone(pass.offer \cap DOMAIN pass.nodesIn, FALSE))

\* enoughPodsFilter: keep the nodes of groups that still lack pods.
EnoughPods ==
  /\ pass.pc = "pods"
  /\ pass.plugin = "enoughPods"
  /\ there' = NodeOf
  /\ \E desired \in DesiredPodsNum(pass.policy.weights, pass.deploy.size) :
       LET current == CurrentPodsNum(PodsOf(pass.deploy), NodeOf, pass.nodesIn)
       IN  Serve(PluginDone({n \in pass.offer \cap DOMAIN pass.nodesIn :
                               Short(current, desired, pass.nodesIn[n])}, FALSE))

\* diffBasedPrioritizePlugin never scores a node: sort.Reverse returns another
\* type than the one it is asserted to have.
DiffBased ==
  /\ pass.pc = "pods"
  /\ pass.plugin = "diffBased"
  /\ Step(Aborted)

\* A call to the API server fails.
ReadFails ==
  /\ failures < MaxFailures
  /\ failures' = failures + 1
  /\ \/ /\ pass.pc = "policies" \/ (Matching /\ MoreSelectors)
        /\ pass' = Answer(500, {})
     \/ /\ pass.pc = "deploys" /\ pass.todo # <<>>
        /\ pass' = [pass EXCEPT !.todo = Tail(@), !.missing = TRUE]
     \/ /\ \/ pass.pc = "groups" /\ pass.todo # <<>>
           \/ pass.pc = "nodes" /\ pass.got # <<>>
           \/ pass.pc = "pods"
        /\ pass' = PluginDone({}, TRUE)
  /\ UNCHANGED <<objects, pods, edits, quiet, there>>

\* A body that is not ExtenderArgs.
Undecodable ==
  /\ pass.pc = "policies"
  /\ failures < MaxFailures
  /\ failures' = failures + 1
  /\ pass' = Answer(400, {})
  /\ UNCHANGED <<objects, pods, edits, quiet, there>>

\* The process of the server ends, or has ended, and is started again.
ServerDies ==
  /\ pass.pc \notin {"idle", "answered"}
  /\ failures < MaxFailures
  /\ failures' = failures + 1
  /\ pass' = Aborted
  /\ UNCHANGED <<objects, pods, edits, quiet, there>>

Handle ==
  \/ ListPolicies \/ MatchDeploy \/ MatchFails \/ PolicyMatches \/ PolicyDoesNotMatch \/ NoPolicy
  \/ GetDeploy \/ DeployFound \/ DeployNotFetched \/ PluginPanics
  \/ GetGroup \/ GroupsFetched \/ ListNodes \/ NodesListed
  \/ NotInNodeGroups \/ EnoughPods \/ DiffBased

-----------------------------------------------------------------------------
(***************************************************************************)
(* The scheduler.                                                          *)
(***************************************************************************)
Binding == {p \in Pods : pods[p].phase = "assumed"}

\* Both requests carry a pod and the nodes that are left for it.
Request(verb, plugin, p, nodes) ==
  [Idle EXCEPT !.pc = "policies", !.verb = verb, !.plugin = plugin,
               !.pod = p, !.nodes = nodes, !.offer = nodes]

Ask(p) ==
  /\ pass.pc = "idle"
  /\ pods[p] = Pending
  /\ Cardinality(Binding) < MaxBinding
  /\ \E nodes \in Feasible : pass' = Request("filter", "enoughPods", p, nodes)
  /\ UNCHANGED <<objects, pods, edits, failures, quiet, there>>

Granted == pass.pc = "answered" /\ pass.verb = "filter" /\ pass.status = 200 /\ pass.offer # {}

\* Filter's answer is done with, and the history of its pass.
GoOn(next) ==
  /\ pass' = next
  /\ quiet' = TRUE
  /\ there' = Nowhere
  /\ UNCHANGED <<objects, edits, failures>>

\* With more than one node left, ask for scores.
AskForScores ==
  /\ Granted
  /\ Cardinality(pass.offer) > 1
  /\ UNCHANGED pods
  /\ GoOn(Request("prioritize", "diffBased", pass.pod, pass.offer))

\* Assume the pod runs on one of the nodes.  Any answer to the request for
\* scores will do.
Assume(n) ==
  /\ \/ Granted /\ pass.offer = {n}
     \/ pass.pc = "answered" /\ pass.verb = "prioritize" /\ n \in pass.nodes
  /\ pods' = IF pods[pass.pod] = Pending
             THEN [pods EXCEPT ![pass.pod] = [phase |-> "assumed", node |-> n]]
             ELSE pods
  /\ GoOn(Idle)

\* An error, or no node left: the pod goes back into the queue.
GiveUp ==
  /\ pass.pc = "answered"
  /\ pass.verb = "filter"
  /\ ~Granted
  /\ UNCHANGED pods
  /\ GoOn(Idle)

Place == AskForScores \/ GiveUp \/ \E n \in Nodes : Assume(n)

SetPod(p, state) ==
  /\ pods' = [pods EXCEPT ![p] = state]
  /\ UNCHANGED <<objects, pass, edits, quiet, there>>

Bind(p) ==
  /\ pods[p].phase = "assumed"
  /\ SetPod(p, [pods[p] EXCEPT !.phase = "bound"])
  /\ UNCHANGED failures

BindFails(p) ==
  /\ pods[p].phase = "assumed"
  /\ failures < MaxFailures
  /\ failures' = failures + 1
  /\ SetPod(p, Pending)

-----------------------------------------------------------------------------
(***************************************************************************)
(* The deployment controller, the kubelets and the users.                  *)
(***************************************************************************)
CreatePod(p) == pods[p] = Absent /\ SetPod(p, Pending) /\ UNCHANGED failures

\* Deleting a pod without a node removes it at once.
EvictPod(p) ==
  /\ pods[p].phase \in {"pending", "assumed", "bound"}
  /\ SetPod(p, IF pods[p].phase = "bound" THEN [pods[p] EXCEPT !.phase = "terminating"] ELSE Absent)
  /\ UNCHANGED failures

RemovePod(p) == pods[p].phase = "terminating" /\ SetPod(p, Absent) /\ UNCHANGED failures

Cluster == \E p \in Pods : CreatePod(p) \/ EvictPod(p) \/ RemovePod(p)

Edit ==
  /\ edits < MaxEdits
  /\ edits' = edits + 1
  /\ quiet' = (pass.pc = "idle")
  /\ UNCHANGED <<pods, pass, failures, there>>

WritePolicy(q, spec) ==
  Edit /\ policies' = [policies EXCEPT ![q] = spec] /\ UNCHANGED <<groups, nodeLabels, deploys>>

WriteGroup(g, labels) ==
  Edit /\ groups' = [groups EXCEPT ![g] = labels] /\ UNCHANGED <<policies, nodeLabels, deploys>>

RelabelNode(n, labels) ==
  Edit /\ nodeLabels' = [nodeLabels EXCEPT ![n] = labels] /\ UNCHANGED <<policies, groups, deploys>>

\* A selector is immutable: another one means deleted and created again.
WriteDeploy(d, dep) ==
  Edit /\ deploys' = [deploys EXCEPT ![d] = dep] /\ UNCHANGED <<policies, groups, nodeLabels>>

Users ==
  \/ \E q \in Policies, spec \in Specs \cup {None} : WritePolicy(q, spec)
  \/ \E g \in Groups, labels \in Selectors \cup {None} : WriteGroup(g, labels)
  \/ \E n \in Nodes, labels \in LabelSets : RelabelNode(n, labels)
  \/ \E d \in Deploys, dep \in DeploySpecs \cup {None} : WriteDeploy(d, dep)

-----------------------------------------------------------------------------
Init ==
  /\ policies \in [Policies -> Specs \cup {None}]
  /\ groups \in [Groups -> Selectors]
  /\ nodeLabels \in [Nodes -> LabelSets]
  /\ deploys \in [Deploys -> DeploySpecs]
  /\ pods = [p \in Pods |-> Absent]
  /\ pass = Idle
  /\ edits = 0
  /\ failures = 0
  /\ quiet = TRUE
  /\ there = Nowhere

Next ==
  \/ Handle \/ ReadFails \/ Undecodable \/ ServerDies
  \/ Place
  \/ \E p \in Pods : Ask(p) \/ Bind(p) \/ BindFails(p)
  \/ Cluster \/ Users

Spec == Init /\ [][Next]_vars

\* The server answers, the scheduler goes on with each answer and takes up
\* every pod that waits in its queue again and again, binds come to an end and
\* kubelets stop the pods they are told to stop.
Fairness ==
  /\ WF_vars(Handle)
  /\ WF_vars(Place)
  /\ \A p \in Pods : SF_vars(Ask(p)) /\ WF_vars(Bind(p)) /\ WF_vars(RemovePod(p))

FairSpec == Spec /\ Fairness

-----------------------------------------------------------------------------
PodStates == [phase : {"absent", "pending", "assumed", "bound", "terminating"}, node : Nodes \cup {None}]

\* Every variable has its type; a request that has got past the choice of a
\* policy has one, counts pods only for a deployment it has found, offers only
\* nodes it was given, and only pods that have been placed have a node.
TypeOK ==
  /\ policies \in [Policies -> Specs \cup {None}]
  /\ groups \in [Groups -> Selectors \cup {None}]
  /\ nodeLabels \in [Nodes -> LabelSets]
  /\ deploys \in [Deploys -> DeploySpecs \cup {None}]
  /\ pods \in [Pods -> PodStates]
  /\ \A p \in Pods : pods[p].node = None <=> pods[p].phase \in {"absent", "pending"}
  /\ pass.pc \in {"idle", "policies", "match", "deploys", "groups", "nodes", "pods", "answered"}
  /\ pass.verb = "prioritize" <=> pass.plugin = "diffBased"
  /\ pass.pc = "idle" <=> pass.pod = None
  /\ pass.pod \in Pods \cup {None}
  /\ pass.rest \in Seq(Specs)
  /\ pass.pc \in {"deploys", "groups", "nodes", "pods"} => pass.policy \in Specs
  /\ pass.pc = "pods" => pass.deploy \in DeploySpecs
  /\ pass.offer \subseteq pass.nodes
  /\ pass.nodes \subseteq Nodes
  /\ IsMap(pass.nodesIn, Nodes, Groups)
  /\ pass.status \in {0, 200, 400, 500}
  /\ edits \in 0..MaxEdits
  /\ failures \in 0..MaxFailures
  /\ quiet \in BOOLEAN
  /\ there \in [Pods -> Nodes \cup {None}]

\* What a reader sees who reads all objects at once.
Shown == [policies |-> policies, groups |-> groups, nodeLabels |-> nodeLabels, deploys |-> deploys]

\* The policy that decides about pod p in a view v: the first that names a
\* deployment that selects it.
Chosen(v, spec, p) ==
  {i \in DOMAIN spec.selectors :
     /\ spec.selectors[i] # None
     /\ v.deploys[spec.selectors[i]] # None
     /\ p \in v.deploys[spec.selectors[i]].selects}

Governing(v, p) ==
  {i \in DOMAIN PolicyOrder :
     v.policies[PolicyOrder[i]] # None /\ Chosen(v, v.policies[PolicyOrder[i]], p) # {}}

\* The group node n counts for: the last of the policy's groups it is in.
Homes(v, spec, n) ==
  LET names == TargetNames(spec)
  IN  {i \in DOMAIN names : v.groups[names[i]] # None /\ v.groups[names[i]] \subseteq v.nodeLabels[n]}

Home(v, spec, n) ==
  IF Homes(v, spec, n) = {} THEN None ELSE TargetNames(spec)[Max(Homes(v, spec, n))]

PolicyFor(v, p) == v.policies[PolicyOrder[Min(Governing(v, p))]]

DeployFor(v, p) == v.deploys[PolicyFor(v, p).selectors[Min(Chosen(v, PolicyFor(v, p), p))]]

\* What may be desired for the deployment p belongs to.
Wants(v, p) == DesiredPodsNum(PolicyFor(v, p).weights, DeployFor(v, p).size)

\* The pods of p's deployment in group g, pods being where they are in where.
Here(v, p, g, where) ==
  {o \in DeployFor(v, p).selects : where[o] # None /\ Home(v, PolicyFor(v, p), where[o]) = g}

Lacking(v, p, want, where) ==
  {n \in Nodes : LET g == Home(v, PolicyFor(v, p), n)
                 IN  g # None /\ Cardinality(Here(v, p, g, where)) < Lookup(want, g)}

\* What Filter would answer if it read everything at once.
Reference(v, p, nodes, where) ==
  IF Governing(v, p) = {} THEN {nodes} ELSE {nodes \cap Lacking(v, p, want, where) : want \in Wants(v, p)}

\* Filter is as good as atomic: when users change nothing while it reads
\* policies, deployments, groups and nodes one by one, some of them twice, a
\* positive answer holds exactly the nodes of target groups that lacked pods
\* when the pods were listed, by the first policy that governs the pod.
AnswerIsRight ==
  quiet /\ pass.pc = "answered" /\ pass.verb = "filter" /\ pass.status = 200 =>
    pass.offer \in Reference(Shown, pass.pod, pass.nodes, there)

Placed == [p \in Pods |-> pods[p].node]

\* The selectors of two deployments must not overlap.
NoneShared ==
  \A d, e \in Deploys :
    d # e /\ deploys[d] # None /\ deploys[e] # None =>
      deploys[d].selects \cap deploys[e].selects = {}

\* Filter does not see the pods that are being bound, so a group may end up
\* with more pods than desired; but, as long as users change nothing and no
\* two deployments share a pod, never with more than the binds that can be
\* under way beside it account for.
FewTooMany ==
  edits = 0 /\ NoneShared =>
    \A p \in Pods :
      Governing(Shown, p) # {} /\ pods[p].node # None =>
        LET g == Home(Shown, PolicyFor(Shown, p), pods[p].node)
        IN  g # None => \E want \in Wants(Shown, p) :
                          Cardinality(Here(Shown, p, g, Placed)) <= Lookup(want, g) + MaxBinding - 1

\* Every policy can be served: its entries have names, its deployments and
\* groups are there, every group that is given a weight has a node that counts
\* for it, and no deployment has more pods than replicas.
Servable ==
  \A q \in Policies :
    policies[q] # None =>
      LET spec == policies[q]
      IN  /\ ~Panics(spec.weights)
          /\ \A i \in DOMAIN spec.selectors :
               LET d == spec.selectors[i]
               IN  /\ d # None
                   /\ deploys[d] # None
                   /\ Cardinality(PodsOf(deploys[d])) <= deploys[d].size
          /\ \A g \in Named(spec.weights) : groups[g] # None
          /\ \A i \in DOMAIN spec.weights :
               \E n \in Nodes : Home(Shown, spec, n) = spec.weights[i].names[1]

\* Once the policies can be served and stay so, no pod waits for ever: whatever
\* group the left-over replicas are given to in each of its calls, and however
\* the pods placed before are spread, Filter leaves it a node.
EveryPodIsPlaced ==
  <>[]Servable => \A p \in Pods : (pods[p] = Pending) ~> (pods[p] # Pending)

\* An empty namespace or name of a resource selector is allowed and "means
\* inherit from the parent object scope", "selecting all resources"
\* (propagation_types.go:77-85): with everything there and no failing call,
\* Filter does not answer with an error.
EmptyFieldsAreAllowed ==
  pass.pc = "answered" /\ pass.verb = "filter" /\ failures = 0
    /\ (\A d \in Deploys : deploys[d] # None) /\ (\A g \in Groups : groups[g] # None)
    /\ edits = 0
    => pass.status # 500

=============================================================================
