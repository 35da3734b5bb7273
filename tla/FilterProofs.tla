----------------------------- MODULE FilterProofs -----------------------------
(***************************************************************************)
(* What the scheduler extender answers: that Filter is as good as atomic,  *)
(* and that a group ends up with few pods too many.                        *)
(*                                                                         *)
(* A view v stands for what the API server shows.  As long as users change *)
(* nothing, the view of a step is the view of the next, and what a request *)
(* has read so far agrees with it: Follows says how, phase by phase.       *)
(***************************************************************************)
EXTENDS SchedulerExtenderProofs

ViewOK(v) ==
  /\ v.policies \in [Policies -> Specs \cup {None}]
  /\ v.groups \in [Groups -> Selectors \cup {None}]
  /\ v.nodeLabels \in [Nodes -> LabelSets]
  /\ v.deploys \in [Deploys -> DeploySpecs \cup {None}]

-----------------------------------------------------------------------------
(***************************************************************************)
(* What has been read.                                                     *)
(***************************************************************************)
\* list holds policies of the view in their order, every one that governs p.
Lists(v, at, list, p) ==
  /\ at \in [1..Len(list) -> DOMAIN PolicyOrder]
  /\ \A i \in 1..Len(list) :
       v.policies[PolicyOrder[at[i]]] # None /\ list[i] = v.policies[PolicyOrder[at[i]]]
  /\ \A i, j \in 1..Len(list) : i < j => at[i] < at[j]
  /\ \A k \in Governing(v, p) : \E i \in 1..Len(list) : at[i] = k

\* got holds the deployments that the first of the selectors name.
Deployed(v, got, sel) ==
  \A i \in 1..Len(got) : sel[i] # None /\ v.deploys[sel[i]] # None /\ got[i] = v.deploys[sel[i]]

\* todo is what is left of names after the first k.
LeftOf(names, k, todo) ==
  k + Len(todo) = Len(names) /\ \A i \in 1..Len(todo) : todo[i] = names[k + i]

\* got holds the groups named after the first k.
Grouped(v, got, names, k) ==
  \A i \in 1..Len(got) :
    v.groups[names[k + i]] # None /\ got[i] = [name |-> names[k + i], labels |-> v.groups[names[k + i]]]

\* nodesIn has the nodes of the first k groups, each for the last it is in.
HomesUpTo(v, spec, n, k) == {i \in Homes(v, spec, n) : i <= k}

Mapped(v, spec, k, nodesIn) ==
  /\ DOMAIN nodesIn = {n \in Nodes : HomesUpTo(v, spec, n, k) # {}}
  /\ \A n \in DOMAIN nodesIn : nodesIn[n] = TargetNames(spec)[Max(HomesUpTo(v, spec, n, k))]

\* What a request of Filter has read agrees with the view; w is where the pods
\* ran when it listed them.
Follows(v, r, w) ==
  /\ r.pc \notin {"idle", "answered"} /\ r.plugin = "enoughPods" => r.offer = r.nodes
  /\ r.pc \in {"policies", "match", "deploys", "groups"} => r.nodesIn = NoMap
  /\ r.pc = "match" => \E at : Lists(v, at, r.rest, r.pod)
  /\ r.pc = "match" /\ r.rest # <<>> => Deployed(v, r.got, Head(r.rest).selectors)
  /\ r.pc \in {"deploys", "groups", "nodes", "pods"} =>
       Governing(v, r.pod) # {} /\ r.policy = PolicyFor(v, r.pod)
  /\ r.pc = "deploys" /\ ~r.missing =>
       /\ LeftOf(r.policy.selectors, Len(r.got), r.todo)
       /\ Deployed(v, r.got, r.policy.selectors)
  /\ r.plugin = "enoughPods" /\ r.pc \in {"groups", "nodes", "pods"} => r.deploy = DeployFor(v, r.pod)
  /\ r.pc = "groups" =>
       /\ LeftOf(TargetNames(r.policy), Len(r.got), r.todo)
       /\ Grouped(v, r.got, TargetNames(r.policy), 0)
  /\ r.pc = "nodes" =>
       LET k == Len(TargetNames(r.policy)) - Len(r.got)
       IN  /\ k \in Nat
           /\ Grouped(v, r.got, TargetNames(r.policy), k)
           /\ Mapped(v, r.policy, k, r.nodesIn)
  /\ r.pc = "pods" => Mapped(v, r.policy, Len(TargetNames(r.policy)), r.nodesIn)
  /\ r.plugin = "notInNodeGroups" /\ r.pc # "answered" /\ ~r.errs =>
       r.offer \in Reference(v, r.pod, r.nodes, w)
  /\ r.pc = "answered" /\ r.status = 200 => r.offer \in Reference(v, r.pod, r.nodes, w)

\* The inductive invariant.
Tracks == quiet /\ pass.verb = "filter" => Follows(Shown, pass, there)

-----------------------------------------------------------------------------
(***************************************************************************)
(* The choice of a policy and a deployment.                                *)
(***************************************************************************)
\* The view is what the variables hold.
LEMMA ShownIs ==
  /\ Shown.policies = policies /\ Shown.groups = groups
  /\ Shown.nodeLabels = nodeLabels /\ Shown.deploys = deploys
  /\ ObjectsOK => ViewOK(Shown)
BY DEF Shown, ViewOK, ObjectsOK

\* Of the policies that govern a pod, the first decides; it names a deployment
\* that selects the pod.
LEMMA FirstGoverns ==
  ASSUME NEW v, ViewOK(v), NEW p, Governing(v, p) # {}
  PROVE  /\ Min(Governing(v, p)) \in Governing(v, p)
         /\ \A k \in Governing(v, p) : Min(Governing(v, p)) <= k
         /\ PolicyFor(v, p) \in Specs
         /\ Chosen(v, PolicyFor(v, p), p) # {}
<1>1. Governing(v, p) \in SUBSET Nat
  BY PoliciesAreListed DEF Governing
<1>2. Min(Governing(v, p)) \in Governing(v, p) /\ \A k \in Governing(v, p) : Min(Governing(v, p)) <= k
  BY <1>1, MinIsLeast
<1>3. /\ PolicyOrder[Min(Governing(v, p))] \in Policies
      /\ v.policies[PolicyOrder[Min(Governing(v, p))]] # None
      /\ Chosen(v, v.policies[PolicyOrder[Min(Governing(v, p))]], p) # {}
  BY <1>2 DEF Governing, Policies
<1> QED BY <1>2, <1>3 DEF PolicyFor, ViewOK

\* The first of its deployments that selects the pod is there.
LEMMA FirstIsChosen ==
  ASSUME NEW v, ViewOK(v), NEW p, Governing(v, p) # {}
  PROVE  /\ DeployFor(v, p) \in DeploySpecs
         /\ p \in DeployFor(v, p).selects
         /\ \E d \in Deploys : v.deploys[d] # None /\ DeployFor(v, p) = v.deploys[d]
<1> DEFINE spec == PolicyFor(v, p)
           chosen == Chosen(v, spec, p)
<1>1. spec \in Specs /\ chosen # {}
  BY FirstGoverns
<1>2. spec.selectors \in Seq(Deploys \cup {None})
  BY <1>1, SpecsNameThings
<1>3. chosen \in SUBSET Nat
  BY <1>2 DEF Chosen
<1>4. Min(chosen) \in chosen
  <2> HIDE DEF chosen
  <2> QED BY <1>1, <1>3, MinIsLeast
<1>5. PICK d \in Deploys : d = spec.selectors[Min(chosen)] /\ v.deploys[d] # None /\ p \in v.deploys[d].selects
  <2>1. /\ Min(chosen) \in DOMAIN spec.selectors
        /\ spec.selectors[Min(chosen)] # None
        /\ v.deploys[spec.selectors[Min(chosen)]] # None
        /\ p \in v.deploys[spec.selectors[Min(chosen)]].selects
    BY <1>4 DEF Chosen
  <2> HIDE DEF spec, chosen
  <2> QED BY <1>2, <2>1
<1>6. DeployFor(v, p) = v.deploys[d]
  BY <1>5 DEF DeployFor
<1> QED BY <1>5, <1>6 DEF ViewOK

\* A list without policies: none governs the pod.
LEMMA NoneLeft ==
  ASSUME NEW v, NEW p, NEW at, Lists(v, at, <<>>, p)
  PROVE  Governing(v, p) = {}
BY DEF Lists

\* The first policy of the list does not govern the pod: go on with the others.
LEMMA OneLess ==
  ASSUME NEW v, NEW p, NEW list \in Seq(Specs), list # <<>>, NEW at, Lists(v, at, list, p),
         Chosen(v, Head(list), p) = {}
  PROVE  \E to : Lists(v, to, Tail(list), p)
<1> DEFINE n == Len(list)
           rest == Tail(list)
           to == [i \in 1..(n - 1) |-> at[i + 1]]
<1>1. n \in Nat \ {0} /\ Len(rest) = n - 1 /\ \A i \in 1..(n - 1) : rest[i] = list[i + 1]
  OBVIOUS
<1>2. at[1] \notin Governing(v, p)
  <2>1. 1 \in 1..n /\ list[1] = Head(list)
    BY <1>1
  <2>2. list[1] = v.policies[PolicyOrder[at[1]]]
    BY <2>1 DEF Lists
  <2> QED BY <2>1, <2>2 DEF Governing
<1>3. \A i \in 1..(n - 1) : i + 1 \in 1..n
  BY <1>1
<1>4. to \in [1..(n - 1) -> DOMAIN PolicyOrder]
  BY <1>3 DEF Lists
<1>5. \A i \in 1..(n - 1) :
        v.policies[PolicyOrder[to[i]]] # None /\ rest[i] = v.policies[PolicyOrder[to[i]]]
  BY <1>1, <1>3 DEF Lists
<1>6. \A i, j \in 1..(n - 1) : i < j => to[i] < to[j]
  <2> SUFFICES ASSUME NEW i \in 1..(n - 1), NEW j \in 1..(n - 1), i < j PROVE to[i] < to[j]
    OBVIOUS
  <2>1. i + 1 \in 1..n /\ j + 1 \in 1..n /\ i + 1 < j + 1
    BY <1>3
  <2> QED BY <2>1 DEF Lists
<1>7. ASSUME NEW k \in Governing(v, p) PROVE \E i \in 1..(n - 1) : to[i] = k
  <2>1. PICK i \in 1..n : at[i] = k
    BY DEF Lists
  <2>2. i # 1
    BY <1>2, <2>1
  <2>3. i - 1 \in 1..(n - 1) /\ (i - 1) + 1 = i
    BY <1>1, <2>2
  <2>4. to[i - 1] = k
    BY <2>1, <2>3
  <2> QED BY <2>3, <2>4
<1> HIDE DEF to, rest, n
<1>8. Lists(v, to, rest, p)
  BY <1>1, <1>4, <1>5, <1>6, <1>7 DEF Lists
<1> QED BY <1>8 DEF rest

\* The first policy of the list governs the pod: it decides.
LEMMA HeadDecides ==
  ASSUME NEW v, ViewOK(v), NEW p, NEW list \in Seq(Specs), list # <<>>, NEW at, Lists(v, at, list, p),
         Chosen(v, Head(list), p) # {}
  PROVE  Governing(v, p) # {} /\ Head(list) = PolicyFor(v, p)
<1>1. 1 \in 1..Len(list) /\ list[1] = Head(list) /\ Len(list) \in Nat
  OBVIOUS
<1>2. list[1] = v.policies[PolicyOrder[at[1]]] /\ v.policies[PolicyOrder[at[1]]] # None
      /\ at[1] \in DOMAIN PolicyOrder
  BY <1>1 DEF Lists
<1>3. at[1] \in Governing(v, p)
  BY <1>1, <1>2 DEF Governing
<1> DEFINE least == Min(Governing(v, p))
<1>4. least \in Governing(v, p) /\ least <= at[1]
  BY <1>3, FirstGoverns
<1>5. PICK i \in 1..Len(list) : at[i] = least
  BY <1>4 DEF Lists
<1>6. i = 1
  <2>1. i # 1 => 1 < i
    BY <1>1
  <2>2. i # 1 => at[1] < at[i]
    BY <1>1, <2>1 DEF Lists
  <2>3. at[1] \in Nat /\ at[i] \in Nat
    BY <1>1, <1>5, <1>2, <1>4, PoliciesAreListed DEF Governing
  <2> QED BY <1>4, <1>5, <2>2, <2>3
<1> QED BY <1>1, <1>2, <1>3, <1>5, <1>6 DEF PolicyFor

\* With all its deployments fetched, a policy has chosen what the handler finds.
LEMMA FetchedAreChosen ==
  ASSUME NEW v, NEW p, NEW spec \in Specs, NEW got \in Seq(DeploySpecs),
         Len(got) = Len(spec.selectors), Deployed(v, got, spec.selectors)
  PROVE  /\ {i \in DOMAIN got : p \in got[i].selects} = Chosen(v, spec, p)
         /\ Selects(got, p) <=> Chosen(v, spec, p) # {}
<1>1. spec.selectors \in Seq(Deploys \cup {None})
  BY SpecsNameThings
<1>2. DOMAIN got = 1..Len(got) /\ DOMAIN spec.selectors = 1..Len(got)
  BY <1>1
<1>3. {i \in DOMAIN got : p \in got[i].selects} = Chosen(v, spec, p)
  BY <1>2 DEF Chosen, Deployed
<1> QED BY <1>3 DEF Selects

-----------------------------------------------------------------------------
(***************************************************************************)
(* The groups of the nodes.                                                *)
(***************************************************************************)
\* A node counts for the last of the policy's groups it is in, if there is one.
LEMMA HomesAre ==
  ASSUME NEW v, NEW spec \in Specs, NEW n
  PROVE  LET names == TargetNames(spec)
         IN  /\ names \in Seq(Groups)
             /\ Homes(v, spec, n) \in SUBSET (1..Len(names))
             /\ Homes(v, spec, n) # {} => Home(v, spec, n) \in Groups
             /\ Home(v, spec, n) # None <=> Homes(v, spec, n) # {}
<1> DEFINE names == TargetNames(spec)
           in == Homes(v, spec, n)
<1>1. names \in Seq(Groups)
  BY TargetNamesAreGroups
<1>2. in \in SUBSET (1..Len(names))
  BY <1>1 DEF Homes
<1>3. ASSUME in # {} PROVE Home(v, spec, n) \in Groups
  <2>1. Len(names) \in Nat /\ in \in SUBSET (0..Len(names))
    <3>1. \A i \in 1..Len(names) : i \in 0..Len(names)
      BY <1>1
    <3> HIDE DEF names, in
    <3> QED BY <1>1, <1>2, <3>1
  <2>2. Max(in) \in in
    <3> HIDE DEF in, names
    <3> QED BY <1>3, <2>1, MaxIsGreatest
  <2>3. names[Max(in)] \in Groups
    <3>1. Max(in) \in 1..Len(names)
      BY <1>2, <2>2
    <3>2. \A i \in 1..Len(names) : names[i] \in Groups
      <4> HIDE DEF names
      <4> QED BY <1>1
    <3> QED BY <3>1, <3>2
  <2> QED BY <1>3, <2>3 DEF Home, names
<1>4. in = {} => Home(v, spec, n) = None
  BY DEF Home
<1> QED BY <1>1, <1>2, <1>3, <1>4, NoneIsNothing

\* Before the first List no node has a group.
LEMMA NoneMapped ==
  ASSUME NEW v, NEW spec \in Specs
  PROVE  Mapped(v, spec, 0, NoMap)
<1>1. \A n \in Nodes : Homes(v, spec, n) \in SUBSET (1..Len(TargetNames(spec)))
  BY HomesAre
<1>2. \A n \in Nodes : HomesUpTo(v, spec, n, 0) = {}
  BY <1>1 DEF HomesUpTo
<1>3. DOMAIN NoMap = {}
  BY DEF NoMap
<1>4. {n \in Nodes : HomesUpTo(v, spec, n, 0) # {}} = {}
  BY <1>2
<1> QED BY <1>3, <1>4 DEF Mapped

\* The nodes of one group more: they belong to it, whatever they were in before.
LEMMA OneMoreMapped ==
  ASSUME NEW v, NEW spec \in Specs, NEW k \in Nat, k + 1 \in 1..Len(TargetNames(spec)),
         NEW nodesIn, Mapped(v, spec, k, nodesIn),
         v.groups[TargetNames(spec)[k + 1]] # None
  PROVE  LET g == TargetNames(spec)[k + 1]
             nodes == {n \in Nodes : v.groups[g] \subseteq v.nodeLabels[n]}
         IN  Mapped(v, spec, k + 1, AddNodes(nodesIn, nodes, g))
<1> DEFINE names == TargetNames(spec)
           g == names[k + 1]
           nodes == {n \in Nodes : v.groups[g] \subseteq v.nodeLabels[n]}
           more == AddNodes(nodesIn, nodes, g)
<1>1. names \in Seq(Groups)
  BY TargetNamesAreGroups
<1>2. \A n \in Nodes : Homes(v, spec, n) \in SUBSET (1..Len(names))
  BY HomesAre
<1>3. DOMAIN more = nodes \cup DOMAIN nodesIn
      /\ \A n \in DOMAIN more : more[n] = IF n \in nodes THEN g ELSE nodesIn[n]
  BY DEF AddNodes, Put
<1>4. \A n \in Nodes : k + 1 \in Homes(v, spec, n) <=> n \in nodes
  BY <1>1 DEF Homes
<1> HIDE DEF more, nodes, g, names
<1>5. ASSUME NEW n \in nodes
      PROVE  /\ HomesUpTo(v, spec, n, k + 1) # {}
             /\ Max(HomesUpTo(v, spec, n, k + 1)) = k + 1
  <2> DEFINE S == HomesUpTo(v, spec, n, k + 1)
  <2>1. n \in Nodes
    BY DEF nodes
  <2>2. k + 1 \in S /\ \A i \in S : i \in Nat /\ i <= k + 1
    BY <1>2, <1>4, <2>1 DEF HomesUpTo
  <2>3. S \in SUBSET (0..(k + 1)) /\ S # {}
    <3> HIDE DEF S
    <3>1. \A i \in S : i \in 0..(k + 1)
      BY <2>2
    <3> QED BY <2>2, <3>1
  <2>4. Max(S) \in S /\ k + 1 <= Max(S)
    <3> HIDE DEF S
    <3> QED BY <2>2, <2>3, MaxIsGreatest
  <2> HIDE DEF S
  <2>5. Max(S) \in Nat /\ Max(S) <= k + 1
    BY <2>2, <2>4
  <2>6. Max(S) = k + 1
    BY <2>4, <2>5
  <2> QED BY <2>3, <2>6 DEF S
<1>6. ASSUME NEW n \in Nodes, n \notin nodes
      PROVE  HomesUpTo(v, spec, n, k + 1) = HomesUpTo(v, spec, n, k)
  <2>1. \A i \in Homes(v, spec, n) : i \in Nat /\ i # k + 1
    BY <1>2, <1>4, <1>6
  <2>2. \A i \in Homes(v, spec, n) : i <= k + 1 <=> i <= k
    BY <2>1
  <2> QED BY <2>2 DEF HomesUpTo
<1>7. nodes \in SUBSET Nodes /\ DOMAIN nodesIn \in SUBSET Nodes
  BY DEF nodes, Mapped
<1>8. DOMAIN more = {n \in Nodes : HomesUpTo(v, spec, n, k + 1) # {}}
  <2>1. \A n \in Nodes : n \in DOMAIN nodesIn <=> HomesUpTo(v, spec, n, k) # {}
    BY DEF Mapped
  <2>2. \A n \in Nodes : n \in DOMAIN more <=> HomesUpTo(v, spec, n, k + 1) # {}
    BY <1>3, <1>5, <1>6, <2>1
  <2> QED BY <1>3, <1>7, <2>2
<1>9. ASSUME NEW n \in DOMAIN more PROVE more[n] = names[Max(HomesUpTo(v, spec, n, k + 1))]
  <2>1. CASE n \in nodes
    BY <1>3, <1>5, <2>1 DEF g
  <2>2. CASE n \notin nodes
    <3>1. n \in DOMAIN nodesIn /\ n \in Nodes
      BY <1>3, <1>7, <2>2
    <3>2. nodesIn[n] = names[Max(HomesUpTo(v, spec, n, k))]
      BY <3>1 DEF Mapped, names
    <3> QED BY <1>3, <1>6, <2>2, <3>1, <3>2
  <2> QED BY <2>1, <2>2
<1>10. Mapped(v, spec, k + 1, more)
  BY <1>8, <1>9 DEF Mapped, names
<1> QED BY <1>10 DEF more, nodes, g, names

\* With all groups listed, the map has the nodes with a group, each for its own.
LEMMA AllMapped ==
  ASSUME NEW v, NEW spec \in Specs, NEW nodesIn, Mapped(v, spec, Len(TargetNames(spec)), nodesIn)
  PROVE  /\ \A n : n \in DOMAIN nodesIn <=> n \in Nodes /\ Home(v, spec, n) # None
         /\ \A n \in DOMAIN nodesIn : nodesIn[n] = Home(v, spec, n)
<1> DEFINE k == Len(TargetNames(spec))
<1>1. \A n : HomesUpTo(v, spec, n, k) = Homes(v, spec, n)
  <2> SUFFICES ASSUME NEW n PROVE HomesUpTo(v, spec, n, k) = Homes(v, spec, n)
    OBVIOUS
  <2>1. Homes(v, spec, n) \in SUBSET (1..k) /\ k \in Nat
    BY HomesAre
  <2> HIDE DEF k
  <2> QED BY <2>1 DEF HomesUpTo
<1>2. \A n : n \in DOMAIN nodesIn <=> n \in Nodes /\ Homes(v, spec, n) # {}
  BY <1>1 DEF Mapped
<1>3. \A n : Home(v, spec, n) # None <=> Homes(v, spec, n) # {}
  BY HomesAre
<1>4. \A n \in DOMAIN nodesIn : nodesIn[n] = TargetNames(spec)[Max(Homes(v, spec, n))]
  BY <1>1 DEF Mapped
<1> QED BY <1>2, <1>3, <1>4 DEF Home

-----------------------------------------------------------------------------
(***************************************************************************)
(* What enoughPodsFilter counts.                                           *)
(***************************************************************************)
\* The pods it counts for a group are those of the deployment that run there.
LEMMA CountsAgree ==
  ASSUME NEW v, NEW p, PolicyFor(v, p) \in Specs, DeployFor(v, p) \in DeploySpecs,
         NEW nodesIn, Mapped(v, PolicyFor(v, p), Len(TargetNames(PolicyFor(v, p))), nodesIn),
         NEW where \in [Pods -> Nodes \cup {None}],
         NEW listing \in SUBSET DeployFor(v, p).selects,
         \A o \in DeployFor(v, p).selects \ listing : where[o] = None,
         NEW g, g # None
  PROVE  Lookup(CurrentPodsNum(listing, where, nodesIn), g) = Cardinality(Here(v, p, g, where))
<1> DEFINE spec == PolicyFor(v, p)
           in == {o \in listing : RunsIn(o, g, where, nodesIn)}
           seen == {nodesIn[where[o]] : o \in {q \in listing : where[q] \in DOMAIN nodesIn}}
<1>1. /\ \A n : n \in DOMAIN nodesIn <=> n \in Nodes /\ Home(v, spec, n) # None
      /\ \A n \in DOMAIN nodesIn : nodesIn[n] = Home(v, spec, n)
  BY AllMapped
<1>2. DeployFor(v, p).selects \in SUBSET Pods
  BY DeploysSelectPods
<1>3. ASSUME NEW o \in DeployFor(v, p).selects
      PROVE  o \in in <=> where[o] # None /\ Home(v, spec, where[o]) = g
  <2>1. where[o] \in Nodes \cup {None}
    BY <1>2
  <2>2. o \in in => where[o] # None /\ Home(v, spec, where[o]) = g
    BY <1>1, NoneIsNothing DEF RunsIn
  <2>3. where[o] # None /\ Home(v, spec, where[o]) = g => o \in in
    BY <1>1, <2>1 DEF RunsIn
  <2> QED BY <2>2, <2>3
<1>4. in = Here(v, p, g, where)
  <2>1. in \in SUBSET DeployFor(v, p).selects
    OBVIOUS
  <2> QED BY <1>3, <2>1 DEF Here
<1>5. CurrentPodsNum(listing, where, nodesIn) =
        [h \in seen |-> Cardinality({o \in listing : RunsIn(o, h, where, nodesIn)})]
  BY DEF CurrentPodsNum
<1>6. CASE g \in seen
  BY <1>4, <1>5, <1>6 DEF Lookup
<1>7. CASE g \notin seen
  <2>1. in = {}
    BY <1>7 DEF RunsIn
  <2>2. Cardinality(in) = 0
    BY <2>1, FS_EmptySet
  <2> HIDE DEF in, seen
  <2> QED BY <1>4, <1>5, <1>7, <2>2 DEF Lookup
<1> QED BY <1>6, <1>7

\* So it keeps the nodes of the groups that lack pods.
LEMMA LackingAreKept ==
  ASSUME NEW v, NEW p, PolicyFor(v, p) \in Specs, DeployFor(v, p) \in DeploySpecs,
         NEW nodesIn, Mapped(v, PolicyFor(v, p), Len(TargetNames(PolicyFor(v, p))), nodesIn),
         NEW where \in [Pods -> Nodes \cup {None}],
         NEW listing \in SUBSET DeployFor(v, p).selects,
         \A o \in DeployFor(v, p).selects \ listing : where[o] = None,
         NEW nodes \in SUBSET Nodes, NEW want
  PROVE  {n \in nodes \cap DOMAIN nodesIn :
            Short(CurrentPodsNum(listing, where, nodesIn), want, nodesIn[n])} =
         nodes \cap Lacking(v, p, want, where)
<1> DEFINE current == CurrentPodsNum(listing, where, nodesIn)
<1>1. /\ \A n : n \in DOMAIN nodesIn <=> n \in Nodes /\ Home(v, PolicyFor(v, p), n) # None
      /\ \A n \in DOMAIN nodesIn : nodesIn[n] = Home(v, PolicyFor(v, p), n)
  BY AllMapped
<1>2. \A g : g # None => Lookup(current, g) = Cardinality(Here(v, p, g, where))
  BY CountsAgree
<1> HIDE DEF current
<1>3. ASSUME NEW n \in nodes
      PROVE  n \in DOMAIN nodesIn /\ Short(current, want, nodesIn[n]) <=> n \in Lacking(v, p, want, where)
  BY <1>1, <1>2 DEF Short, Lacking
<1> QED BY <1>3 DEF current

-----------------------------------------------------------------------------
(***************************************************************************)
(* Every step of the handler keeps Follows.                                *)
(***************************************************************************)
\* An answer with an error says nothing.
LEMMA FailureFollows ==
  ASSUME NEW v, NEW w, NEW r, r.pc = "answered", r.status # 200
  PROVE  Follows(v, r, w)
BY DEF Follows

\* An answer that is right.
LEMMA RightAnswerFollows ==
  ASSUME NEW v, NEW w, NEW r, r.pc = "answered", r.offer \in Reference(v, r.pod, r.nodes, w)
  PROVE  Follows(v, r, w)
BY DEF Follows

\* What Answer and Aborted return.
LEMMA AnswerIs ==
  ASSUME PassOK(pass), NEW status, NEW nodes
  PROVE  /\ Answer(status, nodes).pc = "answered"
         /\ Answer(status, nodes).offer = nodes
         /\ pass.verb = "filter" => Answer(status, nodes).status = status
         /\ Answer(status, nodes).verb = pass.verb
         /\ Answer(status, nodes).pod = pass.pod
         /\ Answer(status, nodes).nodes = pass.nodes
         /\ Answer(status, nodes).plugin = pass.plugin
         /\ Aborted.pc = "answered" /\ Aborted.offer = {} /\ Aborted.status = 0
         /\ Aborted.verb = pass.verb /\ Aborted.pod = pass.pod /\ Aborted.nodes = pass.nodes
         /\ Aborted.plugin = pass.plugin
<1>1. pass \in Passes
  BY DEF PassOK
<1>2. "filter" # "prioritize"
  OBVIOUS
<1>3. /\ Aborted.pc = "answered" /\ Aborted.offer = {} /\ Aborted.status = 0
      /\ Aborted.verb = pass.verb /\ Aborted.pod = pass.pod /\ Aborted.nodes = pass.nodes
      /\ Aborted.plugin = pass.plugin
  BY <1>1 DEF Aborted, Passes
<1>4. /\ Answer(status, nodes).pc = "answered"
      /\ Answer(status, nodes).offer = nodes
      /\ pass.verb = "filter" => Answer(status, nodes).status = status
      /\ Answer(status, nodes).verb = pass.verb
      /\ Answer(status, nodes).pod = pass.pod
      /\ Answer(status, nodes).nodes = pass.nodes
      /\ Answer(status, nodes).plugin = pass.plugin
  BY <1>1, <1>2 DEF Answer, Passes
<1> QED BY <1>3, <1>4

\* A plugin that has failed, or whose nodes are right, leaves the request as it
\* should be.
LEMMA PluginFollows ==
  ASSUME PassOK(pass), NEW v, NEW w, Follows(v, pass, w), pass.verb = "filter",
         pass.pc \in {"deploys", "groups", "nodes", "pods"},
         NEW failed \in BOOLEAN, NEW nodes, NEW to,
         failed \/ nodes \in Reference(v, pass.pod, pass.nodes, to)
         \/ (pass.plugin = "notInNodeGroups" /\ pass.errs)
  PROVE  Follows(v, PluginDone(nodes, failed), to)
<1> DEFINE names == TargetNames(pass.policy)
           next == [pass EXCEPT !.pc = "groups", !.plugin = "notInNodeGroups", !.got = <<>>,
                                !.todo = names, !.nodesIn = NoMap,
                                !.offer = nodes, !.errs = failed]
<1>1. pass \in Passes /\ pass.plugin # "diffBased"
  BY DEF PassOK
<1>2. CASE pass.plugin = "enoughPods"
  <2>1. /\ next.pc = "groups" /\ next.plugin = "notInNodeGroups" /\ next.pod = pass.pod
        /\ next.nodes = pass.nodes /\ next.offer = nodes /\ next.errs = failed
        /\ next.policy = pass.policy /\ next.got = <<>> /\ next.todo = names /\ next.nodesIn = NoMap
    BY <1>1 DEF Passes
  <2>2. PluginDone(nodes, failed) = next
    BY <1>2 DEF PluginDone, names
  <2>3. names \in Seq(Groups)
    BY TargetNamesAreGroups DEF PassOK, Phased
  <2>4. LeftOf(names, Len(<<>>), names) /\ Grouped(v, <<>>, names, 0)
    <3> HIDE DEF names
    <3> QED BY <2>3 DEF LeftOf, Grouped
  <2>5. Governing(v, pass.pod) # {} /\ pass.policy = PolicyFor(v, pass.pod)
    BY DEF Follows
  <2>6. ~failed => nodes \in Reference(v, pass.pod, pass.nodes, to)
    BY <1>2
  <2> HIDE DEF next
  <2>7. Follows(v, next, to)
    BY <2>1, <2>4, <2>5, <2>6 DEF Follows, names
  <2> QED BY <2>2, <2>7
<1>3. CASE pass.plugin = "notInNodeGroups"
  <2>1. CASE failed \/ pass.errs
    <3>1. PluginDone(nodes, failed) = Answer(500, {})
      BY <1>3, <2>1 DEF PluginDone
    <3> QED BY <3>1, AnswerIs, FailureFollows
  <2>2. CASE ~failed /\ ~pass.errs
    <3>1. PluginDone(nodes, failed) = Answer(200, nodes)
      BY <1>3, <2>2 DEF PluginDone
    <3>2. nodes \in Reference(v, pass.pod, pass.nodes, to)
      BY <2>2
    <3> DEFINE r == Answer(200, nodes)
    <3>3. r.pc = "answered" /\ r.offer = nodes /\ r.pod = pass.pod /\ r.nodes = pass.nodes
      BY AnswerIs
    <3> HIDE DEF r
    <3>4. Follows(v, r, to)
      BY <3>2, <3>3, RightAnswerFollows
    <3> QED BY <3>1, <3>4 DEF r
  <2> QED BY <2>1, <2>2
<1>4. pass.plugin \in Plugins
  BY <1>1 DEF Passes
<1> QED BY <1>1, <1>2, <1>3, <1>4 DEF Plugins

\* The list of policies holds every one that governs the pod.
LEMMA ListPoliciesFollows ==
  ASSUME ObjectsOK, PassOK(pass), NEW w, Follows(Shown, pass, w), ListPolicies
  PROVE  Follows(Shown, pass', w)
<1> DEFINE next == [pass EXCEPT !.pc = "match", !.rest = Present]
<1>1. pass' = next /\ pass.pc = "policies"
  BY DEF ListPolicies, Step, Serve
<1>2. pass \in Passes /\ pass.got = <<>> /\ pass.plugin # "notInNodeGroups"
  BY <1>1 DEF PassOK, Phased
<1>3. PICK at : Places(at, Present, Len(PolicyOrder))
  BY PresentAreListed DEF ObjectsOK
<1>4. Lists(Shown, at, Present, pass.pod)
  BY <1>3, ShownIs, PoliciesAreListed DEF Places, Lists, Governing
<1>5. /\ next.pc = "match" /\ next.rest = Present /\ next.plugin = pass.plugin
      /\ next.pod = pass.pod /\ next.nodes = pass.nodes /\ next.offer = pass.offer
      /\ next.got = pass.got /\ next.nodesIn = pass.nodesIn
  BY <1>2 DEF Passes
<1> HIDE DEF next
<1>6. Deployed(Shown, <<>>, Head(Present).selectors)
  BY DEF Deployed
<1> QED BY <1>1, <1>2, <1>4, <1>5, <1>6 DEF Follows

\* One deployment more of the first policy.
LEMMA MatchDeployFollows ==
  ASSUME ObjectsOK, PassOK(pass), NEW w, Follows(Shown, pass, w), MatchDeploy
  PROVE  Follows(Shown, pass', w)
<1> DEFINE sel == Head(pass.rest).selectors
           dep == deploys[sel[Len(pass.got) + 1]]
           got == Append(pass.got, dep)
           next == [pass EXCEPT !.got = got]
<1>1. pass' = next /\ pass.pc = "match" /\ pass.rest # <<>>
      /\ sel[Len(pass.got) + 1] # None /\ dep # None
  BY DEF MatchDeploy, Matching, MoreSelectors, NextSelector, Step, Serve
<1>2. pass \in Passes /\ pass.got \in Seq(DeploySpecs) /\ pass.plugin # "notInNodeGroups"
  BY <1>1 DEF PassOK, Phased
<1>3. Deployed(Shown, pass.got, sel)
  BY <1>1 DEF Follows
<1>4. Deployed(Shown, got, sel)
  <2>1. Len(pass.got) \in Nat /\ Len(got) = Len(pass.got) + 1 /\ got[Len(pass.got) + 1] = dep
        /\ \A i \in 1..Len(pass.got) : got[i] = pass.got[i]
    <3> HIDE DEF dep
    <3> QED BY <1>2
  <2>2. \A i \in 1..Len(got) : i \in 1..Len(pass.got) \/ i = Len(pass.got) + 1
    BY <2>1
  <2>3. Shown.deploys[sel[Len(pass.got) + 1]] = dep
    BY ShownIs
  <2> HIDE DEF got, dep, sel
  <2> QED BY <1>1, <1>3, <2>1, <2>2, <2>3 DEF Deployed
<1>5. /\ next.pc = pass.pc /\ next.rest = pass.rest /\ next.plugin = pass.plugin
      /\ next.pod = pass.pod /\ next.nodes = pass.nodes /\ next.offer = pass.offer
      /\ next.got = got /\ next.nodesIn = pass.nodesIn
  BY <1>2 DEF Passes
<1> HIDE DEF next, got, dep
<1> QED BY <1>1, <1>2, <1>4, <1>5 DEF Follows

\* With all its deployments there, the first policy of the list has been read.
LEMMA HeadIsRead ==
  ASSUME ObjectsOK, PassOK(pass), NEW w, Follows(Shown, pass, w), Matching, ~MoreSelectors
  PROVE  LET spec == Head(pass.rest)
         IN  /\ spec \in Specs /\ spec.selectors \in Seq(Deploys \cup {None})
             /\ Selects(pass.got, pass.pod) <=> Chosen(Shown, spec, pass.pod) # {}
<1> DEFINE spec == Head(pass.rest)
<1>1. pass.pc = "match" /\ pass.rest # <<>>
  BY DEF Matching
<1>2. spec \in Specs /\ spec.selectors \in Seq(Deploys \cup {None})
  BY <1>1, HeadHasSelectors
<1>3. pass.got \in Seq(DeploySpecs) /\ Len(pass.got) <= Len(spec.selectors)
  BY <1>1 DEF PassOK, Phased, Fetching
<1>4. Len(pass.got) = Len(spec.selectors)
  BY <1>2, <1>3 DEF MoreSelectors
<1>5. Deployed(Shown, pass.got, spec.selectors)
  BY <1>1 DEF Follows
<1> HIDE DEF spec
<1>6. Selects(pass.got, pass.pod) <=> Chosen(Shown, spec, pass.pod) # {}
  BY <1>2, <1>3, <1>4, <1>5, FetchedAreChosen
<1> QED BY <1>2, <1>6 DEF spec

\* The policy that matches is the one that decides.
LEMMA PolicyMatchesFollows ==
  ASSUME ObjectsOK, PassOK(pass), NEW w, Follows(Shown, pass, w), PolicyMatches
  PROVE  Follows(Shown, pass', w)
<1> DEFINE spec == Head(pass.rest)
           next == [pass EXCEPT !.pc = "deploys", !.policy = spec, !.rest = <<>>,
                                !.todo = spec.selectors, !.got = <<>>]
<1>1. pass' = next /\ pass.pc = "match" /\ pass.rest # <<>> /\ Selects(pass.got, pass.pod)
      /\ Matching /\ ~MoreSelectors
  BY DEF PolicyMatches, Matching, Step, Serve
<1>2. pass \in Passes /\ pass.plugin # "notInNodeGroups" /\ pass.rest \in Seq(Specs)
  BY <1>1 DEF PassOK, Phased, Passes
<1>3. spec.selectors \in Seq(Deploys \cup {None}) /\ Chosen(Shown, spec, pass.pod) # {}
  BY <1>1, HeadIsRead
<1>4. PICK at : Lists(Shown, at, pass.rest, pass.pod)
  BY <1>1 DEF Follows
<1>5. Governing(Shown, pass.pod) # {} /\ spec = PolicyFor(Shown, pass.pod)
  BY <1>1, <1>2, <1>3, <1>4, HeadDecides, ShownIs
<1> HIDE DEF spec
<1>6. LeftOf(spec.selectors, Len(<<>>), spec.selectors) /\ Deployed(Shown, <<>>, spec.selectors)
  BY <1>3 DEF LeftOf, Deployed
<1>7. /\ next.pc = "deploys" /\ next.rest = <<>> /\ next.plugin = pass.plugin
      /\ next.pod = pass.pod /\ next.nodes = pass.nodes /\ next.offer = pass.offer
      /\ next.got = <<>> /\ next.todo = spec.selectors /\ next.policy = spec
      /\ next.nodesIn = pass.nodesIn
  BY <1>2 DEF Passes
<1> HIDE DEF next
<1> QED BY <1>1, <1>2, <1>5, <1>6, <1>7 DEF Follows

\* A policy that does not match does not govern the pod.
LEMMA PolicyDoesNotMatchFollows ==
  ASSUME ObjectsOK, PassOK(pass), NEW w, Follows(Shown, pass, w), PolicyDoesNotMatch
  PROVE  Follows(Shown, pass', w)
<1> DEFINE next == [pass EXCEPT !.rest = Tail(pass.rest), !.got = <<>>]
<1>1. pass' = next /\ pass.pc = "match" /\ pass.rest # <<>> /\ ~Selects(pass.got, pass.pod)
      /\ Matching /\ ~MoreSelectors
  BY DEF PolicyDoesNotMatch, Matching, Step, Serve
<1>2. pass \in Passes /\ pass.plugin # "notInNodeGroups" /\ pass.rest \in Seq(Specs)
  BY <1>1 DEF PassOK, Phased, Passes
<1>3. Chosen(Shown, Head(pass.rest), pass.pod) = {}
  BY <1>1, HeadIsRead
<1>4. PICK at : Lists(Shown, at, pass.rest, pass.pod)
  BY <1>1 DEF Follows
<1>5. \E to : Lists(Shown, to, Tail(pass.rest), pass.pod)
  BY <1>1, <1>2, <1>3, <1>4, OneLess
<1>6. Deployed(Shown, <<>>, Head(Tail(pass.rest)).selectors)
  BY DEF Deployed
<1>7. /\ next.pc = pass.pc /\ next.rest = Tail(pass.rest) /\ next.plugin = pass.plugin
      /\ next.pod = pass.pod /\ next.nodes = pass.nodes /\ next.offer = pass.offer
      /\ next.got = <<>> /\ next.nodesIn = pass.nodesIn
  BY <1>2 DEF Passes
<1> HIDE DEF next
<1> QED BY <1>1, <1>2, <1>5, <1>6, <1>7 DEF Follows

\* No policy governs the pod: all its nodes are kept.
LEMMA NoPolicyFollows ==
  ASSUME ObjectsOK, PassOK(pass), NEW w, Follows(Shown, pass, w), NoPolicy
  PROVE  Follows(Shown, pass', w)
<1>1. pass.pc = "match" /\ pass.rest = <<>> /\ pass' = Answer(200, pass.nodes)
  BY DEF NoPolicy, Step, Serve
<1>2. PICK at : Lists(Shown, at, <<>>, pass.pod)
  BY <1>1 DEF Follows
<1>3. Governing(Shown, pass.pod) = {}
  BY <1>2, NoneLeft
<1>4. pass.nodes \in Reference(Shown, pass.pod, pass.nodes, w)
  BY <1>3 DEF Reference
<1> DEFINE r == Answer(200, pass.nodes)
<1>5. r.pc = "answered" /\ r.offer = pass.nodes /\ r.pod = pass.pod /\ r.nodes = pass.nodes
  BY AnswerIs
<1> HIDE DEF r
<1>6. Follows(Shown, r, w)
  BY <1>4, <1>5, RightAnswerFollows
<1> QED BY <1>1, <1>6 DEF r

\* What is left of the names after one more.
LEMMA OneMoreRead ==
  ASSUME NEW names, Len(names) \in Nat, NEW k \in Nat, NEW S, NEW todo \in Seq(S), todo # <<>>,
         LeftOf(names, k, todo)
  PROVE  /\ k + 1 \in 1..Len(names) /\ Head(todo) = names[k + 1]
         /\ LeftOf(names, k + 1, Tail(todo))
<1>1. Len(todo) \in Nat \ {0} /\ Len(Tail(todo)) = Len(todo) - 1 /\ Head(todo) = todo[1]
      /\ \A i \in 1..(Len(todo) - 1) : Tail(todo)[i] = todo[i + 1]
  OBVIOUS
<1>2. k + Len(todo) = Len(names) /\ \A i \in 1..Len(todo) : todo[i] = names[k + i]
  BY DEF LeftOf
<1>3. 1 \in 1..Len(todo) /\ k + 1 \in 1..Len(names) /\ (k + 1) + Len(Tail(todo)) = Len(names)
  BY <1>1, <1>2
<1>4. ASSUME NEW i \in 1..Len(Tail(todo)) PROVE Tail(todo)[i] = names[(k + 1) + i]
  <2>1. i \in 1..(Len(todo) - 1) /\ i + 1 \in 1..Len(todo) /\ k + (i + 1) = (k + 1) + i
    BY <1>1
  <2>2. todo[i + 1] = names[k + (i + 1)]
    BY <1>2, <2>1
  <2> QED BY <1>1, <2>1, <2>2
<1> QED BY <1>1, <1>2, <1>3, <1>4 DEF LeftOf

\* A deployment of the chosen policy is fetched again, or is missing.
LEMMA GetDeployFollows ==
  ASSUME ObjectsOK, PassOK(pass), NEW w, Follows(Shown, pass, w), GetDeploy
  PROVE  Follows(Shown, pass', w)
<1> DEFINE sel == pass.policy.selectors
           dep == deploys[Head(pass.todo)]
           todo == Tail(pass.todo)
           got == Append(pass.got, dep)
           nextNone == [pass EXCEPT !.todo = todo, !.missing = TRUE]
           nextGot == [pass EXCEPT !.todo = todo, !.got = got]
<1>1. pass.pc = "deploys" /\ pass.todo # <<>> /\ pass' = IF dep = None THEN nextNone ELSE nextGot
  BY DEF GetDeploy, Step, Serve
<1>2. pass \in Passes /\ pass.got \in Seq(DeploySpecs) /\ pass.todo \in Seq(Deploys)
      /\ pass.plugin # "notInNodeGroups" /\ pass.policy \in Specs
  BY <1>1 DEF PassOK, Phased
<1>3. sel \in Seq(Deploys \cup {None})
  BY <1>2, SpecsNameThings
<1>4. Governing(Shown, pass.pod) # {} /\ pass.policy = PolicyFor(Shown, pass.pod) /\ pass.nodesIn = NoMap
      /\ (pass.plugin = "enoughPods" => pass.offer = pass.nodes)
  BY <1>1 DEF Follows
<1>5. CASE dep = None
  <2>1. /\ nextNone.pc = pass.pc /\ nextNone.missing = TRUE /\ nextNone.plugin = pass.plugin
        /\ nextNone.pod = pass.pod /\ nextNone.nodes = pass.nodes /\ nextNone.offer = pass.offer
        /\ nextNone.policy = pass.policy /\ nextNone.nodesIn = pass.nodesIn
    BY <1>2 DEF Passes
  <2> HIDE DEF nextNone
  <2>2. Follows(Shown, nextNone, w)
    BY <1>1, <1>2, <1>4, <2>1 DEF Follows
  <2> QED BY <1>1, <1>5, <2>2
<1>6. CASE dep # None
  <2>1. ASSUME ~pass.missing
        PROVE  LeftOf(sel, Len(got), todo) /\ Deployed(Shown, got, sel)
    <3>1. LeftOf(sel, Len(pass.got), pass.todo) /\ Deployed(Shown, pass.got, sel)
      BY <1>1, <2>1 DEF Follows
    <3> DEFINE k == Len(pass.got)
    <3>2. k \in Nat /\ Len(got) = k + 1 /\ got[k + 1] = dep /\ \A i \in 1..k : got[i] = pass.got[i]
      <4> HIDE DEF dep
      <4> QED BY <1>2
    <3>3. Len(sel) \in Nat
      BY <1>3
    <3> HIDE DEF sel
    <3>4. Head(pass.todo) = sel[k + 1] /\ LeftOf(sel, k + 1, todo)
      BY <1>1, <1>2, <3>1, <3>2, <3>3, OneMoreRead
    <3>5. sel[k + 1] # None
      <4>1. Head(pass.todo) \in Deploys
        BY <1>1, <1>2
      <4> QED BY <3>4, <4>1, NoneIsNothing
    <3>6. Shown.deploys[sel[k + 1]] = dep
      BY <3>4, ShownIs
    <3>7. \A i \in 1..Len(got) : i \in 1..k \/ i = k + 1
      BY <3>2
    <3> HIDE DEF dep, got, todo
    <3>8. Deployed(Shown, got, sel)
      BY <1>6, <3>1, <3>2, <3>5, <3>6, <3>7 DEF Deployed
    <3> QED BY <3>2, <3>4, <3>8
  <2>2. /\ nextGot.pc = pass.pc /\ nextGot.missing = pass.missing /\ nextGot.plugin = pass.plugin
        /\ nextGot.pod = pass.pod /\ nextGot.nodes = pass.nodes /\ nextGot.offer = pass.offer
        /\ nextGot.policy = pass.policy /\ nextGot.nodesIn = pass.nodesIn
        /\ nextGot.todo = todo /\ nextGot.got = got
    BY <1>2 DEF Passes
  <2>3. pass' = nextGot
    BY <1>1, <1>6
  <2> HIDE DEF nextGot, got, todo
  <2>4. Follows(Shown, nextGot, w)
    BY <1>1, <1>2, <1>4, <2>1, <2>2 DEF Follows
  <2> QED BY <2>3, <2>4
<1> QED BY <1>5, <1>6

\* The deployment that is found is the one the pod belongs to.
LEMMA DeployFoundFollows ==
  ASSUME ObjectsOK, PassOK(pass), NEW w, Follows(Shown, pass, w), DeployFound
  PROVE  Follows(Shown, pass', w)
<1> DEFINE spec == pass.policy
           selecting == {i \in DOMAIN pass.got : pass.pod \in pass.got[i].selects}
           dep == pass.got[Min(selecting)]
           names == TargetNames(pass.policy)
           next == [pass EXCEPT !.pc = "groups", !.deploy = dep, !.got = <<>>, !.todo = names]
<1>1. pass.pc = "deploys" /\ pass.todo = <<>> /\ ~pass.missing /\ Selects(pass.got, pass.pod)
      /\ pass' = next
  BY DEF DeployFound, Step, Serve
<1>2. pass \in Passes /\ pass.got \in Seq(DeploySpecs) /\ spec \in Specs
      /\ pass.plugin # "notInNodeGroups"
  BY <1>1 DEF PassOK, Phased
<1>3. /\ LeftOf(spec.selectors, Len(pass.got), pass.todo) /\ Deployed(Shown, pass.got, spec.selectors)
      /\ Governing(Shown, pass.pod) # {} /\ spec = PolicyFor(Shown, pass.pod) /\ pass.nodesIn = NoMap
      /\ (pass.plugin = "enoughPods" => pass.offer = pass.nodes)
  BY <1>1 DEF Follows
<1>4. Len(pass.got) = Len(spec.selectors)
  <2>1. Len(pass.got) + 0 = Len(spec.selectors)
    BY <1>1, <1>3 DEF LeftOf
  <2> QED BY <1>2, <2>1
<1>5. selecting = Chosen(Shown, spec, pass.pod) /\ Chosen(Shown, spec, pass.pod) # {}
  BY <1>1, <1>2, <1>3, <1>4, FetchedAreChosen
<1>6. dep = DeployFor(Shown, pass.pod)
  <2>1. Chosen(Shown, spec, pass.pod) \in SUBSET Nat
    <3>1. spec.selectors \in Seq(Deploys \cup {None})
      BY <1>2, SpecsNameThings
    <3> QED BY <3>1 DEF Chosen
  <2>2. Min(selecting) \in Chosen(Shown, spec, pass.pod)
    <3> HIDE DEF selecting
    <3> QED BY <1>5, <2>1, MinIsLeast
  <2>3. Min(selecting) \in 1..Len(pass.got)
    <3>1. Min(selecting) \in DOMAIN pass.got
      BY <1>5, <2>2
    <3> QED BY <1>2, <3>1
  <2>4. dep = Shown.deploys[spec.selectors[Min(selecting)]]
    BY <1>3, <2>3 DEF Deployed
  <2> HIDE DEF selecting, dep
  <2> QED BY <1>3, <1>5, <2>4 DEF DeployFor
<1>7. LeftOf(names, Len(<<>>), names) /\ Grouped(Shown, <<>>, names, 0)
  <2>1. names \in Seq(Groups)
    BY <1>2, TargetNamesAreGroups
  <2> HIDE DEF names
  <2> QED BY <2>1 DEF LeftOf, Grouped
<1>8. /\ next.pc = "groups" /\ next.plugin = pass.plugin /\ next.deploy = dep
      /\ next.pod = pass.pod /\ next.nodes = pass.nodes /\ next.offer = pass.offer
      /\ next.policy = pass.policy /\ next.nodesIn = pass.nodesIn
      /\ next.todo = names /\ next.got = <<>>
  BY <1>2 DEF Passes
<1> HIDE DEF next, dep
<1>9. Follows(Shown, next, w)
  BY <1>2, <1>3, <1>6, <1>7, <1>8 DEF Follows, names
<1> QED BY <1>1, <1>9

\* One group more.
LEMMA GetGroupFollows ==
  ASSUME ObjectsOK, PassOK(pass), pass.verb = "filter", NEW w, Follows(Shown, pass, w), GetGroup
  PROVE  Follows(Shown, pass', w)
<1> DEFINE names == TargetNames(pass.policy)
           g == Head(pass.todo)
           todo == Tail(pass.todo)
           fetched == [name |-> g, labels |-> groups[g]]
           got == Append(pass.got, fetched)
           next == [pass EXCEPT !.todo = todo, !.got = got]
<1>1. pass.pc = "groups" /\ pass.todo # <<>>
      /\ pass' = IF groups[g] = None THEN PluginDone({}, TRUE) ELSE next
  BY DEF GetGroup, Step, Serve
<1>2. pass \in Passes /\ pass.got \in Seq(Fetched) /\ pass.todo \in Seq(Groups) /\ pass.policy \in Specs
  BY <1>1 DEF PassOK, Phased
<1>3. CASE groups[g] = None
  <2>1. Follows(Shown, PluginDone({}, TRUE), w)
    BY <1>1, PluginFollows
  <2> QED BY <1>1, <1>3, <2>1
<1>4. CASE groups[g] # None
  <2>1. LeftOf(names, Len(pass.got), pass.todo) /\ Grouped(Shown, pass.got, names, 0)
    BY <1>1 DEF Follows
  <2>2. Len(names) \in Nat
    <3>1. names \in Seq(Groups)
      BY <1>2, TargetNamesAreGroups
    <3> HIDE DEF names
    <3> QED BY <3>1
  <2> DEFINE k == Len(pass.got)
  <2>3. k \in Nat /\ Len(got) = k + 1 /\ got[k + 1] = fetched /\ \A i \in 1..k : got[i] = pass.got[i]
    <3> HIDE DEF fetched
    <3> QED BY <1>2
  <2> HIDE DEF names
  <2>4. g = names[k + 1] /\ LeftOf(names, k + 1, todo)
    BY <1>1, <1>2, <2>1, <2>2, <2>3, OneMoreRead
  <2>5. Shown.groups[names[k + 1]] = groups[g]
    BY <2>4, ShownIs
  <2>6. \A i \in 1..Len(got) : (i \in 1..k \/ i = k + 1) /\ 0 + i = i
    BY <2>3
  <2>7. Grouped(Shown, got, names, 0)
    <3> HIDE DEF got, todo, g
    <3>1. \A i \in 1..k : Shown.groups[names[i]] # None
                          /\ pass.got[i] = [name |-> names[i], labels |-> Shown.groups[names[i]]]
      <4>1. \A i \in 1..k : 0 + i = i
        BY <2>3
      <4> QED BY <2>1, <4>1 DEF Grouped
    <3> SUFFICES ASSUME NEW i \in 1..Len(got)
                 PROVE  Shown.groups[names[i]] # None
                        /\ got[i] = [name |-> names[i], labels |-> Shown.groups[names[i]]]
      BY <2>6 DEF Grouped
    <3>2. CASE i \in 1..k
      BY <2>3, <3>1, <3>2
    <3>3. CASE i = k + 1
      BY <1>4, <2>3, <2>4, <2>5, <3>3
    <3> QED BY <2>6, <3>2, <3>3
  <2>8. /\ next.pc = pass.pc /\ next.plugin = pass.plugin /\ next.deploy = pass.deploy
        /\ next.pod = pass.pod /\ next.nodes = pass.nodes /\ next.offer = pass.offer
        /\ next.policy = pass.policy /\ next.nodesIn = pass.nodesIn /\ next.errs = pass.errs
        /\ next.todo = todo /\ next.got = got
    BY <1>2 DEF Passes
  <2>9. pass' = next
    BY <1>1, <1>4
  <2> HIDE DEF next, got, todo
  <2>10. Follows(Shown, next, w)
    BY <1>1, <2>3, <2>4, <2>7, <2>8 DEF Follows, names
  <2> QED BY <2>9, <2>10
<1> QED BY <1>3, <1>4

\* All groups are there; no node has been listed yet.
LEMMA GroupsFetchedFollows ==
  ASSUME ObjectsOK, PassOK(pass), NEW w, Follows(Shown, pass, w), GroupsFetched
  PROVE  Follows(Shown, pass', w)
<1> DEFINE names == TargetNames(pass.policy)
           next == [pass EXCEPT !.pc = "nodes"]
<1>1. pass.pc = "groups" /\ pass.todo = <<>> /\ pass' = next
  BY DEF GroupsFetched, Step, Serve
<1>2. pass \in Passes /\ pass.got \in Seq(Fetched) /\ pass.policy \in Specs
  BY <1>1 DEF PassOK, Phased
<1>3. LeftOf(names, Len(pass.got), <<>>) /\ Grouped(Shown, pass.got, names, 0) /\ pass.nodesIn = NoMap
  BY <1>1 DEF Follows
<1>4. Len(names) \in Nat
  <2>1. names \in Seq(Groups)
    BY <1>2, TargetNamesAreGroups
  <2> HIDE DEF names
  <2> QED BY <2>1
<1>5. Len(names) - Len(pass.got) = 0
  <2>1. Len(pass.got) + 0 = Len(names)
    BY <1>3 DEF LeftOf
  <2> HIDE DEF names
  <2> QED BY <1>2, <1>4, <2>1
<1>6. Mapped(Shown, pass.policy, 0, NoMap)
  BY <1>2, NoneMapped
<1>7. /\ next.pc = "nodes" /\ next.plugin = pass.plugin /\ next.deploy = pass.deploy
      /\ next.pod = pass.pod /\ next.nodes = pass.nodes /\ next.offer = pass.offer
      /\ next.policy = pass.policy /\ next.nodesIn = pass.nodesIn /\ next.errs = pass.errs
      /\ next.got = pass.got
  BY <1>2 DEF Passes
<1> HIDE DEF next
<1> DEFINE left == Len(TargetNames(next.policy)) - Len(next.got)
<1>8. left = 0 /\ Grouped(Shown, next.got, TargetNames(next.policy), left)
      /\ Mapped(Shown, next.policy, left, next.nodesIn)
  BY <1>3, <1>5, <1>6, <1>7
<1>9. left \in Nat
  BY <1>8
<1> HIDE DEF names
<1>10. Follows(Shown, next, w)
  BY <1>1, <1>7, <1>8, <1>9 DEF Follows
<1> QED BY <1>1, <1>10

\* The nodes of one group more.
LEMMA ListNodesFollows ==
  ASSUME ObjectsOK, PassOK(pass), NEW w, Follows(Shown, pass, w), ListNodes
  PROVE  Follows(Shown, pass', w)
<1> DEFINE names == TargetNames(pass.policy)
           g == Head(pass.got)
           got == Tail(pass.got)
           nodesIn == AddNodes(pass.nodesIn, NodesWith(g.labels), g.name)
           next == [pass EXCEPT !.got = got, !.nodesIn = nodesIn]
           k == Len(names) - Len(pass.got)
<1>1. pass.pc = "nodes" /\ pass.got # <<>> /\ pass' = next
  BY DEF ListNodes, Step, Serve
<1>2. pass \in Passes /\ pass.got \in Seq(Fetched) /\ pass.policy \in Specs
  BY <1>1 DEF PassOK, Phased
<1>3. k \in Nat /\ Grouped(Shown, pass.got, names, k) /\ Mapped(Shown, pass.policy, k, pass.nodesIn)
  BY <1>1 DEF Follows
<1>4. Len(names) \in Nat
  <2>1. names \in Seq(Groups)
    BY <1>2, TargetNamesAreGroups
  <2> HIDE DEF names
  <2> QED BY <2>1
<1>5. /\ Len(pass.got) \in Nat \ {0} /\ Len(got) = Len(pass.got) - 1 /\ g = pass.got[1]
      /\ \A i \in 1..(Len(pass.got) - 1) : got[i] = pass.got[i + 1]
  BY <1>1, <1>2
<1> HIDE DEF names
<1>6. k + 1 \in 1..Len(names) /\ Len(names) - Len(got) = k + 1 /\ 1 \in 1..Len(pass.got)
  <2>1. Len(pass.got) \in Nat \ {0} /\ Len(got) = Len(pass.got) - 1 /\ k \in Nat
    BY <1>3, <1>5
  <2> HIDE DEF got
  <2> QED BY <1>4, <2>1
<1>7. Shown.groups[names[k + 1]] # None
      /\ g = [name |-> names[k + 1], labels |-> Shown.groups[names[k + 1]]]
  BY <1>3, <1>5, <1>6 DEF Grouped
<1>8. /\ g.name = names[k + 1]
      /\ NodesWith(g.labels) = {n \in Nodes : Shown.groups[names[k + 1]] \subseteq Shown.nodeLabels[n]}
  <2> HIDE DEF g, k
  <2>1. g.name = names[k + 1] /\ g.labels = Shown.groups[names[k + 1]]
    BY <1>7
  <2> QED BY <2>1, ShownIs DEF NodesWith
<1>9. Mapped(Shown, pass.policy, k + 1, nodesIn)
  <2> HIDE DEF g, k
  <2> QED BY <1>2, <1>3, <1>6, <1>7, <1>8, OneMoreMapped DEF names
<1>10. Grouped(Shown, got, names, k + 1)
  <2> SUFFICES ASSUME NEW i \in 1..Len(got)
               PROVE  /\ Shown.groups[names[(k + 1) + i]] # None
                      /\ got[i] = [name |-> names[(k + 1) + i], labels |-> Shown.groups[names[(k + 1) + i]]]
    BY DEF Grouped
  <2> HIDE DEF k, got
  <2>1. i \in 1..(Len(pass.got) - 1) /\ i + 1 \in 1..Len(pass.got) /\ k + (i + 1) = (k + 1) + i
    BY <1>3, <1>5
  <2>2. /\ Shown.groups[names[k + (i + 1)]] # None
        /\ pass.got[i + 1] = [name |-> names[k + (i + 1)], labels |-> Shown.groups[names[k + (i + 1)]]]
    BY <1>3, <2>1 DEF Grouped
  <2> QED BY <1>5, <2>1, <2>2
<1>11. /\ next.pc = pass.pc /\ next.plugin = pass.plugin /\ next.deploy = pass.deploy
       /\ next.pod = pass.pod /\ next.nodes = pass.nodes /\ next.offer = pass.offer
       /\ next.policy = pass.policy /\ next.nodesIn = nodesIn /\ next.errs = pass.errs
       /\ next.got = got
  BY <1>2 DEF Passes
<1>12. k + 1 \in Nat
  BY <1>3
<1> HIDE DEF next, nodesIn, got, k
<1>13. Follows(Shown, next, w)
  BY <1>1, <1>6, <1>9, <1>10, <1>11, <1>12 DEF Follows, names
<1> QED BY <1>1, <1>13

\* The nodes of all groups have been listed.
LEMMA AllListed ==
  ASSUME PassOK(pass), NEW v, NEW w, Follows(v, pass, w), pass.pc = "nodes", pass.got = <<>>
  PROVE  Mapped(v, pass.policy, Len(TargetNames(pass.policy)), pass.nodesIn) /\ pass.policy \in Specs
<1> DEFINE names == TargetNames(pass.policy)
<1>1. pass.policy \in Specs
  BY DEF PassOK, Phased
<1>2. names \in Seq(Groups)
  BY <1>1, TargetNamesAreGroups
<1>3. Mapped(v, pass.policy, Len(names) - Len(<<>>), pass.nodesIn)
  BY DEF Follows
<1>4. Len(names) - Len(<<>>) = Len(names)
  <2> HIDE DEF names
  <2> QED BY <1>2
<1> QED BY <1>1, <1>3, <1>4

\* The handler goes on to list the pods.
LEMMA NodesListedFollows ==
  ASSUME ObjectsOK, PassOK(pass), NEW w, Follows(Shown, pass, w), NodesListed
  PROVE  Follows(Shown, pass', w)
<1> DEFINE next == [pass EXCEPT !.pc = "pods"]
<1>1. pass.pc = "nodes" /\ pass.got = <<>> /\ pass.plugin # "notInNodeGroups" /\ pass' = next
  BY DEF NodesListed, Step, Serve
<1>2. pass \in Passes
  BY DEF PassOK
<1>3. Mapped(Shown, pass.policy, Len(TargetNames(pass.policy)), pass.nodesIn)
  BY <1>1, AllListed
<1>4. /\ next.pc = "pods" /\ next.plugin = pass.plugin /\ next.deploy = pass.deploy
      /\ next.pod = pass.pod /\ next.nodes = pass.nodes /\ next.offer = pass.offer
      /\ next.policy = pass.policy /\ next.nodesIn = pass.nodesIn
  BY <1>2 DEF Passes
<1> HIDE DEF next
<1>5. Follows(Shown, next, w)
  BY <1>1, <1>3, <1>4 DEF Follows
<1> QED BY <1>1, <1>5

\* The second plugin takes nothing away from what the first has kept: nodes of
\* groups that lack pods are nodes of groups.
LEMMA NotInNodeGroupsFollows ==
  ASSUME ObjectsOK, PassOK(pass), pass.verb = "filter", NEW w, Follows(Shown, pass, w), NotInNodeGroups
  PROVE  Follows(Shown, pass', w)
<1> DEFINE kept == pass.offer \cap DOMAIN pass.nodesIn
<1>1. pass.pc = "nodes" /\ pass.got = <<>> /\ pass.plugin = "notInNodeGroups"
      /\ pass' = PluginDone(kept, FALSE)
  BY DEF NotInNodeGroups, Step, Serve
<1>2. ASSUME ~pass.errs PROVE kept \in Reference(Shown, pass.pod, pass.nodes, w)
  <2>1. pass.offer \in Reference(Shown, pass.pod, pass.nodes, w)
        /\ Governing(Shown, pass.pod) # {} /\ pass.policy = PolicyFor(Shown, pass.pod)
    BY <1>1, <1>2 DEF Follows
  <2>2. PICK want : pass.offer = pass.nodes \cap Lacking(Shown, pass.pod, want, w)
    BY <2>1 DEF Reference
  <2>3. \A n \in pass.offer : n \in Nodes /\ Home(Shown, pass.policy, n) # None
    BY <2>1, <2>2 DEF Lacking
  <2>4. pass.offer \subseteq DOMAIN pass.nodesIn
    BY <1>1, <2>3, AllListed, AllMapped
  <2>5. kept = pass.offer
    BY <2>4
  <2> QED BY <2>1, <2>5
<1> HIDE DEF kept
<1>3. Follows(Shown, PluginDone(kept, FALSE), w)
  BY <1>1, <1>2, PluginFollows
<1> QED BY <1>1, <1>3

\* The first plugin keeps the nodes of groups that lack pods, counting the pods
\* where they run as it lists them.
LEMMA EnoughPodsFollows ==
  ASSUME ObjectsOK, PodsOK, PassOK(pass), pass.verb = "filter", NEW w, Follows(Shown, pass, w), EnoughPods
  PROVE  Follows(Shown, pass', NodeOf)
<1> DEFINE p == pass.pod
<1>1. pass.pc = "pods" /\ pass.plugin = "enoughPods"
  BY DEF EnoughPods
<1>2. /\ Governing(Shown, p) # {} /\ pass.policy = PolicyFor(Shown, p) /\ pass.deploy = DeployFor(Shown, p)
      /\ pass.offer = pass.nodes
      /\ Mapped(Shown, pass.policy, Len(TargetNames(pass.policy)), pass.nodesIn)
  BY <1>1 DEF Follows
<1>3. pass.policy \in Specs /\ pass.deploy \in DeploySpecs
  BY <1>1 DEF PassOK, Phased
<1>4. pass.nodes \in SUBSET Nodes
  <2>1. pass.nodes \in NodeSets
    BY DEF PassOK, Passes
  <2> QED BY <2>1 DEF NodeSets
<1>5. NodeOf \in [Pods -> Nodes \cup {None}]
  BY DEF PodsOK, PodStates, NodeOf
<1>6. PodsOf(pass.deploy) \in SUBSET pass.deploy.selects
      /\ \A o \in pass.deploy.selects \ PodsOf(pass.deploy) : NodeOf[o] = None
  <2>1. pass.deploy.selects \subseteq Pods
    BY <1>3, DeploysSelectPods
  <2> QED BY <2>1 DEF PodsOf, NodeOf
<1>7. PICK desired \in DesiredPodsNum(pass.policy.weights, pass.deploy.size) :
        pass' = PluginDone({n \in pass.offer \cap DOMAIN pass.nodesIn :
                  Short(CurrentPodsNum(PodsOf(pass.deploy), NodeOf, pass.nodesIn), desired, pass.nodesIn[n])},
                  FALSE)
  BY DEF EnoughPods, Serve
<1> DEFINE kept == {n \in pass.nodes \cap DOMAIN pass.nodesIn :
                      Short(CurrentPodsNum(PodsOf(pass.deploy), NodeOf, pass.nodesIn), desired, pass.nodesIn[n])}
<1>8. kept = pass.nodes \cap Lacking(Shown, p, desired, NodeOf)
  BY <1>2, <1>3, <1>4, <1>5, <1>6, LackingAreKept
<1>9. desired \in Wants(Shown, p)
  BY <1>2, <1>7 DEF Wants
<1>10. pass' = PluginDone(kept, FALSE)
  BY <1>2, <1>7
<1> HIDE DEF kept
<1>11. kept \in Reference(Shown, p, pass.nodes, NodeOf)
  BY <1>2, <1>8, <1>9 DEF Reference
<1>12. Follows(Shown, PluginDone(kept, FALSE), NodeOf)
  BY <1>1, <1>11, PluginFollows
<1> QED BY <1>10, <1>12

\* The steps that end a plugin, or the request, with an error.
LEMMA FailingFollows ==
  ASSUME ObjectsOK, PassOK(pass), pass.verb = "filter", NEW w, Follows(Shown, pass, w),
         \/ MatchFails \/ DeployNotFetched \/ PluginPanics \/ DiffBased
         \/ ReadFails \/ Undecodable \/ ServerDies
  PROVE  Follows(Shown, pass', w)
<1>1. CASE MatchFails \/ Undecodable \/ PluginPanics \/ DiffBased \/ ServerDies
  <2>1. \/ pass' = Answer(500, {}) \/ pass' = Answer(400, {}) \/ pass' = Aborted
    BY <1>1 DEF MatchFails, Undecodable, PluginPanics, DiffBased, ServerDies, Step, Serve
  <2> QED BY <2>1, AnswerIs, FailureFollows
<1>2. CASE DeployNotFetched
  <2>1. pass.pc = "deploys" /\ pass' = PluginDone({}, TRUE)
    BY <1>2 DEF DeployNotFetched, Step, Serve
  <2> QED BY <2>1, PluginFollows
<1>3. CASE ReadFails
  <2> DEFINE next == [pass EXCEPT !.todo = Tail(pass.todo), !.missing = TRUE]
  <2>1. \/ pass' = Answer(500, {})
        \/ pass.pc = "deploys" /\ pass' = next
        \/ pass.pc \in {"groups", "nodes", "pods"} /\ pass' = PluginDone({}, TRUE)
    BY <1>3 DEF ReadFails
  <2>2. CASE pass.pc = "deploys" /\ pass' = next
    <3>1. pass \in Passes /\ pass.plugin # "notInNodeGroups"
      BY <2>2 DEF PassOK, Phased
    <3>2. /\ next.pc = pass.pc /\ next.missing = TRUE /\ next.plugin = pass.plugin
          /\ next.pod = pass.pod /\ next.nodes = pass.nodes /\ next.offer = pass.offer
          /\ next.policy = pass.policy /\ next.nodesIn = pass.nodesIn
      BY <3>1 DEF Passes
    <3> HIDE DEF next
    <3>3. Follows(Shown, next, w)
      BY <2>2, <3>1, <3>2 DEF Follows
    <3> QED BY <2>2, <3>3
  <2> HIDE DEF next
  <2>3. CASE pass' = Answer(500, {})
    BY <2>3, AnswerIs, FailureFollows
  <2>4. CASE pass.pc \in {"groups", "nodes", "pods"} /\ pass' = PluginDone({}, TRUE)
    BY <2>4, PluginFollows
  <2> QED BY <2>1, <2>2, <2>3, <2>4
<1> QED BY <1>1, <1>2, <1>3

-----------------------------------------------------------------------------
(***************************************************************************)
(* Filter is as good as atomic.                                            *)
(***************************************************************************)
\* What the handler is asked for.
SameRequest(r, next) == next.verb = r.verb /\ next.pod = r.pod /\ next.nodes = r.nodes

\* What PluginDone returns.
LEMMA PluginDoneIs ==
  ASSUME PassOK(pass), NEW nodes, NEW failed
  PROVE  /\ SameRequest(pass, PluginDone(nodes, failed))
         /\ PluginDone(nodes, failed).offer \in {nodes, {}}
<1>1. pass \in Passes
  BY DEF PassOK
<1> DEFINE next == [pass EXCEPT !.pc = "groups", !.plugin = "notInNodeGroups", !.got = <<>>,
                                !.todo = TargetNames(pass.policy), !.nodesIn = NoMap,
                                !.offer = nodes, !.errs = failed]
<1>2. SameRequest(pass, next) /\ next.offer = nodes
  BY <1>1 DEF Passes, SameRequest
<1>3. PluginDone(nodes, failed) \in {next, Answer(500, {}), Answer(200, nodes)}
  BY DEF PluginDone
<1> HIDE DEF next
<1>4. SameRequest(pass, Answer(500, {})) /\ Answer(500, {}).offer = {}
      /\ SameRequest(pass, Answer(200, nodes)) /\ Answer(200, nodes).offer = nodes
  BY AnswerIs DEF SameRequest
<1> QED BY <1>2, <1>3, <1>4

\* The server changes nothing but the request, and goes on with the same one.
LEMMA ServerKeeps ==
  ASSUME PassOK(pass), Server
  PROVE  SameRequest(pass, pass') /\ UNCHANGED <<objects, pods, edits, quiet>> /\ (EnoughPods \/ UNCHANGED there)
<1>1. pass \in Passes
  BY DEF PassOK
<1>2. SameRequest(pass, Aborted)
      /\ \A status, nodes : SameRequest(pass, Answer(status, nodes))
      /\ \A left, failed : SameRequest(pass, PluginDone(left, failed))
  BY AnswerIs, PluginDoneIs DEF SameRequest
<1>3. CASE ListPolicies \/ MatchDeploy \/ PolicyMatches \/ PolicyDoesNotMatch \/ GetDeploy \/ DeployFound
  BY <1>1, <1>3 DEF ListPolicies, MatchDeploy, PolicyMatches, PolicyDoesNotMatch, GetDeploy, DeployFound,
     Step, Serve, Passes, SameRequest
<1>4. CASE MatchFails \/ NoPolicy \/ DeployNotFetched \/ PluginPanics \/ DiffBased \/ NotInNodeGroups
  BY <1>2, <1>4 DEF MatchFails, NoPolicy, DeployNotFetched, PluginPanics, DiffBased, NotInNodeGroups,
     Step, Serve
<1>5. CASE GetGroup
  <2> DEFINE todo == Tail(pass.todo)
             got == Append(pass.got, [name |-> Head(pass.todo), labels |-> groups[Head(pass.todo)]])
             next == [pass EXCEPT !.todo = todo, !.got = got]
  <2>1. pass' = PluginDone({}, TRUE) \/ pass' = next
    BY <1>5 DEF GetGroup, Step, Serve
  <2> HIDE DEF todo, got
  <2>2. SameRequest(pass, next)
    BY <1>1 DEF Passes, SameRequest
  <2> HIDE DEF next
  <2>3. SameRequest(pass, pass')
    BY <1>2, <2>1, <2>2
  <2> QED BY <1>5, <2>3 DEF GetGroup, Step, Serve
<1>6. CASE GroupsFetched \/ ListNodes \/ NodesListed
  BY <1>1, <1>6 DEF GroupsFetched, ListNodes, NodesListed, Step, Serve, Passes, SameRequest
<1>7. CASE EnoughPods
  BY <1>2, <1>7 DEF EnoughPods, Serve
<1>8. CASE ReadFails
  <2> DEFINE next == [pass EXCEPT !.todo = Tail(pass.todo), !.missing = TRUE]
  <2>1. pass' \in {Answer(500, {}), PluginDone({}, TRUE), next}
    BY <1>8 DEF ReadFails
  <2>2. SameRequest(pass, next)
    BY <1>1 DEF Passes, SameRequest
  <2> HIDE DEF next
  <2>3. SameRequest(pass, pass')
    BY <1>2, <2>1, <2>2
  <2> QED BY <1>8, <2>3 DEF ReadFails
<1>9. CASE Undecodable \/ ServerDies
  BY <1>2, <1>9 DEF Undecodable, ServerDies
<1> QED BY <1>3, <1>4, <1>5, <1>6, <1>7, <1>8, <1>9 DEF Server, Handle

\* The server's steps keep what Filter has read in line with the view.
LEMMA ServerFollows ==
  ASSUME ObjectsOK, PodsOK, PassOK(pass), pass.verb = "filter", Follows(Shown, pass, there), Server
  PROVE  Follows(Shown, pass', there')
<1>1. CASE EnoughPods
  <2>1. there' = NodeOf
    BY <1>1 DEF EnoughPods
  <2> QED BY <1>1, <2>1, EnoughPodsFollows
<1>2. CASE ~EnoughPods
  <2>1. there' = there
    BY <1>2, ServerKeeps
  <2>2. CASE Handle
    BY <1>2, <2>1, <2>2, ListPoliciesFollows, MatchDeployFollows, PolicyMatchesFollows,
       PolicyDoesNotMatchFollows, NoPolicyFollows, GetDeployFollows, DeployFoundFollows, GetGroupFollows,
       GroupsFetchedFollows, ListNodesFollows, NodesListedFollows, NotInNodeGroupsFollows, FailingFollows
       DEF Handle
  <2>3. CASE ReadFails \/ Undecodable \/ ServerDies
    BY <2>1, <2>3, FailingFollows
  <2> QED BY <2>2, <2>3 DEF Server
<1> QED BY <1>1, <1>2

\* A request that has read nothing yet agrees with any view.
LEMMA NothingRead ==
  ASSUME NEW v, NEW w
  PROVE  /\ Follows(v, Idle, w)
         /\ \A p \in Pods, nodes \in SUBSET Nodes : Follows(v, Request("filter", "enoughPods", p, nodes), w)
<1>1. Follows(v, Idle, w)
  BY DEF Follows, Idle
<1>2. ASSUME NEW p \in Pods, NEW nodes \in SUBSET Nodes
      PROVE  Follows(v, Request("filter", "enoughPods", p, nodes), w)
  <2> DEFINE r == Request("filter", "enoughPods", p, nodes)
  <2>1. /\ r.pc = "policies" /\ r.plugin = "enoughPods" /\ r.nodes = nodes /\ r.offer = nodes
    BY RequestTypes
  <2>2. r.nodesIn = NoMap
    <3>1. Idle \in Passes /\ Idle.nodesIn = NoMap
      BY IdleTypes DEF PassOK, Idle
    <3> QED BY <3>1 DEF Request, Passes
  <2> HIDE DEF r
  <2>3. Follows(v, r, w)
    BY <2>1, <2>2 DEF Follows
  <2> QED BY <2>3 DEF r
<1> QED BY <1>1, <1>2

\* Every step keeps the inductive invariant.
LEMMA TracksIsKept == Typed /\ Tracks /\ [Next]_vars => Tracks'
<1> SUFFICES ASSUME Typed, Tracks, [Next]_vars PROVE Tracks'
  OBVIOUS
<1>1. ObjectsOK /\ PodsOK /\ PassOK(pass)
  BY DEF Typed
<1>2. ASSUME UNCHANGED objects PROVE Shown' = Shown
  BY <1>2 DEF Shown, objects
<1>3. CASE Server
  <2>1. UNCHANGED objects /\ quiet' = quiet /\ pass'.verb = pass.verb
    BY <1>1, <1>3, ServerKeeps DEF SameRequest
  <2>2. quiet /\ pass.verb = "filter" => Follows(Shown, pass', there')
    BY <1>1, <1>3, ServerFollows DEF Tracks
  <2> QED BY <1>2, <2>1, <2>2 DEF Tracks
<1>4. CASE \E p \in Pods : Ask(p)
  <2>1. PICK p \in Pods, nodes \in SUBSET Nodes : pass' = Request("filter", "enoughPods", p, nodes)
    BY <1>4, FeasibleAreNodes DEF Ask
  <2>2. \A v, w : Follows(v, pass', w)
    BY <2>1, NothingRead
  <2> QED BY <2>2 DEF Tracks
<1>5. CASE AskForScores
  <2>1. pass' = Request("prioritize", "diffBased", pass.pod, pass.offer) /\ pass.pc = "answered"
    BY <1>5 DEF AskForScores, GoOn, Granted
  <2>2. pass.pod \in Pods /\ pass.offer \in SUBSET Nodes
    BY <1>1, <2>1 DEF PassOK, Passes, MaybePod, NodeSets
  <2>3. pass'.verb = "prioritize"
    BY <2>1, <2>2, RequestTypes
  <2> QED BY <2>3 DEF Tracks
<1>6. CASE GiveUp \/ \E n \in Nodes : Assume(n)
  <2>1. pass' = Idle
    BY <1>6 DEF GiveUp, Assume, GoOn
  <2>2. \A v, w : Follows(v, pass', w)
    BY <2>1, NothingRead
  <2> QED BY <2>2 DEF Tracks
<1>7. CASE Users
  <2>1. pass' = pass /\ quiet' = (pass.pc = "idle")
    BY <1>7 DEF Users, Edit, WritePolicy, WriteGroup, RelabelNode, WriteDeploy
  <2>2. ASSUME pass.pc = "idle" PROVE \A v, w : Follows(v, pass, w)
    <3>1. pass.plugin # "notInNodeGroups"
      BY <1>1, <2>2 DEF PassOK, Phased
    <3> QED BY <2>2, <3>1 DEF Follows
  <2> QED BY <2>1, <2>2 DEF Tracks
<1>8. CASE UNCHANGED <<objects, pass, quiet, there>>
  BY <1>2, <1>8 DEF Tracks
<1>9. CASE UNCHANGED vars \/ Cluster \/ \E p \in Pods : Bind(p) \/ BindFails(p)
  BY <1>8, <1>9 DEF vars, Cluster, CreatePod, EvictPod, RemovePod, Bind, BindFails, SetPod
<1> QED BY <1>3, <1>4, <1>5, <1>6, <1>7, <1>9 DEF Next, Server, Place

\* When users change nothing while Filter reads policies, deployments, groups and
\* nodes one by one, a positive answer is one it could have given reading all of
\* them at once: whatever the scheduler, the kubelets and failing calls do.
THEOREM AnswersAreRight == Spec => []AnswerIsRight
<1>1. Init => Typed /\ Tracks
  <2> SUFFICES ASSUME Init PROVE Typed /\ Tracks
    OBVIOUS
  <2>1. Typed
    BY InitTypes, PartsAreTyped
  <2>2. pass = Idle
    BY DEF Init
  <2> QED BY <2>1, <2>2, NothingRead DEF Tracks
<1>2. Typed /\ Tracks /\ [Next]_vars => (Typed /\ Tracks)'
  BY TypesAreKept, TracksIsKept
<1>3. Typed /\ Tracks => AnswerIsRight
  BY DEF Tracks, Follows, AnswerIsRight
<1> QED BY <1>1, <1>2, <1>3, PTL DEF Spec

-----------------------------------------------------------------------------
(***************************************************************************)
(* A group ends up with few pods too many.                                 *)
(*                                                                         *)
(* When Filter lists the pods it sees all but those that are being bound,  *)
(* of which there are fewer than MaxBinding.  From then until the pod is   *)
(* placed nobody places another, so what room there was is still there.    *)
(***************************************************************************)
\* The bound a group must keep to, with more pods to come.
RoomFor(v, p, g, more, where) ==
  /\ ~Panics(PolicyFor(v, p).weights)
  /\ \E want \in Wants(v, p) : Cardinality(Here(v, p, g, where)) + more <= Lookup(want, g) + MaxBinding - 1

RoomAt(v, p, n, where) ==
  LET g == Home(v, PolicyFor(v, p), n)
  IN  Governing(v, p) # {} /\ g # None => RoomFor(v, p, g, 1, where)

\* There is room for the pod on every node the request may end with.
Rooms(v, r, where) ==
  /\ r.verb = "filter" /\ (r.plugin = "notInNodeGroups" \/ r.pc = "answered") =>
       \A n \in r.offer : RoomAt(v, r.pod, n, where)
  /\ r.verb = "prioritize" => \A n \in r.nodes : RoomAt(v, r.pod, n, where)

Within(v, p, where) ==
  LET g == Home(v, PolicyFor(v, p), where[p])
  IN  Governing(v, p) # {} /\ where[p] # None /\ g # None => RoomFor(v, p, g, 0, where)

\* No two deployments of the view select the same pod.
Disjoint(v) ==
  \A d, e \in Deploys :
    d # e /\ v.deploys[d] # None /\ v.deploys[e] # None =>
      v.deploys[d].selects \cap v.deploys[e].selects = {}

\* Pods have only left their nodes.
Thinned(where, next) == \A o \in Pods : next[o] \in {where[o], None}

\* The binds under way are bounded, the pod being placed included.
Bounded ==
  /\ Cardinality(Binding) <= MaxBinding
  /\ pass.pc # "idle" => Cardinality(Binding) < MaxBinding

\* The rest of the inductive invariant.
Sparse ==
  /\ Bounded
  /\ edits = 0 => quiet
  /\ edits = 0 => Rooms(Shown, pass, Placed)
  /\ edits = 0 /\ Disjoint(Shown) => \A p \in Pods : Within(Shown, p, Placed)

\* What a pod's deployment wants of a group is a number.
LEMMA WantsAreNumbers ==
  ASSUME NEW v, ViewOK(v), NEW p, Governing(v, p) # {}, ~Panics(PolicyFor(v, p).weights),
         NEW want \in Wants(v, p), NEW g
  PROVE  Lookup(want, g) \in Int
<1> DEFINE weights == PolicyFor(v, p).weights
           size == DeployFor(v, p).size
<1>1. PolicyFor(v, p) \in Specs /\ DeployFor(v, p) \in DeploySpecs
  BY FirstGoverns, FirstIsChosen
<1>2. weights \in Seq(Entries(Groups)) /\ size \in Nat
  BY <1>1, SpecsNameThings, DeploysSelectPods DEF Entries
<1>3. want \in DesiredPodsNum(weights, size) /\ ~Panics(weights)
  BY DEF Wants
<1> HIDE DEF weights, size
<1>4. want \in Maps(Groups)
  BY <1>2, <1>3, DesiredIsMap
<1> QED BY <1>4, LookupIsInt

\* A deployment has finitely many pods in a group.
LEMMA HereIsFinite ==
  ASSUME NEW v, ViewOK(v), NEW p, Governing(v, p) # {}, NEW g, NEW where
  PROVE  /\ Here(v, p, g, where) \in SUBSET Pods
         /\ IsFiniteSet(Here(v, p, g, where))
         /\ Cardinality(Here(v, p, g, where)) \in Nat
<1>1. DeployFor(v, p).selects \subseteq Pods
  BY FirstIsChosen, DeploysSelectPods
<1>2. Here(v, p, g, where) \in SUBSET Pods
  BY <1>1 DEF Here
<1> QED BY <1>2, DeploysSelectPods, FS_Subset, FS_CardinalityType

\* With fewer pods, or fewer to come, there is still room.
LEMMA RoomIsKept ==
  ASSUME NEW v, ViewOK(v), NEW p, Governing(v, p) # {}, NEW g, NEW where, NEW next,
         NEW more \in Nat, NEW fewer \in Nat,
         Cardinality(Here(v, p, g, next)) + fewer <= Cardinality(Here(v, p, g, where)) + more,
         RoomFor(v, p, g, more, where)
  PROVE  RoomFor(v, p, g, fewer, next)
<1>1. ~Panics(PolicyFor(v, p).weights)
  BY DEF RoomFor
<1>2. PICK want \in Wants(v, p) :
        Cardinality(Here(v, p, g, where)) + more <= Lookup(want, g) + MaxBinding - 1
  BY DEF RoomFor
<1>3. Lookup(want, g) \in Int
  BY <1>1, WantsAreNumbers
<1>4. Cardinality(Here(v, p, g, where)) \in Nat /\ Cardinality(Here(v, p, g, next)) \in Nat
  BY HereIsFinite
<1>5. Cardinality(Here(v, p, g, next)) + fewer <= Lookup(want, g) + MaxBinding - 1
  BY <1>2, <1>3, <1>4, BoundsAreNat
<1> QED BY <1>1, <1>5 DEF RoomFor

\* When pods have only left, there are no more in any group.
LEMMA FewerAreHere ==
  ASSUME NEW v, ViewOK(v), NEW p, Governing(v, p) # {}, NEW g, NEW where, NEW next, Thinned(where, next)
  PROVE  Cardinality(Here(v, p, g, next)) <= Cardinality(Here(v, p, g, where))
<1>1. Here(v, p, g, next) \in SUBSET Pods
  BY HereIsFinite
<1>2. Here(v, p, g, next) \in SUBSET Here(v, p, g, where)
  BY <1>1 DEF Here, Thinned
<1>3. IsFiniteSet(Here(v, p, g, where))
  BY HereIsFinite
<1> QED BY <1>2, <1>3, FS_Subset

\* So the rooms and the bounds remain.
LEMMA ThinningKeeps ==
  ASSUME NEW v, ViewOK(v), NEW where, NEW next, Thinned(where, next)
  PROVE  /\ \A p, n : RoomAt(v, p, n, where) => RoomAt(v, p, n, next)
         /\ \A p \in Pods : Within(v, p, where) => Within(v, p, next)
<1>1. ASSUME NEW p, Governing(v, p) # {}, NEW g, NEW more \in {0, 1}, RoomFor(v, p, g, more, where)
      PROVE  RoomFor(v, p, g, more, next)
  <2>1. Cardinality(Here(v, p, g, next)) <= Cardinality(Here(v, p, g, where))
    BY <1>1, FewerAreHere
  <2>2. Cardinality(Here(v, p, g, where)) \in Nat /\ Cardinality(Here(v, p, g, next)) \in Nat
    BY <1>1, HereIsFinite
  <2>3. more \in Nat
    OBVIOUS
  <2>4. Cardinality(Here(v, p, g, next)) + more <= Cardinality(Here(v, p, g, where)) + more
    BY <2>1, <2>2, <2>3
  <2> QED BY <1>1, <2>3, <2>4, RoomIsKept
<1>2. ASSUME NEW p, NEW n, RoomAt(v, p, n, where) PROVE RoomAt(v, p, n, next)
  BY <1>1, <1>2 DEF RoomAt
<1>3. ASSUME NEW p \in Pods, Within(v, p, where) PROVE Within(v, p, next)
  <2>1. next[p] # None => next[p] = where[p]
    BY DEF Thinned
  <2> QED BY <1>1, <1>3, <2>1 DEF Within
<1> QED BY <1>2, <1>3

\* Pods that one deployment selects, and no other, have the same policy.
LEMMA SiblingsAgree ==
  ASSUME NEW v, ViewOK(v), Disjoint(v), NEW p, Governing(v, p) # {}, NEW o \in DeployFor(v, p).selects
  PROVE  /\ Governing(v, o) = Governing(v, p)
         /\ PolicyFor(v, o) = PolicyFor(v, p)
         /\ DeployFor(v, o) = DeployFor(v, p)
<1>1. PICK d \in Deploys : v.deploys[d] # None /\ DeployFor(v, p) = v.deploys[d]
  BY FirstIsChosen
<1>2. p \in v.deploys[d].selects /\ o \in v.deploys[d].selects
  BY <1>1, FirstIsChosen
<1>3. \A e \in Deploys : v.deploys[e] # None => (p \in v.deploys[e].selects <=> o \in v.deploys[e].selects)
  BY <1>1, <1>2 DEF Disjoint
<1>4. \A spec \in Specs : Chosen(v, spec, o) = Chosen(v, spec, p)
  <2> SUFFICES ASSUME NEW spec \in Specs PROVE Chosen(v, spec, o) = Chosen(v, spec, p)
    OBVIOUS
  <2>1. \A i \in DOMAIN spec.selectors : spec.selectors[i] # None => spec.selectors[i] \in Deploys
    BY SpecsNameThings
  <2> QED BY <1>3, <2>1 DEF Chosen
<1>5. \A i \in DOMAIN PolicyOrder :
        v.policies[PolicyOrder[i]] # None => v.policies[PolicyOrder[i]] \in Specs
  BY DEF Policies, ViewOK
<1>6. Governing(v, o) = Governing(v, p)
  BY <1>4, <1>5 DEF Governing
<1>7. PolicyFor(v, o) = PolicyFor(v, p)
  BY <1>6 DEF PolicyFor
<1>8. Chosen(v, PolicyFor(v, p), o) = Chosen(v, PolicyFor(v, p), p)
  BY <1>4, FirstGoverns
<1>9. DeployFor(v, o) = DeployFor(v, p)
  BY <1>7, <1>8 DEF DeployFor
<1> QED BY <1>6, <1>7, <1>9

\* One pod more, where there was room for it.
LEMMA OneMorePlaced ==
  ASSUME NEW v, ViewOK(v), Disjoint(v), NEW where \in [Pods -> Nodes \cup {None}],
         \A o \in Pods : Within(v, o, where),
         NEW q \in Pods, NEW n \in Nodes, RoomAt(v, q, n, where), where[q] = None
  PROVE  \A o \in Pods : Within(v, o, [where EXCEPT ![q] = n])
<1> DEFINE next == [where EXCEPT ![q] = n]
<1>1. next[q] = n /\ \A o \in Pods : o # q => next[o] = where[o]
  OBVIOUS
<1> HIDE DEF next
<1> SUFFICES ASSUME NEW o \in Pods, Governing(v, o) # {}, next[o] # None,
                    Home(v, PolicyFor(v, o), next[o]) # None
             PROVE  RoomFor(v, o, Home(v, PolicyFor(v, o), next[o]), 0, next)
  BY DEF Within, next
<1> DEFINE g == Home(v, PolicyFor(v, o), next[o])
<1>2. Cardinality(Here(v, o, g, where)) \in Nat /\ Cardinality(Here(v, o, g, next)) \in Nat
      /\ IsFiniteSet(Here(v, o, g, where)) /\ DeployFor(v, o).selects \subseteq Pods
  BY HereIsFinite, FirstIsChosen, DeploysSelectPods
<1>3. CASE q \in DeployFor(v, o).selects /\ g = Home(v, PolicyFor(v, o), n)
  <2>1. /\ Governing(v, q) = Governing(v, o) /\ PolicyFor(v, q) = PolicyFor(v, o)
        /\ DeployFor(v, q) = DeployFor(v, o)
    BY <1>3, SiblingsAgree
  <2>2. RoomFor(v, q, g, 1, where)
    BY <1>3, <2>1 DEF RoomAt
  <2>3. Wants(v, q) = Wants(v, o) /\ Here(v, q, g, where) = Here(v, o, g, where)
    BY <2>1 DEF Wants, Here
  <2>4. RoomFor(v, o, g, 1, where)
    BY <2>1, <2>2, <2>3 DEF RoomFor
  <2>5. Here(v, o, g, next) \in SUBSET (Here(v, o, g, where) \cup {q})
    BY <1>1, <1>2 DEF Here
  <2>6. q \notin Here(v, o, g, where)
    BY DEF Here
  <2>7. /\ Cardinality(Here(v, o, g, where) \cup {q}) = Cardinality(Here(v, o, g, where)) + 1
        /\ IsFiniteSet(Here(v, o, g, where) \cup {q})
    BY <1>2, <2>6, FS_AddElement
  <2>8. Cardinality(Here(v, o, g, next)) <= Cardinality(Here(v, o, g, where)) + 1
    BY <2>5, <2>7, FS_Subset
  <2>9. Cardinality(Here(v, o, g, next)) + 0 <= Cardinality(Here(v, o, g, where)) + 1
    BY <1>2, <2>8
  <2> HIDE DEF g
  <2>10. RoomFor(v, o, g, 0, next)
    BY <2>4, <2>9, RoomIsKept
  <2> QED BY <2>10 DEF g
<1>4. CASE ~(q \in DeployFor(v, o).selects /\ g = Home(v, PolicyFor(v, o), n))
  <2>1. o # q
    <3>1. o \in DeployFor(v, o).selects
      BY FirstIsChosen
    <3> QED BY <1>1, <1>4, <3>1
  <2>2. next[o] = where[o]
    BY <1>1, <2>1
  <2>3. RoomFor(v, o, g, 0, where)
    BY <2>2 DEF Within
  <2>4. Here(v, o, g, next) \in SUBSET Here(v, o, g, where)
    <3> SUFFICES ASSUME NEW s \in DeployFor(v, o).selects, next[s] # None,
                        Home(v, PolicyFor(v, o), next[s]) = g
                 PROVE  where[s] # None /\ Home(v, PolicyFor(v, o), where[s]) = g
      BY DEF Here
    <3>1. s # q
      BY <1>1, <1>4
    <3> QED BY <1>1, <1>2, <3>1
  <2>5. Cardinality(Here(v, o, g, next)) <= Cardinality(Here(v, o, g, where))
    BY <1>2, <2>4, FS_Subset
  <2>6. Cardinality(Here(v, o, g, next)) + 0 <= Cardinality(Here(v, o, g, where)) + 0
    BY <1>2, <2>5
  <2> HIDE DEF g
  <2>7. RoomFor(v, o, g, 0, next)
    BY <2>3, <2>6, RoomIsKept
  <2> QED BY <2>7 DEF g
<1> QED BY <1>3, <1>4

\* A group that lacked pods, counting those with a node at the API server, has
\* room, counting also those that are being bound.
LEMMA LackingHasRoom ==
  ASSUME NEW v, ViewOK(v), PodsOK, NEW p, Governing(v, p) # {}, ~Panics(PolicyFor(v, p).weights),
         NEW want \in Wants(v, p), NEW n \in Lacking(v, p, want, NodeOf),
         Cardinality(Binding) < MaxBinding
  PROVE  RoomAt(v, p, n, Placed)
<1> DEFINE g == Home(v, PolicyFor(v, p), n)
<1>1. g # None /\ Cardinality(Here(v, p, g, NodeOf)) < Lookup(want, g)
  BY DEF Lacking
<1>2. Lookup(want, g) \in Int
  BY WantsAreNumbers
<1> HIDE DEF g
<1>3. Here(v, p, g, Placed) \in SUBSET Pods
  BY HereIsFinite
<1>4. \A o \in Pods : Placed[o] # None => o \in Binding \/ NodeOf[o] = Placed[o]
  BY DEF PodsOK, PodStates, Placed, NodeOf, Binding
<1>5. Here(v, p, g, Placed) \in SUBSET (Here(v, p, g, NodeOf) \cup Binding)
  BY <1>3, <1>4 DEF Here
<1>6. IsFiniteSet(Binding) /\ Cardinality(Binding) \in Nat
  <2>1. Binding \in SUBSET Pods
    BY DEF Binding
  <2> QED BY <2>1, DeploysSelectPods, FS_Subset, FS_CardinalityType
<1>7. IsFiniteSet(Here(v, p, g, NodeOf)) /\ Cardinality(Here(v, p, g, NodeOf)) \in Nat
      /\ Cardinality(Here(v, p, g, Placed)) \in Nat
  BY HereIsFinite
<1>8. /\ IsFiniteSet(Here(v, p, g, NodeOf) \cup Binding)
      /\ Cardinality(Here(v, p, g, NodeOf) \cup Binding) <= Cardinality(Here(v, p, g, NodeOf)) + Cardinality(Binding)
  <2>1. /\ IsFiniteSet(Here(v, p, g, NodeOf) \cup Binding)
        /\ Cardinality(Here(v, p, g, NodeOf) \cup Binding) =
             Cardinality(Here(v, p, g, NodeOf)) + Cardinality(Binding)
               - Cardinality(Here(v, p, g, NodeOf) \cap Binding)
    BY <1>6, <1>7, FS_Union
  <2>2. Cardinality(Here(v, p, g, NodeOf) \cap Binding) \in Nat
    BY <1>6, FS_Intersection, FS_CardinalityType
  <2> QED BY <1>6, <1>7, <2>1, <2>2
<1>9. Cardinality(Here(v, p, g, Placed)) <= Cardinality(Here(v, p, g, NodeOf) \cup Binding)
      /\ Cardinality(Here(v, p, g, NodeOf) \cup Binding) \in Nat
  BY <1>5, <1>8, FS_Subset, FS_CardinalityType
<1>10. Cardinality(Here(v, p, g, Placed)) + 1 <= Lookup(want, g) + MaxBinding - 1
  BY <1>1, <1>2, <1>6, <1>7, <1>8, <1>9, BoundsAreNat
<1>11. RoomFor(v, p, g, 1, Placed)
  BY <1>10 DEF RoomFor
<1> QED BY <1>11 DEF RoomAt, g

\* Until it answers, Filter only takes nodes away after its first plugin.
LEMMA OffersShrink ==
  ASSUME ObjectsOK, PassOK(pass), pass.verb = "filter", Follows(Shown, pass, there), Server, ~EnoughPods,
         pass'.plugin = "notInNodeGroups" \/ pass'.pc = "answered"
  PROVE  \/ pass'.offer = {}
         \/ pass.plugin = "notInNodeGroups" /\ pass'.offer \subseteq pass.offer
         \/ Governing(Shown, pass.pod) = {}
<1>1. pass \in Passes
  BY DEF PassOK
<1>2. CASE ListPolicies
  BY <1>1, <1>2 DEF ListPolicies, Step, Serve, Passes
<1>3. CASE MatchDeploy \/ PolicyDoesNotMatch
  BY <1>1, <1>3 DEF MatchDeploy, PolicyDoesNotMatch, Matching, Step, Serve, Passes
<1>4. CASE PolicyMatches \/ DeployFound \/ GroupsFetched \/ NodesListed \/ ListNodes
  BY <1>1, <1>4 DEF PolicyMatches, DeployFound, GroupsFetched, NodesListed, ListNodes, Step, Serve, Passes
<1>5. CASE GetDeploy
  BY <1>1, <1>5 DEF GetDeploy, Step, Serve, Passes
<1>6. CASE GetGroup
  <2> DEFINE todo == Tail(pass.todo)
             got == Append(pass.got, [name |-> Head(pass.todo), labels |-> groups[Head(pass.todo)]])
             next == [pass EXCEPT !.todo = todo, !.got = got]
  <2>1. pass.pc = "groups" /\ (pass' = PluginDone({}, TRUE) \/ pass' = next)
    BY <1>6 DEF GetGroup, Step, Serve
  <2> HIDE DEF todo, got
  <2>2. next.plugin = pass.plugin /\ next.offer = pass.offer /\ next.pc = pass.pc
    BY <1>1 DEF Passes
  <2> HIDE DEF next
  <2>3. PluginDone({}, TRUE).offer = {}
    BY PluginDoneIs
  <2> QED BY <2>1, <2>2, <2>3
<1>7. CASE ReadFails
  <2> DEFINE next == [pass EXCEPT !.todo = Tail(pass.todo), !.missing = TRUE]
  <2>1. pass' \in {Answer(500, {}), PluginDone({}, TRUE)} \/ (pass.pc = "deploys" /\ pass' = next)
    BY <1>7 DEF ReadFails
  <2>2. next.plugin = pass.plugin /\ next.offer = pass.offer /\ next.pc = pass.pc
    BY <1>1 DEF Passes
  <2> HIDE DEF next
  <2>3. PluginDone({}, TRUE).offer = {}
    BY PluginDoneIs
  <2>4. Answer(500, {}).offer = {}
    BY AnswerIs
  <2>5. CASE pass.pc = "deploys" /\ pass' = next
    BY <2>2, <2>5
  <2>6. CASE pass' \in {Answer(500, {}), PluginDone({}, TRUE)}
    BY <2>3, <2>4, <2>6
  <2> QED BY <2>1, <2>5, <2>6
<1>8. CASE MatchFails \/ DeployNotFetched \/ PluginPanics \/ DiffBased \/ Undecodable \/ ServerDies
  <2>1. pass' \in {Answer(500, {}), Answer(400, {}), PluginDone({}, TRUE), Aborted}
    BY <1>8 DEF MatchFails, DeployNotFetched, PluginPanics, DiffBased, Undecodable, ServerDies, Step, Serve
  <2>2. PluginDone({}, TRUE).offer = {}
    BY PluginDoneIs
  <2>3. Answer(500, {}).offer = {} /\ Answer(400, {}).offer = {} /\ Aborted.offer = {}
    BY AnswerIs
  <2> QED BY <2>1, <2>2, <2>3
<1>9. CASE NoPolicy
  <2>1. \E at : Lists(Shown, at, <<>>, pass.pod)
    BY <1>9 DEF NoPolicy, Follows
  <2> QED BY <2>1, NoneLeft
<1>10. CASE NotInNodeGroups
  <2> DEFINE kept == pass.offer \cap DOMAIN pass.nodesIn
  <2>1. pass' = PluginDone(kept, FALSE) /\ pass.plugin = "notInNodeGroups"
    BY <1>10 DEF NotInNodeGroups, Step, Serve
  <2>2. pass'.offer \in {kept, {}}
    BY <2>1, PluginDoneIs
  <2> QED BY <2>1, <2>2
<1> QED BY <1>2, <1>3, <1>4, <1>5, <1>6, <1>7, <1>8, <1>9, <1>10 DEF Server, Handle

\* What Filter keeps has room for the pod.
LEMMA EnoughPodsRooms ==
  ASSUME ObjectsOK, PodsOK, PassOK(pass), pass.verb = "filter", Follows(Shown, pass, there), EnoughPods,
         Cardinality(Binding) < MaxBinding
  PROVE  \A n \in pass'.offer : RoomAt(Shown, pass.pod, n, Placed)
<1>1. pass.pc = "pods" /\ pass.plugin = "enoughPods"
  BY DEF EnoughPods
<1>2. Governing(Shown, pass.pod) # {} /\ ~Panics(PolicyFor(Shown, pass.pod).weights)
  <2>1. Governing(Shown, pass.pod) # {} /\ pass.policy = PolicyFor(Shown, pass.pod)
    BY <1>1 DEF Follows
  <2>2. ~Panics(pass.policy.weights)
    BY <1>1 DEF PassOK, Phased
  <2> QED BY <2>1, <2>2
<1>3. Follows(Shown, pass', NodeOf)
  BY EnoughPodsFollows
<1>4. pass'.plugin = "notInNodeGroups" /\ pass'.pc # "answered" /\ SameRequest(pass, pass') /\ ~pass'.errs
  <2>1. PICK nodes : pass' = PluginDone(nodes, FALSE)
    BY DEF EnoughPods, Serve
  <2> DEFINE next == [pass EXCEPT !.pc = "groups", !.plugin = "notInNodeGroups", !.got = <<>>,
                                  !.todo = TargetNames(pass.policy), !.nodesIn = NoMap,
                                  !.offer = nodes, !.errs = FALSE]
  <2>2. pass \in Passes
    BY DEF PassOK
  <2>3. next.plugin = "notInNodeGroups" /\ next.pc = "groups" /\ next.errs = FALSE
    BY <2>2 DEF Passes
  <2>4. pass' = next
    BY <1>1, <2>1 DEF PluginDone
  <2> HIDE DEF next
  <2> QED BY <2>1, <2>3, <2>4, PluginDoneIs
<1>5. pass'.offer \in Reference(Shown, pass.pod, pass.nodes, NodeOf)
  BY <1>3, <1>4 DEF Follows, SameRequest
<1>6. PICK want \in Wants(Shown, pass.pod) : pass'.offer = pass.nodes \cap Lacking(Shown, pass.pod, want, NodeOf)
  BY <1>2, <1>5 DEF Reference
<1> QED BY <1>2, <1>6, LackingHasRoom, ShownIs

\* The server keeps rooms.
LEMMA ServerKeepsRooms ==
  ASSUME ObjectsOK, PodsOK, PassOK(pass), pass.verb = "filter" => Follows(Shown, pass, there),
         Cardinality(Binding) < MaxBinding, Rooms(Shown, pass, Placed), Server
  PROVE  Rooms(Shown, pass', Placed)
<1>1. SameRequest(pass, pass')
  BY ServerKeeps
<1>2. CASE pass.verb = "prioritize"
  BY <1>1, <1>2 DEF Rooms, SameRequest
<1>3. CASE pass.verb = "filter" /\ EnoughPods
  BY <1>1, <1>3, EnoughPodsRooms DEF Rooms, SameRequest
<1>4. CASE pass.verb = "filter" /\ ~EnoughPods
  <2> SUFFICES ASSUME pass'.plugin = "notInNodeGroups" \/ pass'.pc = "answered", NEW n \in pass'.offer
               PROVE  RoomAt(Shown, pass.pod, n, Placed)
    BY <1>1, <1>4 DEF Rooms, SameRequest
  <2>1. CASE Governing(Shown, pass.pod) = {}
    BY <2>1 DEF RoomAt
  <2>2. CASE Governing(Shown, pass.pod) # {}
    <3>1. pass.plugin = "notInNodeGroups" /\ n \in pass.offer
      BY <1>4, <2>2, OffersShrink
    <3> QED BY <1>4, <3>1 DEF Rooms
  <2> QED BY <2>1, <2>2
<1>5. pass.verb \in Verbs
  BY DEF PassOK, Passes
<1> QED BY <1>2, <1>3, <1>4, <1>5 DEF Verbs

\* Every step either is the server's, or takes no pod to a node, or places the
\* pod the scheduler has asked about.
LEMMA Movers ==
  ASSUME Typed, [Next]_vars
  PROVE  \/ Server
         \/ Users
         \/ /\ UNCHANGED <<objects, pods, edits, quiet>>
            /\ Cardinality(Binding) < MaxBinding
            /\ \E p \in Pods, nodes \in SUBSET Nodes : pass' = Request("filter", "enoughPods", p, nodes)
         \/ AskForScores
         \/ GiveUp
         \/ \E n \in Nodes : Assume(n)
         \/ /\ UNCHANGED <<objects, pass, edits, quiet>>
            /\ Thinned(Placed, Placed')
            /\ Binding' \subseteq Binding
<1>1. CASE Server \/ Users \/ AskForScores \/ GiveUp \/ \E n \in Nodes : Assume(n)
  BY <1>1
<1>2. CASE \E p \in Pods : Ask(p)
  BY <1>2, FeasibleAreNodes DEF Ask
<1> DEFINE Stays == /\ UNCHANGED <<objects, pass, edits, quiet>>
                    /\ Thinned(Placed, Placed')
                    /\ Binding' \subseteq Binding
<1>3. CASE UNCHANGED vars
  BY <1>3 DEF vars, Thinned, Placed, Binding
<1>4. ASSUME NEW p \in Pods, NEW state, SetPod(p, state),
             state.node \in {pods[p].node, None}, state.phase # "assumed"
      PROVE  Stays
  <2>1. pods \in [Pods -> PodStates]
    BY DEF Typed, PodsOK
  <2>2. pods' = [pods EXCEPT ![p] = state] /\ UNCHANGED <<objects, pass, edits, quiet>>
    BY <1>4 DEF SetPod
  <2>3. \A o \in Pods : pods'[o] = IF o = p THEN state ELSE pods[o]
    BY <2>1, <2>2
  <2>4. Thinned(Placed, Placed')
    BY <1>4, <2>3 DEF Thinned, Placed
  <2>5. Binding' \subseteq Binding
    BY <1>4, <2>3 DEF Binding
  <2> QED BY <2>2, <2>4, <2>5
<1>5. ASSUME NEW p \in Pods PROVE pods[p] \in PodStates
  BY DEF Typed, PodsOK
<1>6. ASSUME NEW p \in Pods, Bind(p) PROVE Stays
  <2>1. SetPod(p, [pods[p] EXCEPT !.phase = "bound"])
    BY <1>6 DEF Bind
  <2>2. [pods[p] EXCEPT !.phase = "bound"].node = pods[p].node
        /\ [pods[p] EXCEPT !.phase = "bound"].phase = "bound"
    BY <1>5 DEF PodStates
  <2> QED BY <1>4, <2>1, <2>2
<1>7. ASSUME NEW p \in Pods, BindFails(p) \/ CreatePod(p) \/ RemovePod(p) PROVE Stays
  <2>1. SetPod(p, Pending) \/ SetPod(p, Absent)
    BY <1>7 DEF BindFails, CreatePod, RemovePod
  <2> QED BY <1>4, <2>1, PodStatesAre
<1>8. ASSUME NEW p \in Pods, EvictPod(p) PROVE Stays
  <2>1. SetPod(p, [pods[p] EXCEPT !.phase = "terminating"]) \/ SetPod(p, Absent)
    BY <1>8 DEF EvictPod
  <2>2. [pods[p] EXCEPT !.phase = "terminating"].node = pods[p].node
        /\ [pods[p] EXCEPT !.phase = "terminating"].phase = "terminating"
    BY <1>5 DEF PodStates
  <2> QED BY <1>4, <2>1, <2>2, PodStatesAre
<1> HIDE DEF Stays
<1>9. CASE Stays
  BY <1>9 DEF Stays
<1> QED BY <1>1, <1>2, <1>3, <1>6, <1>7, <1>8, <1>9 DEF Next, Server, Place, Cluster, Stays

\* The binds under way stay bounded.
LEMMA BoundIsKept ==
  ASSUME Typed, Bounded, [Next]_vars
  PROVE  Bounded'
<1>1. PassOK(pass) /\ PassOK(pass') /\ PodsOK /\ PodsOK'
  BY PassSteps, TypesAreKept DEF Typed
<1>2. IsFiniteSet(Binding) /\ Cardinality(Binding) \in Nat
  <2>1. Binding \in SUBSET Pods
    BY DEF Binding
  <2> QED BY <2>1, DeploysSelectPods, FS_Subset, FS_CardinalityType
<1>3. ASSUME Binding' \subseteq Binding, pass'.pc # "idle" => pass.pc # "idle" PROVE Bounded'
  <2>1. Cardinality(Binding') <= Cardinality(Binding) /\ Cardinality(Binding') \in Nat
    BY <1>2, <1>3, FS_Subset, FS_CardinalityType
  <2> QED BY <1>2, <1>3, <2>1, BoundsAreNat DEF Bounded
<1>4. ASSUME UNCHANGED pods PROVE Binding' = Binding
  BY <1>4 DEF Binding
<1>5. CASE Server
  <2>1. UNCHANGED pods /\ pass'.pod = pass.pod
    BY <1>1, <1>5, ServerKeeps DEF SameRequest
  <2>2. pass'.pc # "idle" => pass.pc # "idle"
    BY <1>1, <2>1 DEF PassOK
  <2> QED BY <1>3, <1>4, <2>1, <2>2
<1>6. CASE Users
  <2>1. UNCHANGED <<pods, pass>>
    BY <1>6 DEF Users, Edit, WritePolicy, WriteGroup, RelabelNode, WriteDeploy
  <2> QED BY <1>3, <1>4, <2>1
<1>7. CASE UNCHANGED pods /\ Cardinality(Binding) < MaxBinding
  BY <1>2, <1>4, <1>7, BoundsAreNat DEF Bounded
<1>8. CASE AskForScores \/ GiveUp
  <2>1. UNCHANGED pods /\ pass.pc # "idle"
    BY <1>8 DEF AskForScores, GiveUp, GoOn, Granted
  <2> QED BY <1>3, <1>4, <2>1
<1>9. ASSUME NEW n \in Nodes, Assume(n) PROVE Bounded'
  <2>1. pass.pc # "idle" /\ pass' = Idle
    BY <1>9 DEF Assume, Granted, GoOn
  <2>2. pass'.pc = "idle"
    BY <2>1 DEF Idle
  <2>3. Cardinality(Binding) < MaxBinding
    BY <2>1 DEF Bounded
  <2>4. Binding' \in SUBSET (Binding \cup {pass.pod})
    BY <1>1, <1>9 DEF Assume, Binding, PodsOK
  <2>5. IsFiniteSet(Binding \cup {pass.pod}) /\ Cardinality(Binding \cup {pass.pod}) <= Cardinality(Binding) + 1
        /\ Cardinality(Binding \cup {pass.pod}) \in Nat
    <3>1. CASE pass.pod \in Binding
      <4>1. Binding \cup {pass.pod} = Binding
        BY <3>1
      <4> QED BY <1>2, <4>1
    <3>2. CASE pass.pod \notin Binding
      <4>1. /\ IsFiniteSet(Binding \cup {pass.pod})
            /\ Cardinality(Binding \cup {pass.pod}) = Cardinality(Binding) + 1
        BY <1>2, <3>2, FS_AddElement
      <4> QED BY <1>2, <4>1
    <3> QED BY <3>1, <3>2
  <2>6. Cardinality(Binding') <= Cardinality(Binding \cup {pass.pod}) /\ Cardinality(Binding') \in Nat
    BY <2>4, <2>5, FS_Subset, FS_CardinalityType
  <2>7. Cardinality(Binding') <= MaxBinding
    BY <1>2, <2>3, <2>5, <2>6, BoundsAreNat
  <2> QED BY <2>2, <2>7 DEF Bounded
<1>10. CASE UNCHANGED pass /\ Binding' \subseteq Binding
  BY <1>3, <1>10
<1> QED BY <1>5, <1>6, <1>7, <1>8, <1>9, <1>10, Movers

\* As long as there is no edit, no request is disturbed by one.
LEMMA QuietIsKept ==
  ASSUME Typed, edits = 0 => quiet, [Next]_vars
  PROVE  (edits = 0 => quiet)' /\ (edits' = 0 => edits = 0 /\ UNCHANGED objects)
<1>1. edits \in Nat
  BY BoundsAreNat DEF Typed, HistoryOK
<1>2. CASE Users
  <2>1. edits' = edits + 1
    BY <1>2 DEF Users, Edit, WritePolicy, WriteGroup, RelabelNode, WriteDeploy
  <2>2. edits' # 0
    BY <1>1, <2>1
  <2> QED BY <2>2
<1>3. CASE Server
  <2>1. PassOK(pass)
    BY DEF Typed
  <2> QED BY <1>3, <2>1, ServerKeeps
<1>4. CASE AskForScores \/ GiveUp \/ \E n \in Nodes : Assume(n)
  BY <1>4 DEF AskForScores, GiveUp, Assume, GoOn
<1>5. CASE UNCHANGED <<objects, edits, quiet>>
  BY <1>5
<1> QED BY <1>2, <1>3, <1>4, <1>5, Movers

\* Without an edit, the rooms of the request remain until it is done with.
LEMMA RoomsAreKept ==
  ASSUME Typed, Tracks, Sparse, [Next]_vars, edits' = 0
  PROVE  Rooms(Shown, pass', Placed')
<1>1. edits = 0 /\ quiet /\ UNCHANGED objects /\ Rooms(Shown, pass, Placed) /\ Bounded
  BY QuietIsKept DEF Sparse
<1>2. ObjectsOK /\ PodsOK /\ PassOK(pass) /\ ViewOK(Shown)
  BY ShownIs DEF Typed
<1>3. CASE Server
  <2>1. Placed' = Placed
    BY <1>2, <1>3, ServerKeeps DEF Placed
  <2>2. pass.pc # "idle"
    <3>1. PassOK(pass') /\ pass'.pod = pass.pod
      BY <1>2, <1>3, ServerKeeps, ServerTypes DEF SameRequest
    <3> QED BY <1>3 DEF Server, Handle, ListPolicies, MatchDeploy, MatchFails, PolicyMatches,
       PolicyDoesNotMatch, NoPolicy, GetDeploy, DeployFound, DeployNotFetched, PluginPanics, GetGroup,
       GroupsFetched, ListNodes, NodesListed, NotInNodeGroups, EnoughPods, DiffBased, ReadFails,
       Undecodable, ServerDies, Matching
  <2>3. pass.verb = "filter" => Follows(Shown, pass, there)
    BY <1>1 DEF Tracks
  <2>4. Cardinality(Binding) < MaxBinding
    BY <1>1, <2>2 DEF Bounded
  <2> QED BY <1>1, <1>2, <1>3, <2>1, <2>3, <2>4, ServerKeepsRooms
<1>4. CASE Users
  <2>1. edits' = edits + 1
    BY <1>4 DEF Users, Edit, WritePolicy, WriteGroup, RelabelNode, WriteDeploy
  <2> QED BY <1>1, <2>1
<1>5. CASE \E p \in Pods, nodes \in SUBSET Nodes : pass' = Request("filter", "enoughPods", p, nodes)
  BY <1>5, RequestTypes DEF Rooms
<1>6. CASE AskForScores
  <2>1. /\ pass.pc = "answered" /\ pass.verb = "filter" /\ Placed' = Placed
        /\ pass' = Request("prioritize", "diffBased", pass.pod, pass.offer)
    BY <1>6 DEF AskForScores, GoOn, Granted, Placed
  <2>2. pass.pod \in Pods /\ pass.offer \in SUBSET Nodes
    BY <1>2, <2>1 DEF PassOK, Passes, MaybePod, NodeSets
  <2>3. pass'.verb = "prioritize" /\ pass'.pod = pass.pod /\ pass'.nodes = pass.offer
    BY <2>1, <2>2, RequestTypes
  <2> QED BY <1>1, <2>1, <2>3 DEF Rooms
<1>7. CASE GiveUp \/ \E n \in Nodes : Assume(n)
  <2>1. pass' = Idle
    BY <1>7 DEF GiveUp, Assume, GoOn
  <2> QED BY <2>1 DEF Rooms, Idle
<1>8. CASE UNCHANGED pass /\ Thinned(Placed, Placed')
  <2>1. \A p, n : RoomAt(Shown, p, n, Placed) => RoomAt(Shown, p, n, Placed')
    BY <1>2, <1>8, ThinningKeeps
  <2> QED BY <1>1, <1>8, <2>1 DEF Rooms
<1> QED BY <1>3, <1>4, <1>5, <1>6, <1>7, <1>8, Movers

\* Without an edit, every group keeps to its bound.
LEMMA BoundsAreKept ==
  ASSUME Typed, Sparse, [Next]_vars, edits' = 0, Disjoint(Shown)
  PROVE  \A p \in Pods : Within(Shown, p, Placed')
<1>1. edits = 0 /\ Rooms(Shown, pass, Placed) /\ \A p \in Pods : Within(Shown, p, Placed)
  BY QuietIsKept DEF Sparse
<1>2. ObjectsOK /\ PodsOK /\ PassOK(pass) /\ ViewOK(Shown)
  BY ShownIs DEF Typed
<1>3. Placed \in [Pods -> Nodes \cup {None}] /\ pods \in [Pods -> PodStates]
  BY <1>2 DEF PodsOK, PodStates, Placed
<1>4. CASE UNCHANGED pods
  <2>1. Placed' = Placed
    BY <1>4 DEF Placed
  <2> QED BY <1>1, <2>1
<1>5. CASE Server
  BY <1>2, <1>4, <1>5, ServerKeeps
<1>6. CASE Users \/ AskForScores \/ GiveUp
  BY <1>4, <1>6 DEF Users, Edit, WritePolicy, WriteGroup, RelabelNode, WriteDeploy, AskForScores, GiveUp
<1>7. ASSUME NEW n \in Nodes, Assume(n) PROVE \A p \in Pods : Within(Shown, p, Placed')
  <2>1. CASE pods[pass.pod] # Pending
    BY <1>4, <1>7, <2>1 DEF Assume
  <2>2. CASE pods[pass.pod] = Pending
    <3> DEFINE q == pass.pod
    <3>1. pass.pc = "answered" /\ pods' = [pods EXCEPT ![q] = [phase |-> "assumed", node |-> n]]
      BY <1>7, <2>2 DEF Assume, Granted
    <3>2. q \in Pods
      BY <1>2, <3>1 DEF PassOK, Passes, MaybePod
    <3>3. RoomAt(Shown, q, n, Placed)
      <4>1. (pass.verb = "filter" /\ n \in pass.offer) \/ (pass.verb = "prioritize" /\ n \in pass.nodes)
        BY <1>7 DEF Assume, Granted
      <4> QED BY <1>1, <3>1, <4>1 DEF Rooms
    <3>4. Placed[q] = None
      BY <2>2, <3>2 DEF Placed, Pending
    <3>5. Placed' = [Placed EXCEPT ![q] = n]
      <4>1. \A o \in Pods : pods'[o].node = IF o = q THEN n ELSE pods[o].node
        BY <1>3, <3>1, <3>2
      <4> HIDE DEF q
      <4> QED BY <3>2, <4>1 DEF Placed
    <3> HIDE DEF q
    <3> QED BY <1>1, <1>2, <1>3, <3>2, <3>3, <3>4, <3>5, OneMorePlaced
  <2> QED BY <2>1, <2>2
<1>8. CASE Thinned(Placed, Placed')
  BY <1>1, <1>2, <1>8, ThinningKeeps
<1> QED BY <1>4, <1>5, <1>6, <1>7, <1>8, Movers

\* Every step keeps the inductive invariant.
LEMMA SparseIsKept == Typed /\ Tracks /\ Sparse /\ [Next]_vars => Sparse'
<1> SUFFICES ASSUME Typed, Tracks, Sparse, [Next]_vars PROVE Sparse'
  OBVIOUS
<1>1. Bounded' /\ (edits = 0 => quiet)'
  BY BoundIsKept, QuietIsKept DEF Sparse
<1>2. ASSUME edits' = 0 PROVE Shown' = Shown
  <2>1. UNCHANGED objects
    BY <1>2, QuietIsKept DEF Sparse
  <2> QED BY <2>1 DEF objects, Shown
<1>3. edits' = 0 => Rooms(Shown, pass', Placed')
  BY RoomsAreKept
<1>4. edits' = 0 /\ Disjoint(Shown) => \A p \in Pods : Within(Shown, p, Placed')
  BY BoundsAreKept
<1> QED BY <1>1, <1>2, <1>3, <1>4 DEF Sparse

\* Filter does not see the pods that are being bound; but as long as users change
\* nothing and no two deployments share a pod, a group has at most as many pods
\* more than desired as binds can be under way beside one.
THEOREM FewAreTooMany == Spec => []FewTooMany
<1>1. Init => Typed /\ Tracks /\ Sparse
  <2> SUFFICES ASSUME Init PROVE Typed /\ Tracks /\ Sparse
    OBVIOUS
  <2>1. Typed
    BY InitTypes, PartsAreTyped
  <2>2. pass = Idle /\ quiet /\ \A p \in Pods : pods[p] = Absent
    BY DEF Init
  <2>3. Tracks
    BY <2>2, NothingRead DEF Tracks
  <2>4. Bounded
    <3>1. Binding = {}
      BY <2>2 DEF Binding, Absent
    <3>2. Cardinality(Binding) = 0
      BY <3>1, FS_EmptySet
    <3> QED BY <3>2, BoundsAreNat DEF Bounded
  <2>5. Rooms(Shown, pass, Placed)
    BY <2>2 DEF Rooms, Idle
  <2>6. \A p \in Pods : Placed[p] = None
    BY <2>2 DEF Placed, Absent
  <2> QED BY <2>1, <2>2, <2>3, <2>4, <2>5, <2>6 DEF Sparse, Within
<1>2. Typed /\ Tracks /\ Sparse /\ [Next]_vars => (Typed /\ Tracks /\ Sparse)'
  BY TypesAreKept, TracksIsKept, SparseIsKept
<1>3. Typed /\ Tracks /\ Sparse => FewTooMany
  <2> SUFFICES ASSUME Typed, Sparse, edits = 0, NoneShared, NEW p \in Pods,
                      Governing(Shown, p) # {}, pods[p].node # None,
                      Home(Shown, PolicyFor(Shown, p), pods[p].node) # None
               PROVE  LET g == Home(Shown, PolicyFor(Shown, p), pods[p].node)
                      IN  \E want \in Wants(Shown, p) :
                            Cardinality(Here(Shown, p, g, Placed)) <= Lookup(want, g) + MaxBinding - 1
    BY DEF FewTooMany
  <2>1. Disjoint(Shown)
    BY ShownIs DEF NoneShared, Disjoint
  <2>2. Placed[p] = pods[p].node
    BY DEF Placed
  <2> DEFINE g == Home(Shown, PolicyFor(Shown, p), pods[p].node)
  <2>3. RoomFor(Shown, p, g, 0, Placed)
    BY <2>1, <2>2 DEF Sparse, Within
  <2>4. Cardinality(Here(Shown, p, g, Placed)) \in Nat
    BY HereIsFinite, ShownIs DEF Typed
  <2> QED BY <2>3, <2>4 DEF RoomFor
<1> QED BY <1>1, <1>2, <1>3, PTL DEF Spec

=============================================================================
