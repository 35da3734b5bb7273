----------------------- MODULE SchedulerExtenderProofs -----------------------
(***************************************************************************)
(* Proofs about SchedulerExtender: the types, that Filter is as good as    *)
(* atomic, and that a group ends up with few pods too many.                *)
(***************************************************************************)
EXTENDS SchedulerExtender, PlacementProofs

-----------------------------------------------------------------------------
(***************************************************************************)
(* Types.  What a field of pass holds depends on how far the request has   *)
(* got: got collects deployments first and groups later, todo likewise,    *)
(* and a Get is only made for a selector that is not empty.                *)
(***************************************************************************)
Fetched == [name : Groups, labels : Selectors]

Phases   == {"idle", "policies", "match", "deploys", "groups", "nodes", "pods", "answered"}
Verbs    == {"filter", "prioritize"}
Plugins  == {"enoughPods", "notInNodeGroups", "diffBased"}
Statuses == {0, 200, 400, 500}
Flags    == BOOLEAN
NodeSets == SUBSET Nodes

MaybePod    == Pods \cup {None}
MaybeSpec   == Specs \cup {None}
MaybeDeploy == DeploySpecs \cup {None}

ToDo == Seq(Deploys \cup Groups)
Got  == Seq(DeploySpecs \cup Fetched)

GroupsOfNodes == UNION {[D -> Groups] : D \in SUBSET Nodes}

Passes ==
  [pc : Phases, verb : Verbs, pod : MaybePod, nodes : NodeSets, rest : Seq(Specs),
   policy : MaybeSpec, plugin : Plugins, todo : ToDo, got : Got, deploy : MaybeDeploy,
   nodesIn : GroupsOfNodes, offer : NodeSets, missing : Flags, errs : Flags, status : Statuses]

\* Each selector whose deployment has been fetched names one.
Fetching(r) ==
  r.pc = "match" /\ r.rest # <<>> =>
    /\ Len(r.got) <= Len(Head(r.rest).selectors)
    /\ \A i \in 1..Len(r.got) : Head(r.rest).selectors[i] # None

Phased(r) ==
  /\ r.pc \in {"idle", "policies"} => r.got = <<>>
  /\ r.pc \in {"match", "deploys"} => r.got \in Seq(DeploySpecs)
  /\ r.pc = "deploys" => r.todo \in Seq(Deploys)
  /\ r.pc = "groups" => r.todo \in Seq(Groups)
  /\ r.pc \in {"groups", "nodes"} => r.got \in Seq(Fetched)
  /\ r.pc \in {"deploys", "groups", "nodes", "pods"} => r.policy \in Specs
  /\ r.plugin = "notInNodeGroups" => r.pc \in {"groups", "nodes", "answered"}
  /\ r.plugin # "notInNodeGroups" /\ r.pc \in {"groups", "nodes", "pods"} =>
       r.deploy \in DeploySpecs /\ ~Panics(r.policy.weights)

PassOK(r) ==
  /\ r \in Passes
  /\ r.verb = "prioritize" <=> r.plugin = "diffBased"
  /\ r.pc = "idle" <=> r.pod = None
  /\ r.offer \subseteq r.nodes
  /\ Fetching(r)
  /\ Phased(r)

-----------------------------------------------------------------------------
(***************************************************************************)
(* What the Lists and the loops over names return.                         *)
(***************************************************************************)
\* at[i] is the place, among the first k policies, of the i-th of the list.
Places(at, list, k) ==
  /\ at \in [1..Len(list) -> 1..k]
  /\ \A i \in 1..Len(list) : policies[PolicyOrder[at[i]]] # None /\ list[i] = policies[PolicyOrder[at[i]]]
  /\ \A i, j \in 1..Len(list) : i < j => at[i] < at[j]
  /\ \A j \in 1..k : policies[PolicyOrder[j]] # None => \E i \in 1..Len(list) : at[i] = j

\* One policy more: it is listed last, or not at all.
LEMMA PlacesGrow ==
  ASSUME NEW list \in Seq(Specs), NEW k \in Nat, NEW at, Places(at, list, k),
         NEW s \in Specs \cup {None}, s = policies[PolicyOrder[k + 1]]
  PROVE  LET more == IF s = None THEN list ELSE Append(list, s)
         IN  \E to : Places(to, more, k + 1)
<1>1. CASE s = None
  <2>1. at \in [1..Len(list) -> 1..k] /\ 1..k \subseteq 1..(k + 1)
    BY DEF Places
  <2>2. at \in [1..Len(list) -> 1..(k + 1)]
    BY <2>1
  <2>3. ASSUME NEW j \in 1..(k + 1), policies[PolicyOrder[j]] # None PROVE j \in 1..k
    <3>1. j # k + 1
      BY <1>1, <2>3
    <3> QED BY <3>1
  <2>4. Places(at, list, k + 1)
    BY <2>2, <2>3 DEF Places
  <2> QED BY <1>1, <2>4
<1>2. CASE s # None
  <2> DEFINE m == Len(list)
             more == Append(list, s)
             to == [i \in 1..(m + 1) |-> IF i = m + 1 THEN k + 1 ELSE at[i]]
  <2>1. m \in Nat /\ Len(more) = m + 1 /\ more[m + 1] = s /\ \A i \in 1..m : more[i] = list[i]
    BY <1>2
  <2>2. \A i \in 1..m : at[i] \in 1..k
    BY DEF Places
  <2>3. to \in [1..(m + 1) -> 1..(k + 1)]
    <3>1. \A i \in 1..(m + 1) : i # m + 1 => i \in 1..m
      BY <2>1
    <3> HIDE DEF m
    <3> QED BY <2>2, <3>1
  <2>4. \A i \in 1..(m + 1) : policies[PolicyOrder[to[i]]] # None /\ more[i] = policies[PolicyOrder[to[i]]]
    <3> SUFFICES ASSUME NEW i \in 1..(m + 1)
                 PROVE policies[PolicyOrder[to[i]]] # None /\ more[i] = policies[PolicyOrder[to[i]]]
      OBVIOUS
    <3>1. CASE i = m + 1
      BY <1>2, <2>1, <3>1
    <3>2. CASE i # m + 1
      <4>1. i \in 1..m /\ to[i] = at[i]
        BY <2>1, <3>2
      <4> HIDE DEF to, more
      <4> QED BY <2>1, <4>1 DEF Places
    <3> QED BY <3>1, <3>2
  <2>5. \A i, j \in 1..(m + 1) : i < j => to[i] < to[j]
    <3> SUFFICES ASSUME NEW i \in 1..(m + 1), NEW j \in 1..(m + 1), i < j PROVE to[i] < to[j]
      OBVIOUS
    <3>1. i \in 1..m /\ to[i] = at[i] /\ at[i] \in 1..k
      BY <2>1, <2>2
    <3>2. CASE j = m + 1
      BY <3>1, <3>2
    <3>3. CASE j # m + 1
      <4>1. j \in 1..m /\ to[j] = at[j]
        BY <2>1, <3>3
      <4> HIDE DEF to
      <4> QED BY <3>1, <4>1 DEF Places
    <3> QED BY <3>2, <3>3
  <2>6. ASSUME NEW j \in 1..(k + 1), policies[PolicyOrder[j]] # None
        PROVE  \E i \in 1..(m + 1) : to[i] = j
    <3>1. CASE j = k + 1
      BY <2>1, <3>1
    <3>2. CASE j # k + 1
      <4>1. PICK i \in 1..m : at[i] = j
        BY <2>6, <3>2 DEF Places
      <4> QED BY <2>1, <4>1
    <3> QED BY <3>1, <3>2
  <2>7. Places(to, more, k + 1)
    <3> HIDE DEF to, more, m
    <3> QED BY <2>1, <2>3, <2>4, <2>5, <2>6 DEF Places
  <2> QED BY <1>2, <2>7
<1> QED BY <1>1, <1>2

\* A List returns the policies that are there, in their order.
LEMMA PresentAreListed ==
  ASSUME policies \in [Policies -> Specs \cup {None}]
  PROVE  Present \in Seq(Specs) /\ \E at : Places(at, Present, Len(PolicyOrder))
<1> DEFINE n == Len(PolicyOrder)
           V == Seq(Specs)
           D == SUBSET (1..n)
           More(list, q) == IF policies[q] = None THEN list ELSE Append(list, policies[q])
           Fits(it) == it = [s \in D |-> IF s = {} THEN <<>>
                                         ELSE More(it[s \ {Max(s)}], PolicyOrder[Max(s)])]
           step == [vk \in V \X (1..n) |-> More(vk[1], PolicyOrder[vk[2]])]
<1>1. n \in Nat /\ DOMAIN PolicyOrder = 1..n /\ <<>> \in V
      /\ \A k \in 1..n : PolicyOrder[k] \in Policies /\ policies[PolicyOrder[k]] \in Specs \cup {None}
  BY PoliciesAreListed
<1>2. \A list \in V, k \in 1..n : More(list, PolicyOrder[k]) \in V
  BY <1>1
<1>3. \A list \in V, k \in 1..n : step[<<list, k>>] = More(list, PolicyOrder[k])
  OBVIOUS
<1>4. step \in [V \X (1..n) -> V]
  <2> HIDE DEF n, More, V
  <2> QED BY <1>2
<1>5. \A s \in D : s # {} => Max(s) \in 1..n
  BY <1>1, GreatestIsIn
<1> HIDE DEF step, n, V, More
<1>6. PICK it \in [D -> V] : Steps(it, n, V, <<>>, step)
  BY <1>1, <1>4, StepsExist
<1>7. Fits(it)
  <2>1. ASSUME NEW s \in D, s # {} PROVE it[s] = More(it[s \ {Max(s)}], PolicyOrder[Max(s)])
    <3>1. s \ {Max(s)} \in D /\ it[s \ {Max(s)}] \in V
      OBVIOUS
    <3> QED BY <1>3, <1>5, <1>6, <2>1, <3>1 DEF Steps, Rest
  <2>2. it[{}] = <<>>
    BY <1>6 DEF Steps
  <2> QED BY <2>1, <2>2
<1>8. Present = (CHOOSE g : Fits(g))[1..n]
  BY <1>1, Zenon DEF Present, FoldLeft, MapThenFoldSet, More
<1>9. PICK g : Fits(g) /\ Present = g[1..n]
  <2> HIDE DEF Fits
  <2> QED BY <1>7, <1>8
<1>10. Steps(g, n, V, <<>>, step)
  BY <1>3, <1>5, <1>9 DEF Steps, Rest
<1>11. PICK acc \in [0..n -> V] : Runs(acc, n, <<>>, step, g[1..n])
  <2> HIDE DEF Fits
  <2> QED BY <1>1, <1>4, <1>10, StepByStep
<1> HIDE DEF Fits
<1> DEFINE Good == {k \in Nat : k \in 0..n => \E at : Places(at, acc[k], k)}
<1>12. 0 \in Good
  <2>1. acc[0] = <<>>
    BY <1>11 DEF Runs
  <2>2. Places([i \in 1..0 |-> 0], <<>>, 0)
    BY DEF Places
  <2> QED BY <2>1, <2>2
<1>13. ASSUME NEW k \in Nat, k \in Good PROVE k + 1 \in Good
  <2> SUFFICES ASSUME k + 1 \in 0..n PROVE \E at : Places(at, acc[k + 1], k + 1)
    OBVIOUS
  <2>1. k \in 0..n /\ k + 1 \in 1..n /\ (k + 1) - 1 = k
    BY <1>1
  <2>2. acc[k] \in Seq(Specs) /\ acc[k + 1] = More(acc[k], PolicyOrder[k + 1])
    <3>1. acc[k + 1] = step[<<acc[(k + 1) - 1], k + 1>>]
      BY <2>1, <1>11 DEF Runs
    <3>2. acc[k] \in V
      BY <2>1
    <3> QED BY <2>1, <3>1, <3>2, <1>3 DEF V
  <2>3. PICK at : Places(at, acc[k], k)
    BY <1>13, <2>1
  <2>4. policies[PolicyOrder[k + 1]] \in Specs \cup {None}
    BY <1>1, <2>1
  <2> HIDE DEF Good
  <2> QED BY <2>2, <2>3, <2>4, PlacesGrow DEF More
<1>14. \A k \in Nat : k \in Good
  <2> HIDE DEF Good
  <2> QED BY <1>12, <1>13, NumberInduction
<1>15. n \in 0..n /\ acc[n] = Present
  BY <1>1, <1>9, <1>11 DEF Runs
<1>16. \E at : Places(at, acc[n], n)
  BY <1>1, <1>14, <1>15
<1>17. acc[n] \in Seq(Specs)
  BY <1>15 DEF V
<1> QED BY <1>15, <1>16, <1>17 DEF n

\* The groups of a weight list are names of groups.
LEMMA TargetNamesAreGroups ==
  ASSUME NEW s \in Specs
  PROVE  TargetNames(s) \in Seq(Groups)
<1> DEFINE weights == s.weights
           n == Len(weights)
           V == Seq(Groups)
           D == SUBSET (1..n)
           Fits(it) == it = [t \in D |-> IF t = {} THEN <<>>
                                         ELSE it[t \ {Max(t)}] \o weights[Max(t)].names]
           step == [vk \in V \X (1..n) |-> vk[1] \o weights[vk[2]].names]
<1>1. n \in Nat /\ DOMAIN weights = 1..n /\ <<>> \in V /\ \A k \in 1..n : weights[k].names \in V
  <2>1. weights \in Seq(Entries(Groups))
    BY SpecsNameThings DEF Entries
  <2>2. \A k \in 1..Len(weights) : weights[k] \in Entries(Groups)
    BY <2>1
  <2>3. \A e \in Entries(Groups) : e.names \in Seq(Groups)
    BY DEF Entries
  <2> QED BY <2>1, <2>2, <2>3
<1>2. \A list \in V, k \in 1..n : list \o weights[k].names \in V
  BY <1>1
<1>3. \A list \in V, k \in 1..n : step[<<list, k>>] = list \o weights[k].names
  OBVIOUS
<1>4. step \in [V \X (1..n) -> V]
  <2> HIDE DEF n, V, weights
  <2> QED BY <1>2
<1>5. \A t \in D : t # {} => Max(t) \in 1..n
  BY <1>1, GreatestIsIn
<1>6. TargetNames(s) = (CHOOSE g : Fits(g))[1..n]
  BY <1>1, Zenon DEF TargetNames, FoldLeft, MapThenFoldSet
<1> HIDE DEF step, n, V, weights
<1>7. PICK it \in [D -> V] : Steps(it, n, V, <<>>, step)
  BY <1>1, <1>4, StepsExist
<1>8. Fits(it)
  <2>1. ASSUME NEW t \in D, t # {} PROVE it[t] = it[t \ {Max(t)}] \o weights[Max(t)].names
    <3>1. t \ {Max(t)} \in D /\ it[t \ {Max(t)}] \in V
      OBVIOUS
    <3> QED BY <1>3, <1>5, <1>7, <2>1, <3>1 DEF Steps, Rest
  <2>2. it[{}] = <<>>
    BY <1>7 DEF Steps
  <2> QED BY <2>1, <2>2
<1>9. PICK g : Fits(g) /\ TargetNames(s) = g[1..n]
  <2> HIDE DEF Fits
  <2> QED BY <1>6, <1>8
<1>10. Steps(g, n, V, <<>>, step)
  BY <1>3, <1>5, <1>9 DEF Steps, Rest
<1>11. PICK acc \in [0..n -> V] : Runs(acc, n, <<>>, step, g[1..n])
  <2> HIDE DEF Fits
  <2> QED BY <1>1, <1>4, <1>10, StepByStep
<1>12. n \in 0..n /\ acc[n] = TargetNames(s)
  BY <1>1, <1>9, <1>11 DEF Runs
<1> QED BY <1>12 DEF V

-----------------------------------------------------------------------------
(***************************************************************************)
(* Every step of a handler keeps the types of pass.                        *)
(***************************************************************************)
\* The answers are well-typed.
LEMMA AnswerTypes ==
  ASSUME PassOK(pass), pass.pc # "idle",
         NEW status \in {200, 400, 500}, NEW nodes \in SUBSET pass.nodes
  PROVE  PassOK(Answer(status, nodes)) /\ Answer(status, nodes).pc = "answered"
<1> DEFINE st == IF pass.verb = "prioritize" THEN PrioritizeStatus(status) ELSE status
           r == [pass EXCEPT !.pc = "answered", !.offer = nodes, !.status = st]
<1>1. pass \in Passes /\ nodes \in NodeSets
  BY DEF PassOK, Passes, NodeSets
<1>2. st \in Statuses /\ "answered" \in Phases
  BY DEF PrioritizeStatus, Statuses, Phases
<1> HIDE DEF st
<1>3. r \in Passes
  BY <1>1, <1>2 DEF Passes
<1>4. /\ r.pc = "answered" /\ r.verb = pass.verb /\ r.plugin = pass.plugin
      /\ r.pod = pass.pod /\ r.nodes = pass.nodes /\ r.offer = nodes
  BY <1>1 DEF Passes
<1>5. Answer(status, nodes) = r
  BY DEF Answer, st
<1> HIDE DEF r
<1> QED BY <1>3, <1>4, <1>5 DEF PassOK, Fetching, Phased

\* So is a closed connection.
LEMMA AbortedTypes ==
  ASSUME PassOK(pass), pass.pc # "idle"
  PROVE  PassOK(Aborted) /\ Aborted.pc = "answered"
<1>1. pass \in Passes /\ {} \in NodeSets /\ 0 \in Statuses /\ "answered" \in Phases
  BY DEF PassOK, NodeSets, Statuses, Phases
<1>2. Aborted \in Passes
  BY <1>1 DEF Passes, Aborted
<1>3. /\ Aborted.pc = "answered" /\ Aborted.verb = pass.verb /\ Aborted.plugin = pass.plugin
      /\ Aborted.pod = pass.pod /\ Aborted.nodes = pass.nodes /\ Aborted.offer = {}
  BY <1>1 DEF Passes, Aborted
<1> QED BY <1>2, <1>3 DEF PassOK, Fetching, Phased

\* A plugin that is done has a policy for the next one.
LEMMA PluginDoneTypes ==
  ASSUME PassOK(pass), pass.pc \in {"deploys", "groups", "nodes", "pods"},
         NEW failed \in BOOLEAN, NEW nodes \in SUBSET pass.nodes
  PROVE  PassOK(PluginDone(nodes, failed))
<1> DEFINE names == TargetNames(pass.policy)
           next == [pass EXCEPT !.pc = "groups", !.plugin = "notInNodeGroups", !.got = <<>>,
                                !.todo = names, !.nodesIn = NoMap,
                                !.offer = nodes, !.errs = failed]
<1>1. CASE pass.plugin = "enoughPods"
  <2>1. pass \in Passes /\ nodes \in NodeSets /\ failed \in Flags
    BY DEF PassOK, Passes, NodeSets, Flags
  <2>2. names \in Seq(Groups) /\ names \in ToDo
    <3>1. pass.policy \in Specs
      BY DEF PassOK, Phased
    <3>2. names \in Seq(Groups)
      BY <3>1, TargetNamesAreGroups
    <3> HIDE DEF names
    <3> QED BY <3>2 DEF ToDo
  <2>3. NoMap \in GroupsOfNodes
    BY NoMapIsMap DEF IsMap, GroupsOfNodes
  <2>4. "groups" \in Phases /\ "notInNodeGroups" \in Plugins /\ <<>> \in Got
    BY DEF Phases, Plugins, Got
  <2> HIDE DEF names
  <2>5. next \in Passes
    BY <2>1, <2>2, <2>3, <2>4 DEF Passes
  <2>6. /\ next.pc = "groups" /\ next.verb = pass.verb /\ next.plugin = "notInNodeGroups"
        /\ next.pod = pass.pod /\ next.nodes = pass.nodes /\ next.offer = nodes
        /\ next.policy = pass.policy /\ next.got = <<>> /\ next.todo = names
    BY <2>1 DEF Passes
  <2>7. PluginDone(nodes, failed) = next
    BY <1>1 DEF PluginDone, names
  <2> HIDE DEF next
  <2>8. /\ pass.verb = "prioritize" <=> pass.plugin = "diffBased"
        /\ pass.pc = "idle" <=> pass.pod = None
        /\ pass.policy \in Specs
    BY DEF PassOK, Phased
  <2>9. Fetching(next)
    BY <2>6 DEF Fetching
  <2>10. Phased(next)
    BY <2>2, <2>6, <2>8 DEF Phased
  <2>11. PassOK(next)
    BY <1>1, <2>5, <2>6, <2>8, <2>9, <2>10 DEF PassOK
  <2> QED BY <2>7, <2>11
<1>2. CASE pass.plugin # "enoughPods"
  <2>1. PluginDone(nodes, failed) \in {Answer(500, {}), Answer(200, nodes)}
    BY <1>2 DEF PluginDone
  <2> QED BY <2>1, AnswerTypes
<1> QED BY <1>1, <1>2

\* The objects have their types.
ObjectsOK ==
  /\ policies \in [Policies -> Specs \cup {None}]
  /\ groups \in [Groups -> Selectors \cup {None}]
  /\ nodeLabels \in [Nodes -> LabelSets]
  /\ deploys \in [Deploys -> DeploySpecs \cup {None}]

\* The policy that is being matched has a list of selectors.
LEMMA HeadHasSelectors ==
  ASSUME PassOK(pass), pass.rest # <<>>
  PROVE  Head(pass.rest) \in Specs /\ Head(pass.rest).selectors \in Seq(Deploys \cup {None})
<1>1. pass.rest \in Seq(Specs)
  BY DEF PassOK, Passes
<1>2. Head(pass.rest) \in Specs
  BY <1>1
<1> QED BY <1>2, SpecsNameThings

\* The handler's steps up to the choice of a policy.
LEMMA ListPoliciesTypes ==
  ASSUME ObjectsOK, PassOK(pass), ListPolicies
  PROVE  PassOK(pass')
<1> DEFINE next == [pass EXCEPT !.pc = "match", !.rest = Present]
<1>1. pass' = next /\ pass.pc = "policies"
  BY DEF ListPolicies, Step, Serve
<1>2. pass \in Passes /\ "match" \in Phases /\ Present \in Seq(Specs)
  BY PresentAreListed DEF PassOK, Phases, ObjectsOK
<1>3. next \in Passes
  BY <1>2 DEF Passes
<1>4. /\ next.pc = "match" /\ next.rest = Present /\ next.verb = pass.verb
      /\ next.plugin = pass.plugin /\ next.pod = pass.pod /\ next.nodes = pass.nodes
      /\ next.offer = pass.offer /\ next.got = pass.got
  BY <1>2 DEF Passes
<1> HIDE DEF next
<1>5. next.got = <<>> /\ next.plugin # "notInNodeGroups"
  BY <1>1, <1>4 DEF PassOK, Phased
<1>6. Fetching(next)
  <2> SUFFICES ASSUME Present # <<>>
               PROVE Len(next.got) <= Len(Head(next.rest).selectors)
    BY <1>4, <1>5 DEF Fetching
  <2>1. Head(Present) \in Specs
    BY <1>2
  <2>2. Head(Present).selectors \in Seq(Deploys \cup {None})
    BY <2>1, SpecsNameThings
  <2> QED BY <1>4, <1>5, <2>2
<1> QED BY <1>1, <1>3, <1>4, <1>5, <1>6 DEF PassOK, Phased

\* A deployment is fetched for a selector that is not empty.
LEMMA MatchDeployTypes ==
  ASSUME ObjectsOK, PassOK(pass), MatchDeploy
  PROVE  PassOK(pass')
<1> DEFINE sel == Head(pass.rest).selectors
           dep == deploys[sel[Len(pass.got) + 1]]
           got == Append(pass.got, dep)
           next == [pass EXCEPT !.got = got]
<1>1. pass' = next /\ pass.pc = "match" /\ pass.rest # <<>>
      /\ Len(pass.got) < Len(sel) /\ sel[Len(pass.got) + 1] # None /\ dep # None
  BY DEF MatchDeploy, Matching, MoreSelectors, NextSelector, Step, Serve
<1>2. sel \in Seq(Deploys \cup {None})
  BY <1>1, HeadHasSelectors
<1>3. pass \in Passes /\ pass.got \in Seq(DeploySpecs) /\ Len(pass.got) \in Nat
  BY <1>1 DEF PassOK, Phased
<1>4. dep \in DeploySpecs
  <2>1. sel[Len(pass.got) + 1] \in Deploys
    BY <1>1, <1>2, <1>3
  <2> HIDE DEF sel
  <2> QED BY <1>1, <2>1 DEF ObjectsOK
<1> HIDE DEF sel, dep
<1>5. got \in Seq(DeploySpecs) /\ got \in Got /\ Len(got) = Len(pass.got) + 1
  BY <1>3, <1>4 DEF Got
<1> HIDE DEF got
<1>6. next \in Passes
  BY <1>3, <1>5 DEF Passes
<1>7. /\ next.pc = pass.pc /\ next.rest = pass.rest /\ next.verb = pass.verb
      /\ next.plugin = pass.plugin /\ next.pod = pass.pod /\ next.nodes = pass.nodes
      /\ next.offer = pass.offer /\ next.got = got
  BY <1>3 DEF Passes
<1> HIDE DEF next
<1>8. Fetching(next)
  <2>1. \A i \in 1..Len(pass.got) : sel[i] # None
    BY <1>1 DEF PassOK, Fetching, sel
  <2>2. \A i \in 1..Len(got) : i = Len(pass.got) + 1 \/ i \in 1..Len(pass.got)
    BY <1>3, <1>5
  <2>3. \A i \in 1..Len(got) : sel[i] # None
    BY <1>1, <2>1, <2>2
  <2>4. Len(got) <= Len(sel)
    BY <1>1, <1>2, <1>3, <1>5
  <2> QED BY <1>7, <2>3, <2>4 DEF Fetching, sel
<1>9. Phased(next)
  BY <1>1, <1>5, <1>7 DEF PassOK, Phased
<1> QED BY <1>1, <1>6, <1>7, <1>8, <1>9 DEF PassOK

\* The policy that is chosen has no empty selector.
LEMMA PolicyMatchesTypes ==
  ASSUME ObjectsOK, PassOK(pass), PolicyMatches
  PROVE  PassOK(pass')
<1> DEFINE spec == Head(pass.rest)
           next == [pass EXCEPT !.pc = "deploys", !.policy = spec, !.rest = <<>>,
                                !.todo = spec.selectors, !.got = <<>>]
<1>1. pass' = next /\ pass.pc = "match" /\ pass.rest # <<>> /\ ~(Len(pass.got) < Len(spec.selectors))
  BY DEF PolicyMatches, Matching, MoreSelectors, Step, Serve
<1>2. spec \in Specs /\ spec.selectors \in Seq(Deploys \cup {None})
  BY <1>1, HeadHasSelectors
<1>3. pass \in Passes /\ pass.got \in Seq(DeploySpecs)
  BY <1>1 DEF PassOK, Phased
<1>4. \A i \in 1..Len(spec.selectors) : spec.selectors[i] \in Deploys
  <2>1. Len(pass.got) <= Len(spec.selectors) /\ \A i \in 1..Len(pass.got) : spec.selectors[i] # None
    BY <1>1 DEF PassOK, Fetching
  <2>2. Len(pass.got) = Len(spec.selectors)
    BY <1>1, <1>2, <1>3, <2>1
  <2> HIDE DEF spec
  <2> QED BY <1>2, <2>1, <2>2
<1> HIDE DEF spec
<1>5. spec.selectors \in Seq(Deploys)
  BY <1>2, <1>4
<1>6. spec.selectors \in ToDo /\ <<>> \in Got /\ <<>> \in Seq(Specs) /\ <<>> \in Seq(DeploySpecs)
      /\ "deploys" \in Phases /\ spec \in MaybeSpec
  BY <1>2, <1>5 DEF ToDo, Got, Phases, MaybeSpec
<1>7. next \in Passes
  BY <1>3, <1>6 DEF Passes
<1>8. /\ next.pc = "deploys" /\ next.rest = <<>> /\ next.verb = pass.verb
      /\ next.plugin = pass.plugin /\ next.pod = pass.pod /\ next.nodes = pass.nodes
      /\ next.offer = pass.offer /\ next.got = <<>> /\ next.todo = spec.selectors
      /\ next.policy = spec
  BY <1>3 DEF Passes
<1> HIDE DEF next
<1>9. Phased(next) /\ Fetching(next)
  BY <1>1, <1>2, <1>5, <1>6, <1>8 DEF PassOK, Phased, Fetching
<1> QED BY <1>1, <1>7, <1>8, <1>9 DEF PassOK

\* The next policy is matched from its first selector.
LEMMA PolicyDoesNotMatchTypes ==
  ASSUME ObjectsOK, PassOK(pass), PolicyDoesNotMatch
  PROVE  PassOK(pass')
<1> DEFINE rest == Tail(pass.rest)
           next == [pass EXCEPT !.rest = rest, !.got = <<>>]
<1>1. pass' = next /\ pass.pc = "match" /\ pass.rest # <<>>
  BY DEF PolicyDoesNotMatch, Matching, Step, Serve
<1>2. pass \in Passes /\ pass.rest \in Seq(Specs)
  BY <1>1 DEF PassOK, Passes
<1>3. rest \in Seq(Specs) /\ <<>> \in Got /\ <<>> \in Seq(DeploySpecs)
  BY <1>1, <1>2 DEF Got
<1> HIDE DEF rest
<1>4. next \in Passes
  BY <1>2, <1>3 DEF Passes
<1>5. /\ next.pc = pass.pc /\ next.rest = rest /\ next.verb = pass.verb
      /\ next.plugin = pass.plugin /\ next.pod = pass.pod /\ next.nodes = pass.nodes
      /\ next.offer = pass.offer /\ next.got = <<>>
  BY <1>2 DEF Passes
<1> HIDE DEF next
<1>6. Fetching(next)
  <2> SUFFICES ASSUME rest # <<>> PROVE Len(<<>>) <= Len(Head(rest).selectors)
    BY <1>5 DEF Fetching
  <2>1. Head(rest) \in Specs
    BY <1>3
  <2>2. Head(rest).selectors \in Seq(Deploys \cup {None})
    BY <2>1, SpecsNameThings
  <2> QED BY <2>2
<1>7. Phased(next)
  BY <1>1, <1>3, <1>5 DEF PassOK, Phased
<1> QED BY <1>1, <1>4, <1>5, <1>6, <1>7 DEF PassOK

\* No policy is chosen.
LEMMA MatchEndsTypes ==
  ASSUME ObjectsOK, PassOK(pass), MatchFails \/ NoPolicy
  PROVE  PassOK(pass')
<1>1. pass.pc = "match" /\ (pass' = Answer(500, {}) \/ pass' = Answer(200, pass.nodes))
  BY DEF MatchFails, NoPolicy, Matching, Step, Serve
<1> QED BY <1>1, AnswerTypes

\* The plugins' steps.
LEMMA GetDeployTypes ==
  ASSUME ObjectsOK, PassOK(pass), GetDeploy
  PROVE  PassOK(pass')
<1> DEFINE dep == deploys[Head(pass.todo)]
           todo == Tail(pass.todo)
           got == Append(pass.got, dep)
           nextNone == [pass EXCEPT !.todo = todo, !.missing = TRUE]
           nextGot == [pass EXCEPT !.todo = todo, !.got = got]
<1>1. pass.pc = "deploys" /\ pass.todo # <<>> /\ pass' = IF dep = None THEN nextNone ELSE nextGot
  BY DEF GetDeploy, Step, Serve
<1>2. pass \in Passes /\ pass.got \in Seq(DeploySpecs) /\ pass.todo \in Seq(Deploys)
  BY <1>1 DEF PassOK, Phased
<1>3. dep \in DeploySpecs \cup {None}
  <2>1. Head(pass.todo) \in Deploys
    BY <1>1, <1>2
  <2> QED BY <2>1 DEF ObjectsOK
<1>4. todo \in Seq(Deploys) /\ todo \in ToDo /\ TRUE \in Flags
  BY <1>1, <1>2 DEF ToDo, Flags
<1>5. dep # None => got \in Seq(DeploySpecs) /\ got \in Got
  <2> HIDE DEF dep
  <2> QED BY <1>2, <1>3 DEF Got
<1> HIDE DEF dep, todo, got
<1>6. CASE dep = None
  <2>1. nextNone \in Passes
    BY <1>2, <1>4 DEF Passes
  <2>2. /\ nextNone.pc = pass.pc /\ nextNone.rest = pass.rest /\ nextNone.verb = pass.verb
        /\ nextNone.plugin = pass.plugin /\ nextNone.pod = pass.pod /\ nextNone.nodes = pass.nodes
        /\ nextNone.offer = pass.offer /\ nextNone.got = pass.got /\ nextNone.todo = todo
        /\ nextNone.policy = pass.policy
    BY <1>2 DEF Passes
  <2> HIDE DEF nextNone
  <2>3. Phased(nextNone) /\ Fetching(nextNone)
    BY <1>1, <1>4, <2>2 DEF PassOK, Phased, Fetching
  <2> QED BY <1>1, <1>6, <2>1, <2>2, <2>3 DEF PassOK
<1>7. CASE dep # None
  <2>1. nextGot \in Passes
    BY <1>2, <1>4, <1>5, <1>7 DEF Passes
  <2>2. /\ nextGot.pc = pass.pc /\ nextGot.rest = pass.rest /\ nextGot.verb = pass.verb
        /\ nextGot.plugin = pass.plugin /\ nextGot.pod = pass.pod /\ nextGot.nodes = pass.nodes
        /\ nextGot.offer = pass.offer /\ nextGot.got = got /\ nextGot.todo = todo
        /\ nextGot.policy = pass.policy
    BY <1>2 DEF Passes
  <2> HIDE DEF nextGot
  <2>3. Phased(nextGot) /\ Fetching(nextGot)
    BY <1>1, <1>4, <1>5, <1>7, <2>2 DEF PassOK, Phased, Fetching
  <2> QED BY <1>1, <1>7, <2>1, <2>2, <2>3 DEF PassOK
<1> QED BY <1>6, <1>7

\* The deployment that is found is one that was fetched.
LEMMA DeployFoundTypes ==
  ASSUME ObjectsOK, PassOK(pass), DeployFound
  PROVE  PassOK(pass')
<1> DEFINE selecting == {i \in DOMAIN pass.got : pass.pod \in pass.got[i].selects}
           dep == pass.got[Min(selecting)]
           names == TargetNames(pass.policy)
           next == [pass EXCEPT !.pc = "groups", !.deploy = dep, !.got = <<>>, !.todo = names]
<1>1. pass.pc = "deploys" /\ Selects(pass.got, pass.pod) /\ ~Panics(pass.policy.weights) /\ pass' = next
  BY DEF DeployFound, Step, Serve
<1>2. pass \in Passes /\ pass.got \in Seq(DeploySpecs) /\ pass.policy \in Specs
      /\ pass.plugin # "notInNodeGroups"
  BY <1>1 DEF PassOK, Phased
<1>3. dep \in DeploySpecs
  <2>1. selecting \in SUBSET Nat /\ selecting # {}
    BY <1>1, <1>2 DEF Selects
  <2>2. Min(selecting) \in selecting
    <3> HIDE DEF selecting
    <3> QED BY <2>1, MinIsLeast
  <2>3. Min(selecting) \in DOMAIN pass.got
    BY <2>2
  <2> HIDE DEF selecting
  <2> QED BY <1>2, <2>3
<1>4. names \in Seq(Groups)
  BY <1>2, TargetNamesAreGroups
<1> HIDE DEF dep, names
<1>5. names \in ToDo /\ dep \in MaybeDeploy /\ <<>> \in Got /\ <<>> \in Seq(Fetched) /\ "groups" \in Phases
  BY <1>3, <1>4 DEF ToDo, MaybeDeploy, Got, Phases
<1>6. next \in Passes
  BY <1>2, <1>5 DEF Passes
<1>7. /\ next.pc = "groups" /\ next.rest = pass.rest /\ next.verb = pass.verb
      /\ next.plugin = pass.plugin /\ next.pod = pass.pod /\ next.nodes = pass.nodes
      /\ next.offer = pass.offer /\ next.got = <<>> /\ next.todo = names
      /\ next.policy = pass.policy /\ next.deploy = dep
  BY <1>2 DEF Passes
<1> HIDE DEF next
<1>8. Phased(next) /\ Fetching(next)
  BY <1>1, <1>2, <1>3, <1>4, <1>5, <1>7 DEF Phased, Fetching
<1> QED BY <1>1, <1>6, <1>7, <1>8 DEF PassOK

\* A group that is fetched has matchLabels.
LEMMA GetGroupTypes ==
  ASSUME ObjectsOK, PassOK(pass), GetGroup
  PROVE  PassOK(pass')
<1> DEFINE g == Head(pass.todo)
           todo == Tail(pass.todo)
           got == Append(pass.got, [name |-> g, labels |-> groups[g]])
           next == [pass EXCEPT !.todo = todo, !.got = got]
<1>1. pass.pc = "groups" /\ pass.todo # <<>>
      /\ pass' = IF groups[g] = None THEN PluginDone({}, TRUE) ELSE next
  BY DEF GetGroup, Step, Serve
<1>2. pass \in Passes /\ pass.got \in Seq(Fetched) /\ pass.todo \in Seq(Groups)
  BY <1>1 DEF PassOK, Phased
<1>3. g \in Groups /\ todo \in Seq(Groups)
  BY <1>1, <1>2
<1>4. CASE groups[g] = None
  BY <1>1, <1>4, PluginDoneTypes
<1>5. CASE groups[g] # None
  <2>1. groups[g] \in Selectors
    BY <1>3, <1>5 DEF ObjectsOK
  <2>2. [name |-> g, labels |-> groups[g]] \in Fetched
    BY <1>3, <2>1 DEF Fetched
  <2>3. got \in Seq(Fetched) /\ got \in Got
    BY <1>2, <2>2 DEF Got
  <2>4. todo \in ToDo
    BY <1>3 DEF ToDo
  <2>5. pass' = next
    BY <1>1, <1>5
  <2> HIDE DEF todo, got
  <2>6. next \in Passes
    BY <1>2, <2>3, <2>4 DEF Passes
  <2>7. /\ next.pc = pass.pc /\ next.rest = pass.rest /\ next.verb = pass.verb
        /\ next.plugin = pass.plugin /\ next.pod = pass.pod /\ next.nodes = pass.nodes
        /\ next.offer = pass.offer /\ next.got = got /\ next.todo = todo
        /\ next.policy = pass.policy /\ next.deploy = pass.deploy
    BY <1>2 DEF Passes
  <2> HIDE DEF next
  <2>8. Phased(next) /\ Fetching(next)
    BY <1>1, <1>3, <2>3, <2>7 DEF PassOK, Phased, Fetching
  <2> QED BY <2>5, <2>6, <2>7, <2>8 DEF PassOK
<1> QED BY <1>4, <1>5

\* The loop goes on to the nodes, and with them to the pods.
LEMMA PhaseTypes ==
  ASSUME ObjectsOK, PassOK(pass), GroupsFetched \/ NodesListed
  PROVE  PassOK(pass')
<1> DEFINE next(phase) == [pass EXCEPT !.pc = phase]
<1>1. PICK phase \in {"nodes", "pods"} :
        /\ pass' = next(phase)
        /\ phase = "nodes" => pass.pc = "groups"
        /\ phase = "pods" => pass.pc = "nodes" /\ pass.plugin # "notInNodeGroups"
  <2>1. CASE GroupsFetched
    BY <2>1 DEF GroupsFetched, Step, Serve
  <2>2. CASE NodesListed
    BY <2>2 DEF NodesListed, Step, Serve
  <2> QED BY <2>1, <2>2
<1>2. pass \in Passes /\ phase \in Phases
  BY DEF PassOK, Phases
<1>3. next(phase) \in Passes
  BY <1>2 DEF Passes
<1>4. /\ next(phase).pc = phase /\ next(phase).rest = pass.rest /\ next(phase).verb = pass.verb
      /\ next(phase).plugin = pass.plugin /\ next(phase).pod = pass.pod /\ next(phase).nodes = pass.nodes
      /\ next(phase).offer = pass.offer /\ next(phase).got = pass.got /\ next(phase).todo = pass.todo
      /\ next(phase).policy = pass.policy /\ next(phase).deploy = pass.deploy
  BY <1>2 DEF Passes
<1> HIDE DEF next
<1>5. Phased(next(phase)) /\ Fetching(next(phase))
  BY <1>1, <1>4 DEF PassOK, Phased, Fetching
<1> QED BY <1>1, <1>3, <1>4, <1>5 DEF PassOK

\* The nodes of a group that was fetched belong to it.
LEMMA ListNodesTypes ==
  ASSUME ObjectsOK, PassOK(pass), ListNodes
  PROVE  PassOK(pass')
<1> DEFINE g == Head(pass.got)
           got == Tail(pass.got)
           nodesIn == AddNodes(pass.nodesIn, NodesWith(g.labels), g.name)
           next == [pass EXCEPT !.got = got, !.nodesIn = nodesIn]
<1>1. pass.pc = "nodes" /\ pass.got # <<>> /\ pass' = next
  BY DEF ListNodes, Step, Serve
<1>2. pass \in Passes /\ pass.got \in Seq(Fetched)
  BY <1>1 DEF PassOK, Phased
<1>3. g \in Fetched /\ got \in Seq(Fetched)
  BY <1>1, <1>2
<1>4. got \in Got
  BY <1>3 DEF Got
<1>5. nodesIn \in GroupsOfNodes
  <2>1. g.name \in Groups /\ NodesWith(g.labels) \in SUBSET Nodes
    BY <1>3 DEF Fetched, NodesWith
  <2>2. pass.nodesIn \in GroupsOfNodes
    BY <1>2 DEF Passes
  <2>3. IsMap(pass.nodesIn, Nodes, Groups)
    BY <2>2 DEF GroupsOfNodes, IsMap
  <2>4. IsMap(nodesIn, Nodes, Groups)
    BY <2>1, <2>3, AddNodesIsMap
  <2> HIDE DEF nodesIn
  <2> QED BY <2>4 DEF GroupsOfNodes, IsMap
<1> HIDE DEF got, nodesIn
<1>6. next \in Passes
  BY <1>2, <1>4, <1>5 DEF Passes
<1>7. /\ next.pc = pass.pc /\ next.rest = pass.rest /\ next.verb = pass.verb
      /\ next.plugin = pass.plugin /\ next.pod = pass.pod /\ next.nodes = pass.nodes
      /\ next.offer = pass.offer /\ next.got = got
      /\ next.policy = pass.policy /\ next.deploy = pass.deploy
  BY <1>2 DEF Passes
<1> HIDE DEF next
<1>8. Phased(next) /\ Fetching(next)
  BY <1>1, <1>3, <1>7 DEF PassOK, Phased, Fetching
<1> QED BY <1>1, <1>6, <1>7, <1>8 DEF PassOK

\* A plugin ends.
LEMMA PluginEndsTypes ==
  ASSUME ObjectsOK, PassOK(pass),
         DeployNotFetched \/ PluginPanics \/ NotInNodeGroups \/ EnoughPods \/ DiffBased
  PROVE  PassOK(pass')
<1>1. pass.offer \in SUBSET pass.nodes
  BY DEF PassOK
<1>2. CASE DeployNotFetched
  BY <1>2, PluginDoneTypes DEF DeployNotFetched, Step, Serve
<1>3. CASE PluginPanics \/ DiffBased
  BY <1>3, AbortedTypes DEF PluginPanics, DiffBased, Step, Serve
<1>4. CASE NotInNodeGroups
  <2>1. pass.offer \cap DOMAIN pass.nodesIn \in SUBSET pass.nodes
    BY <1>1
  <2> QED BY <1>4, <2>1, PluginDoneTypes DEF NotInNodeGroups, Step, Serve
<1>5. CASE EnoughPods
  <2>1. pass.pc = "pods" /\ \E S \in SUBSET pass.offer : pass' = PluginDone(S, FALSE)
    BY <1>5 DEF EnoughPods, Serve
  <2> QED BY <1>1, <2>1, PluginDoneTypes
<1> QED BY <1>2, <1>3, <1>4, <1>5

\* A call that fails.
LEMMA ReadFailsTypes ==
  ASSUME ObjectsOK, PassOK(pass), ReadFails
  PROVE  PassOK(pass')
<1> DEFINE todo == Tail(pass.todo)
           next == [pass EXCEPT !.todo = todo, !.missing = TRUE]
<1>1. CASE pass.pc \in {"policies", "match"} /\ pass' = Answer(500, {})
  BY <1>1, AnswerTypes
<1>2. CASE pass.pc \in {"groups", "nodes", "pods"} /\ pass' = PluginDone({}, TRUE)
  BY <1>2, PluginDoneTypes
<1>3. CASE pass.pc = "deploys" /\ pass.todo # <<>> /\ pass' = next
  <2>1. pass \in Passes /\ pass.todo \in Seq(Deploys)
    BY <1>3 DEF PassOK, Phased
  <2>2. todo \in Seq(Deploys) /\ todo \in ToDo /\ TRUE \in Flags
    BY <1>3, <2>1 DEF ToDo, Flags
  <2> HIDE DEF todo
  <2>3. next \in Passes
    BY <2>1, <2>2 DEF Passes
  <2>4. /\ next.pc = pass.pc /\ next.rest = pass.rest /\ next.verb = pass.verb
        /\ next.plugin = pass.plugin /\ next.pod = pass.pod /\ next.nodes = pass.nodes
        /\ next.offer = pass.offer /\ next.got = pass.got /\ next.todo = todo
        /\ next.policy = pass.policy
    BY <2>1 DEF Passes
  <2> HIDE DEF next
  <2>5. Phased(next) /\ Fetching(next)
    BY <1>3, <2>2, <2>4 DEF PassOK, Phased, Fetching
  <2> QED BY <1>3, <2>3, <2>4, <2>5 DEF PassOK
<1> HIDE DEF next
<1> QED BY <1>1, <1>2, <1>3 DEF ReadFails, Matching, next

\* Any step of the server.
Server == Handle \/ ReadFails \/ Undecodable \/ ServerDies

\* Whatever the server does, fails or dies, leaves a well-formed pass.
LEMMA ServerTypes ==
  ASSUME ObjectsOK, PassOK(pass), Server
  PROVE  PassOK(pass')
<1>1. CASE Handle
  BY <1>1, ListPoliciesTypes, MatchDeployTypes, PolicyMatchesTypes, PolicyDoesNotMatchTypes,
     MatchEndsTypes, GetDeployTypes, DeployFoundTypes, GetGroupTypes, PhaseTypes, ListNodesTypes,
     PluginEndsTypes DEF Handle
<1>2. CASE ReadFails
  BY <1>2, ReadFailsTypes
<1>3. CASE Undecodable
  BY <1>3, AnswerTypes DEF Undecodable
<1>4. CASE ServerDies
  BY <1>4, AbortedTypes DEF ServerDies
<1> QED BY <1>1, <1>2, <1>3, <1>4 DEF Server

\* The scheduler asks about a pod and nodes that exist.
LEMMA IdleTypes == PassOK(Idle)
<1>1. /\ "idle" \in Phases /\ "filter" \in Verbs /\ None \in MaybePod /\ {} \in NodeSets
      /\ None \in MaybeSpec /\ "enoughPods" \in Plugins /\ <<>> \in ToDo /\ <<>> \in Got
      /\ None \in MaybeDeploy /\ FALSE \in Flags /\ 0 \in Statuses /\ <<>> \in Seq(Specs)
  BY DEF Phases, Verbs, MaybePod, NodeSets, MaybeSpec, Plugins, ToDo, Got, MaybeDeploy, Flags, Statuses
<1>2. NoMap \in GroupsOfNodes
  BY NoMapIsMap DEF IsMap, GroupsOfNodes
<1>3. Idle \in Passes
  BY <1>1, <1>2 DEF Idle, Passes
<1>4. Phased(Idle) /\ Fetching(Idle)
  BY DEF Idle, Phased, Fetching
<1>5. Idle.verb = "filter" /\ Idle.plugin = "enoughPods" /\ Idle.pc = "idle" /\ Idle.pod = None
      /\ Idle.offer = {}
  BY DEF Idle
<1> QED BY <1>3, <1>4, <1>5 DEF PassOK

\* So does each request.
LEMMA RequestTypes ==
  ASSUME NEW p \in Pods, NEW nodes \in SUBSET Nodes,
         NEW verb, NEW plugin,
         \/ verb = "filter" /\ plugin = "enoughPods"
         \/ verb = "prioritize" /\ plugin = "diffBased"
  PROVE  /\ PassOK(Request(verb, plugin, p, nodes))
         /\ Request(verb, plugin, p, nodes).pc = "policies"
         /\ Request(verb, plugin, p, nodes).verb = verb
         /\ Request(verb, plugin, p, nodes).plugin = plugin
         /\ Request(verb, plugin, p, nodes).pod = p
         /\ Request(verb, plugin, p, nodes).nodes = nodes
         /\ Request(verb, plugin, p, nodes).offer = nodes
<1> DEFINE r == Request(verb, plugin, p, nodes)
<1>1. Idle \in Passes /\ Idle.got = <<>>
  BY IdleTypes DEF PassOK, Idle
<1>2. /\ "policies" \in Phases /\ verb \in Verbs /\ plugin \in Plugins /\ p \in MaybePod
      /\ nodes \in NodeSets
  BY DEF Phases, Verbs, Plugins, MaybePod, NodeSets
<1>3. r \in Passes
  BY <1>1, <1>2 DEF Passes, Request
<1>4. /\ r.pc = "policies" /\ r.verb = verb /\ r.plugin = plugin /\ r.pod = p /\ r.nodes = nodes
      /\ r.offer = nodes /\ r.got = Idle.got
  BY <1>1 DEF Passes, Request
<1> HIDE DEF r
<1>5. Phased(r) /\ Fetching(r)
  BY <1>1, <1>4 DEF Phased, Fetching
<1>6. p # None
  BY NoneIsNothing
<1>7. PassOK(r)
  BY <1>3, <1>4, <1>5, <1>6 DEF PassOK
<1> QED BY <1>4, <1>7 DEF r

-----------------------------------------------------------------------------
(***************************************************************************)
(* Type correctness.                                                       *)
(***************************************************************************)
PodsOK ==
  /\ pods \in [Pods -> PodStates]
  /\ \A p \in Pods : pods[p].node = None <=> pods[p].phase \in {"absent", "pending"}

\* Whatever happens to a pod, only one that has been placed has a node.
LEMMA SetPodTypes ==
  ASSUME PodsOK, NEW p \in Pods, NEW state \in PodStates,
         state.node = None <=> state.phase \in {"absent", "pending"},
         pods' = [pods EXCEPT ![p] = state]
  PROVE  PodsOK'
BY DEF PodsOK

\* The states a pod may get.
LEMMA PodStatesAre ==
  /\ Absent \in PodStates /\ Pending \in PodStates
  /\ Absent.node = None /\ Absent.phase = "absent" /\ Pending.node = None /\ Pending.phase = "pending"
  /\ \A n \in Nodes : LET state == [phase |-> "assumed", node |-> n]
                      IN  state \in PodStates /\ state.node # None /\ state.phase = "assumed"
BY NoneIsNothing DEF Absent, Pending, PodStates

\* The initial state has the declared types.
LEMMA InitTypes == Init => TypeOK /\ PassOK(pass)
<1> SUFFICES ASSUME Init PROVE TypeOK /\ PassOK(pass)
  OBVIOUS
<1>1. PassOK(pass) /\ pass = Idle
  BY IdleTypes DEF Init
<1>2. pass.pc = "idle" /\ pass.pod = None /\ pass.offer = {} /\ pass.nodes = {} /\ pass.status = 0
      /\ pass.rest = <<>> /\ pass.verb = "filter" /\ pass.plugin = "enoughPods" /\ pass.nodesIn = NoMap
  BY <1>1 DEF Idle
<1>3. ObjectsOK
  BY DEF Init, ObjectsOK
<1>4. PodsOK
  <2>1. \A p \in Pods : pods[p] = Absent
    BY DEF Init
  <2>2. pods \in [Pods -> PodStates]
    BY PodStatesAre DEF Init
  <2> QED BY <2>1, <2>2, PodStatesAre DEF PodsOK
<1>5. there \in [Pods -> Nodes \cup {None}] /\ edits \in 0..MaxEdits /\ failures \in 0..MaxFailures
      /\ quiet \in BOOLEAN
  BY BoundsAreNat DEF Init, Nowhere
<1>6. IsMap(pass.nodesIn, Nodes, Groups)
  BY <1>2, NoMapIsMap
<1> QED BY <1>1, <1>2, <1>3, <1>4, <1>5, <1>6 DEF TypeOK, ObjectsOK, PodsOK

\* Every step has one of four effects on pass, and touches the objects only when
\* it is an edit.
LEMMA PassSteps ==
  ASSUME ObjectsOK, PodsOK, PassOK(pass), [Next]_vars
  PROVE  PassOK(pass')
<1>1. CASE Server
  BY <1>1, ServerTypes
<1>2. CASE UNCHANGED pass
  BY <1>2
<1>3. CASE \E p \in Pods : Ask(p)
  <2>1. PICK p \in Pods, nodes \in SUBSET Nodes : pass' = Request("filter", "enoughPods", p, nodes)
    BY <1>3, FeasibleAreNodes DEF Ask
  <2> QED BY <2>1, RequestTypes
<1>4. CASE AskForScores
  <2>1. pass' = Request("prioritize", "diffBased", pass.pod, pass.offer) /\ pass.pc = "answered"
    BY <1>4 DEF AskForScores, GoOn, Granted
  <2>2. pass.pod \in Pods /\ pass.offer \in SUBSET Nodes
    BY <2>1 DEF PassOK, Passes, MaybePod, NodeSets
  <2> QED BY <2>1, <2>2, RequestTypes
<1>5. CASE GiveUp \/ \E n \in Nodes : Assume(n)
  BY <1>5, IdleTypes DEF GiveUp, Assume, GoOn
<1> QED
  BY <1>1, <1>2, <1>3, <1>4, <1>5 DEF Next, vars, Server, Place, Bind, BindFails, Cluster, CreatePod,
     EvictPod, RemovePod, SetPod, Users, Edit, WritePolicy, WriteGroup, RelabelNode, WriteDeploy

\* Pods are created, assumed, bound, terminated and removed.
LEMMA PodSteps ==
  ASSUME ObjectsOK, PodsOK, PassOK(pass), [Next]_vars
  PROVE  PodsOK'
<1>1. CASE UNCHANGED pods
  BY <1>1 DEF PodsOK
<1>2. ASSUME NEW n \in Nodes, Assume(n) PROVE PodsOK'
  <2>1. pods' = pods \/ pods' = [pods EXCEPT ![pass.pod] = [phase |-> "assumed", node |-> n]]
    BY <1>2 DEF Assume
  <2>2. pass.pod \in Pods
    <3>1. pass.pc = "answered"
      BY <1>2 DEF Assume, Granted
    <3> QED BY <3>1 DEF PassOK, Passes, MaybePod
  <2> QED BY <1>1, <2>1, <2>2, PodStatesAre, SetPodTypes
<1>3. ASSUME NEW p \in Pods, Bind(p) PROVE PodsOK'
  BY <1>3, SetPodTypes DEF PodsOK, Bind, SetPod, PodStates
<1>4. ASSUME NEW p \in Pods, BindFails(p) \/ CreatePod(p) \/ RemovePod(p) PROVE PodsOK'
  BY <1>4, SetPodTypes, PodStatesAre DEF BindFails, CreatePod, RemovePod, SetPod
<1>5. ASSUME NEW p \in Pods, EvictPod(p) PROVE PodsOK'
  <2>1. CASE pods[p].phase = "bound"
    BY <1>5, <2>1, SetPodTypes DEF PodsOK, EvictPod, SetPod, PodStates
  <2>2. CASE pods[p].phase # "bound"
    BY <1>5, <2>2, SetPodTypes, PodStatesAre DEF EvictPod, SetPod
  <2> QED BY <2>1, <2>2
<1>6. CASE Server \/ AskForScores \/ GiveUp \/ Users \/ UNCHANGED vars \/ \E p \in Pods : Ask(p)
  <2>1. UNCHANGED pods
    BY <1>6 DEF Server, Handle, ListPolicies, MatchDeploy, MatchFails, PolicyMatches, PolicyDoesNotMatch,
       NoPolicy, GetDeploy, DeployFound, DeployNotFetched, PluginPanics, GetGroup, GroupsFetched,
       ListNodes, NodesListed, NotInNodeGroups, EnoughPods, DiffBased, ReadFails, Undecodable, ServerDies,
       Step, Serve, AskForScores, GiveUp, GoOn, Ask, vars, Users, Edit, WritePolicy, WriteGroup,
       RelabelNode, WriteDeploy
  <2> QED BY <1>1, <2>1
<1> QED
  BY <1>2, <1>3, <1>4, <1>5, <1>6 DEF Next, Server, Place, Cluster

\* Nobody but the users changes the objects.
LEMMA ObjectSteps ==
  ASSUME ObjectsOK, [Next]_vars
  PROVE  ObjectsOK' /\ (UNCHANGED objects \/ Users)
<1>1. CASE Users
  BY <1>1 DEF Users, Edit, WritePolicy, WriteGroup, RelabelNode, WriteDeploy, ObjectsOK
<1>2. CASE ~Users
  <2>1. UNCHANGED objects
    BY <1>2 DEF Next, vars, Handle, ListPolicies, MatchDeploy, MatchFails, PolicyMatches,
       PolicyDoesNotMatch, NoPolicy, GetDeploy, DeployFound, DeployNotFetched, PluginPanics, GetGroup,
       GroupsFetched, ListNodes, NodesListed, NotInNodeGroups, EnoughPods, DiffBased, ReadFails,
       Undecodable, ServerDies, Step, Serve, Place, AskForScores, Assume, GiveUp, GoOn, Ask, Bind,
       BindFails, Cluster, CreatePod, EvictPod, RemovePod, SetPod
  <2> QED BY <2>1 DEF objects, ObjectsOK
<1> QED BY <1>1, <1>2

\* The bounds are kept, and the history is about pods and nodes.
HistoryOK ==
  /\ edits \in 0..MaxEdits
  /\ failures \in 0..MaxFailures
  /\ quiet \in BOOLEAN
  /\ there \in [Pods -> Nodes \cup {None}]

\* Every step keeps the bounds and the history well formed.
LEMMA HistorySteps ==
  ASSUME PodsOK, HistoryOK, [Next]_vars
  PROVE  HistoryOK'
<1>1. NodeOf \in [Pods -> Nodes \cup {None}] /\ Nowhere \in [Pods -> Nodes \cup {None}]
  BY DEF PodsOK, PodStates, NodeOf, Nowhere
<1>2. edits < MaxEdits => edits + 1 \in 0..MaxEdits
  BY BoundsAreNat DEF HistoryOK
<1>3. failures < MaxFailures => failures + 1 \in 0..MaxFailures
  BY BoundsAreNat DEF HistoryOK
<1>4. CASE EnoughPods
  BY <1>1, <1>4 DEF EnoughPods, Serve, HistoryOK
<1>5. CASE Handle /\ ~EnoughPods
  <2>1. UNCHANGED <<edits, failures, quiet, there>>
    BY <1>5 DEF Handle, ListPolicies, MatchDeploy, MatchFails, PolicyMatches, PolicyDoesNotMatch,
       NoPolicy, GetDeploy, DeployFound, DeployNotFetched, PluginPanics, GetGroup, GroupsFetched,
       ListNodes, NodesListed, NotInNodeGroups, DiffBased, Step, Serve
  <2> QED BY <2>1 DEF HistoryOK
<1>6. CASE ReadFails \/ Undecodable \/ ServerDies \/ \E p \in Pods : BindFails(p)
  <2>1. failures < MaxFailures /\ failures' = failures + 1 /\ UNCHANGED <<edits, quiet, there>>
    BY <1>6 DEF ReadFails, Undecodable, ServerDies, BindFails, SetPod
  <2> QED BY <1>3, <2>1 DEF HistoryOK
<1>7. CASE Place
  <2>1. there' = Nowhere /\ quiet' = TRUE /\ UNCHANGED <<edits, failures>>
    BY <1>7 DEF Place, AskForScores, GiveUp, Assume, GoOn
  <2> QED BY <1>1, <2>1 DEF HistoryOK
<1>8. CASE Users
  <2>1. edits < MaxEdits /\ edits' = edits + 1 /\ quiet' \in BOOLEAN /\ UNCHANGED <<failures, there>>
    BY <1>8 DEF Users, Edit, WritePolicy, WriteGroup, RelabelNode, WriteDeploy
  <2> QED BY <1>2, <2>1 DEF HistoryOK
<1>9. CASE Cluster \/ UNCHANGED vars \/ \E p \in Pods : Ask(p) \/ Bind(p)
  <2>1. UNCHANGED <<edits, failures, quiet, there>>
    BY <1>9 DEF Cluster, vars, Ask, Bind, CreatePod, EvictPod, RemovePod, SetPod
  <2> QED BY <2>1 DEF HistoryOK
<1> QED BY <1>4, <1>5, <1>6, <1>7, <1>8, <1>9 DEF Next

\* The inductive invariant: its parts make up TypeOK.
Typed == ObjectsOK /\ PodsOK /\ HistoryOK /\ PassOK(pass)

\* With what is true of the pass in each phase, TypeOK is its parts.
LEMMA PartsAreTyped == (TypeOK /\ PassOK(pass) => Typed) /\ (Typed => TypeOK)
<1>1. TypeOK => ObjectsOK /\ PodsOK /\ HistoryOK
  BY DEF TypeOK, ObjectsOK, PodsOK, HistoryOK
<1>2. ASSUME ObjectsOK, PodsOK, HistoryOK, PassOK(pass) PROVE TypeOK
  <2>1. pass \in Passes
    BY <1>2 DEF PassOK
  <2>2. pass.nodesIn \in GroupsOfNodes /\ pass.pc \in Phases /\ pass.pod \in MaybePod
        /\ pass.rest \in Seq(Specs) /\ pass.nodes \in NodeSets /\ pass.status \in Statuses
    BY <2>1 DEF Passes
  <2>3. IsMap(pass.nodesIn, Nodes, Groups)
    BY <2>2 DEF GroupsOfNodes, IsMap
  <2>4. pass.pc \in {"deploys", "groups", "nodes", "pods"} => pass.policy \in Specs
    BY <1>2 DEF PassOK, Phased
  <2>5. pass.pc = "pods" => pass.deploy \in DeploySpecs
    BY <1>2 DEF PassOK, Phased
  <2>6. /\ pass.verb = "prioritize" <=> pass.plugin = "diffBased"
        /\ pass.pc = "idle" <=> pass.pod = None
        /\ pass.offer \subseteq pass.nodes
    BY <1>2 DEF PassOK
  <2>7. pass.pc \in {"idle", "policies", "match", "deploys", "groups", "nodes", "pods", "answered"}
        /\ pass.pod \in Pods \cup {None} /\ pass.nodes \subseteq Nodes
        /\ pass.status \in {0, 200, 400, 500}
    BY <2>2 DEF Phases, MaybePod, NodeSets, Statuses
  <2> QED BY <1>2, <2>2, <2>3, <2>4, <2>5, <2>6, <2>7 DEF TypeOK, ObjectsOK, PodsOK, HistoryOK
<1> QED BY <1>1, <1>2 DEF Typed

\* Every step keeps the inductive invariant.
LEMMA TypesAreKept == Typed /\ [Next]_vars => Typed'
<1> SUFFICES ASSUME Typed, [Next]_vars PROVE Typed'
  OBVIOUS
<1>1. ObjectsOK /\ PodsOK /\ HistoryOK /\ PassOK(pass)
  BY DEF Typed
<1>2. PassOK(pass')
  BY <1>1, PassSteps
<1>3. PodsOK' /\ ObjectsOK' /\ HistoryOK'
  BY <1>1, PodSteps, ObjectSteps, HistorySteps
<1> QED BY <1>2, <1>3 DEF Typed

\* Every variable has its type and every request is well formed, however the
\* steps of the server, the scheduler, the cluster and the users interleave.
THEOREM TypeCorrect == Spec => []TypeOK
<1>1. Init => Typed
  BY InitTypes, PartsAreTyped
<1>2. Typed => TypeOK
  BY PartsAreTyped
<1> QED BY <1>1, <1>2, TypesAreKept, PTL DEF Spec

=============================================================================
