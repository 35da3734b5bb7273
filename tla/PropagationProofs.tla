-------------------------- MODULE PropagationProofs --------------------------
(***************************************************************************)
(* The state of Propagation is well formed, and a deployment that is spread *)
(* as desired stays so, for every set of pods, nodes and groups.           *)
(***************************************************************************)
EXTENDS Propagation, PlacementProofs

\* The controller's cache or a pass in progress remembers only pods that have
\* been bound: a name that is remembered has not been given to another pod.
Remembered ==
  \A p \in Pods : p \in doomed \/ podCache[p] # None
                  => pods[p].phase \in {"bound", "terminating", "absent"}

Inv == TypeOK /\ Remembered

PodStates == [phase : {"absent", "pending", "assumed", "bound", "terminating"},
              node : Nodes \cup {None}]

\* What TypeOK says of one pod.
PodOK(state) == state \in PodStates /\ (state.node = None <=> state.phase \in {"absent", "pending"})

-----------------------------------------------------------------------------
\* The rollout begins with bound pods that the cache shows.
LEMMA InitHolds == Init => Inv
<1> SUFFICES ASSUME Init PROVE Inv
  OBVIOUS
<1>1. old \in SUBSET Pods
  BY EnoughNames DEF Init
<1>2. PICK at \in [old -> Nodes] :
        pods = [p \in Pods |-> IF p \in old THEN [phase |-> "bound", node |-> at[p]] ELSE Absent]
  BY DEF Init
<1>3. \A p \in Pods : /\ PodOK(pods[p])
                      /\ p \in old <=> pods[p] # Absent
                      /\ pods[p].phase \in {"bound", "absent"}
  <2> SUFFICES ASSUME NEW p \in Pods
               PROVE  /\ PodOK(pods[p])
                      /\ p \in old <=> pods[p] # Absent
                      /\ pods[p].phase \in {"bound", "absent"}
    OBVIOUS
  <2>1. CASE p \in old
    <3>1. pods[p] = [phase |-> "bound", node |-> at[p]] /\ at[p] \in Nodes
      BY <1>2, <2>1
    <3> QED BY <2>1, <3>1, NodesAreGrouped DEF PodOK, PodStates, Absent
  <2>2. CASE p \notin old
    <3>1. pods[p] = Absent
      BY <1>2, <2>2
    <3> QED BY <2>2, <3>1 DEF PodOK, PodStates, Absent
  <2> QED BY <2>1, <2>2
<1>4. pods \in [Pods -> PodStates]
  BY <1>2, <1>3 DEF PodOK
<1>5. podCache = NodeOf /\ NodeOf \in [Pods -> Nodes \cup {None}]
  BY <1>4 DEF Init, NodeOf, PodStates
<1>6. oldSize = Size /\ newSize = 0 /\ early = 0 /\ Size \in Nat /\ MaxEarly \in Nat
  BY BoundsAreNat DEF Init
<1>7. draws \in Drawings
  BY DEF Init
<1>8. TypeOK
  <2>1. old \subseteq {p \in Pods : pods[p] # Absent}
    BY <1>1, <1>3
  <2>2. oldSize \in 0..Size /\ newSize \in 0..Size /\ early \in 0..MaxEarly
    BY <1>6
  <2>3. queued = TRUE /\ working = FALSE /\ doomed = {} /\ failed = FALSE
    BY DEF Init
  <2> QED BY <1>3, <1>4, <1>5, <1>7, <2>1, <2>2, <2>3 DEF TypeOK, PodOK, PodStates
<1>9. Remembered
  BY <1>3 DEF Remembered
<1> QED BY <1>8, <1>9 DEF Inv

-----------------------------------------------------------------------------
(***************************************************************************)
(* Every step keeps the invariant.                                         *)
(***************************************************************************)

\* A step that gives one pod a new state, and leaves the worker and its cache
\* alone, keeps the invariant when the state is one the pod may have.
LEMMA OnePodChanges ==
  ASSUME Inv, NEW p \in Pods, NEW state, SetPod(p, state), PodOK(state),
         \/ state.phase \in {"bound", "terminating", "absent"}
         \/ p \notin doomed /\ podCache[p] = None,
         old' \subseteq old \cup {p}, p \in old' => state # Absent
  PROVE  Inv'
<1>1. pods \in [Pods -> PodStates] /\ pods' = [pods EXCEPT ![p] = state]
  BY DEF Inv, TypeOK, PodStates, SetPod
<1>2. pods'[p] = state /\ \A q \in Pods : q # p => pods'[q] = pods[q]
  BY <1>1
<1>3. \A q \in Pods : PodOK(pods[q])
  BY <1>1 DEF Inv, TypeOK, PodOK
<1>4. \A q \in Pods : PodOK(pods'[q])
  BY <1>2, <1>3
<1>5. pods' \in [Pods -> PodStates]
  BY <1>1, <1>4 DEF PodOK
<1>6. \A q \in old' : q \in Pods /\ pods'[q] # Absent
  BY <1>2 DEF Inv, TypeOK
<1>7. UNCHANGED <<draws, oldSize, newSize, podCache, worker, early>>
  BY DEF SetPod
<1>8. TypeOK'
  BY <1>4, <1>5, <1>6, <1>7 DEF Inv, TypeOK, PodOK, PodStates, worker
<1>9. Remembered'
  BY <1>2, <1>7 DEF Inv, Remembered, worker
<1> QED BY <1>8, <1>9 DEF Inv

\* What the cache shows is what a pod had when it was bound.
LEMMA ShownPodsAreBound ==
  ASSUME TypeOK
  PROVE  /\ NodeOf \in [Pods -> Nodes \cup {None}]
         /\ \A p \in Pods : NodeOf[p] # None => pods[p].phase \in {"bound", "terminating", "absent"}
BY DEF TypeOK, NodeOf

\* The listing of a pass shows pods of the cache.
LEMMA BeginHolds == Inv /\ Begin => Inv'
<1> SUFFICES ASSUME Inv, Begin PROVE Inv'
  OBVIOUS
<1> DEFINE Shown == {p \in Pods : podCache[p] # None}
<1>1. PICK listing \in SetToSeqs(Shown), desired \in draws :
        doomed' = PodsNeedToDelete(listing, podCache, desired, NodesIn)
  BY DEF Begin
<1>2. Shown \in SUBSET Pods /\ IsFiniteSet(Shown)
  BY EnoughNames, FS_Subset
<1>3. doomed' \in SUBSET Shown
  <2> HIDE DEF Shown
  <2>1. \E n \in Nat : listing \in [1..n -> Shown]
    BY <1>2, ListingShowsAll
  <2> QED BY <1>1, <2>1, DoomedArePlaced
<1>4. UNCHANGED <<draws, cluster, podCache, failed>> /\ working' = TRUE /\ queued' = FALSE
  BY DEF Begin
<1>5. early' \in 0..MaxEarly
  BY BoundsAreNat DEF Begin, Calm, InMotion, Inv, TypeOK
<1>6. TypeOK'
  BY <1>2, <1>3, <1>4, <1>5 DEF Inv, TypeOK, cluster
<1>7. Remembered'
  BY <1>3, <1>4 DEF Inv, Remembered, cluster
<1> QED BY <1>6, <1>7 DEF Inv

\* A pod the worker deletes has a node, so it terminates; it is not reborn.
LEMMA DeletePodHolds == ASSUME Inv, NEW p \in Pods, DeletePod(p) PROVE Inv'
<1>1. p \in doomed /\ doomed' = doomed \ {p} /\ working
  BY DEF DeletePod, Inv, TypeOK
<1>2. UNCHANGED <<draws, old, oldSize, newSize, podCache, queued, working, early>>
  BY DEF DeletePod
<1>3. CASE pods[p] = Absent
  <2>1. failed' = TRUE /\ UNCHANGED pods
    BY <1>3 DEF DeletePod
  <2>2. TypeOK'
    BY <1>1, <1>2, <2>1 DEF Inv, TypeOK
  <2>3. Remembered'
    BY <1>1, <1>2, <2>1 DEF Inv, Remembered
  <2> QED BY <2>2, <2>3 DEF Inv
<1>4. CASE pods[p] # Absent
  <2> DEFINE state == [pods[p] EXCEPT !.phase = "terminating"]
  <2>1. pods' = [pods EXCEPT ![p] = state] /\ UNCHANGED failed
    BY <1>4 DEF DeletePod
  <2>2. pods \in [Pods -> PodStates] /\ \A q \in Pods : PodOK(pods[q])
    BY DEF Inv, TypeOK, PodOK, PodStates
  <2>3. pods[p].phase \in {"bound", "terminating"}
    <3>1. pods[p].phase \in {"bound", "terminating", "absent"}
      BY <1>1 DEF Inv, Remembered
    <3>2. pods[p].phase # "absent"
      BY <1>4, <2>2 DEF PodOK, PodStates, Absent
    <3> QED BY <3>1, <3>2
  <2>4. PodOK(state) /\ state.phase = "terminating"
    BY <2>2, <2>3 DEF PodOK, PodStates
  <2> HIDE DEF state
  <2>5. pods'[p] = state /\ \A q \in Pods : q # p => pods'[q] = pods[q]
    BY <2>1, <2>2
  <2>6. \A q \in Pods : PodOK(pods'[q])
    BY <2>2, <2>4, <2>5
  <2>7. pods' \in [Pods -> PodStates]
    BY <2>1, <2>2, <2>6 DEF PodOK
  <2>8. old' \subseteq {q \in Pods : pods'[q] # Absent}
    BY <1>2, <2>4, <2>5 DEF Inv, TypeOK, Absent
  <2>9. TypeOK'
    BY <1>1, <1>2, <2>1, <2>6, <2>7, <2>8 DEF Inv, TypeOK, PodOK, PodStates
  <2>10. Remembered'
    BY <1>1, <1>2, <2>4, <2>5 DEF Inv, Remembered
  <2> QED BY <2>9, <2>10 DEF Inv
<1> QED BY <1>3, <1>4

\* The other steps of the controller.
LEMMA ManagerHolds == Inv /\ (Finish \/ Resync \/ Restart) => Inv'
<1> SUFFICES ASSUME Inv, Finish \/ Resync \/ Restart PROVE Inv'
  OBVIOUS
<1>1. CASE Finish \/ Resync
  <2>1. UNCHANGED <<draws, cluster, podCache, doomed, early>>
    BY <1>1 DEF Finish, Resync
  <2>2. Remembered'
    BY <2>1 DEF Inv, Remembered, cluster
  <2>3. /\ queued' \in BOOLEAN /\ working' \in BOOLEAN /\ failed' \in BOOLEAN
        /\ ~working' => doomed' = {} /\ ~failed'
    <3>1. CASE Finish
      <4>1. working' = FALSE /\ failed' = FALSE /\ doomed = {} /\ queued' = (queued \/ failed)
        BY <3>1 DEF Finish
      <4> QED BY <2>1, <4>1
    <3>2. CASE Resync
      <4>1. queued' = TRUE /\ UNCHANGED <<working, failed>>
        BY <3>2 DEF Resync
      <4> QED BY <2>1, <4>1 DEF Inv, TypeOK
    <3> QED BY <1>1, <3>1, <3>2
  <2>4. TypeOK'
    BY <2>1, <2>3 DEF Inv, TypeOK, cluster
  <2> QED BY <2>2, <2>4 DEF Inv
<1>2. CASE Restart
  <2>1. UNCHANGED <<draws, cluster>> /\ podCache' = NodeOf /\ doomed' = {}
    BY <1>2 DEF Restart
  <2>2. early' \in 0..MaxEarly
    BY <1>2, BoundsAreNat DEF Restart, InMotion, Inv, TypeOK
  <2>3. TypeOK'
    BY <1>2, <2>1, <2>2, ShownPodsAreBound DEF Inv, TypeOK, cluster, Restart
  <2>4. Remembered'
    BY <2>1, ShownPodsAreBound DEF Inv, Remembered, cluster
  <2> QED BY <2>3, <2>4 DEF Inv
<1> QED BY <1>1, <1>2

\* The steps of the scheduler, the kubelets and the replica sets.
LEMMA ClusterHolds == Inv /\ Cluster => Inv'
<1> SUFFICES ASSUME Inv, Cluster PROVE Inv'
  OBVIOUS
<1>0. /\ TypeOK /\ Remembered /\ pods \in [Pods -> PodStates]
      /\ \A p \in Pods : PodOK(pods[p])
  BY DEF Inv, TypeOK, PodOK, PodStates
<1>1. CASE Roll
  <2>1. UNCHANGED <<draws, pods, old, podCache, worker, early>>
    BY <1>1 DEF Roll
  <2>2. oldSize' \in 0..Size /\ newSize' \in 0..Size
    BY <1>0, <1>1, BoundsAreNat DEF Roll, TypeOK
  <2>3. TypeOK'
    BY <1>0, <2>1, <2>2 DEF TypeOK, worker
  <2>4. Remembered'
    BY <1>0, <2>1 DEF Remembered, worker
  <2> QED BY <2>3, <2>4 DEF Inv
<1>2. CASE CreatePod
  <2> DEFINE p == CHOOSE q \in Free : TRUE
  <2>1. p \in Free
    BY <1>2 DEF CreatePod
  <2>2. SetPod(p, Pending) /\ old' \subseteq old \cup {p}
    BY <1>2 DEF CreatePod
  <2> HIDE DEF p
  <2>3. p \in Pods /\ p \notin doomed /\ podCache[p] = None
    BY <2>1 DEF Free
  <2>4. PodOK(Pending) /\ Pending # Absent
    BY DEF PodOK, PodStates, Pending, Absent
  <2> QED BY <2>2, <2>3, <2>4, OnePodChanges
<1>3. ASSUME NEW p \in Pods, Place(p) PROVE Inv'
  <2>1. PICK desired \in draws : \E n \in Offer(desired) :
          SetPod(p, [phase |-> "assumed", node |-> n])
    BY <1>3 DEF Place
  <2>2. PICK n \in Offer(desired) : SetPod(p, [phase |-> "assumed", node |-> n])
    BY <2>1
  <2> DEFINE state == [phase |-> "assumed", node |-> n]
  <2>3. n \in Nodes /\ n # None
    BY NodesAreGrouped DEF Offer
  <2>4. PodOK(state) /\ state # Absent
    BY <2>3 DEF PodOK, PodStates, Absent
  <2>5. pods[p].phase = "pending" /\ old' = old
    BY <1>3 DEF Place, Pending
  <2>6. p \notin doomed /\ podCache[p] = None
    BY <1>0, <2>5 DEF Remembered
  <2> HIDE DEF state
  <2> QED BY <2>2, <2>4, <2>5, <2>6, OnePodChanges DEF state
<1>4. ASSUME NEW p \in Pods, Bind(p) PROVE Inv'
  <2> DEFINE state == [pods[p] EXCEPT !.phase = "bound"]
  <2>1. SetPod(p, state) /\ old' = old /\ pods[p].phase = "assumed"
    BY <1>4 DEF Bind
  <2>2. PodOK(state) /\ state.phase = "bound" /\ state # Absent
    BY <1>0, <2>1 DEF PodOK, PodStates, Absent
  <2> HIDE DEF state
  <2> QED BY <2>1, <2>2, OnePodChanges
<1>5. ASSUME NEW p \in Pods, RemovePod(p) PROVE Inv'
  <2>1. SetPod(p, Absent) /\ old' = old \ {p}
    BY <1>5 DEF RemovePod
  <2>2. PodOK(Absent) /\ Absent.phase = "absent"
    BY DEF PodOK, PodStates, Absent
  <2> QED BY <2>1, <2>2, OnePodChanges
<1>6. ASSUME NEW p \in Pods, ScaleDown(p) PROVE Inv'
  <2>1. CASE pods[p].phase = "bound"
    <3> DEFINE state == [pods[p] EXCEPT !.phase = "terminating"]
    <3>1. SetPod(p, state) /\ old' = old
      BY <1>6, <2>1 DEF ScaleDown
    <3>2. PodOK(state) /\ state.phase = "terminating" /\ state # Absent
      BY <1>0, <2>1 DEF PodOK, PodStates, Absent
    <3> HIDE DEF state
    <3> QED BY <3>1, <3>2, OnePodChanges
  <2>2. CASE pods[p].phase # "bound"
    <3>1. SetPod(p, Absent) /\ old' = old \ {p}
      BY <1>6, <2>2 DEF ScaleDown
    <3>2. PodOK(Absent) /\ Absent.phase = "absent"
      BY DEF PodOK, PodStates, Absent
    <3> QED BY <3>1, <3>2, OnePodChanges
  <2> QED BY <2>1, <2>2
<1>7. ASSUME NEW p \in Pods, SyncPod(p) PROVE Inv'
  <2>1. /\ podCache' = [podCache EXCEPT ![p] = NodeOf[p]]
        /\ UNCHANGED <<draws, cluster, worker, early>>
    BY <1>7 DEF SyncPod
  <2>2. /\ podCache' \in [Pods -> Nodes \cup {None}]
        /\ \A q \in Pods : podCache'[q] # None =>
             podCache[q] # None \/ pods[q].phase \in {"bound", "terminating", "absent"}
    <3>1. podCache \in [Pods -> Nodes \cup {None}]
      BY <1>0 DEF TypeOK
    <3>2. \A q \in Pods : podCache'[q] = IF q = p THEN NodeOf[p] ELSE podCache[q]
      BY <2>1, <3>1
    <3> QED BY <1>0, <2>1, <3>1, <3>2, ShownPodsAreBound
  <2>3. TypeOK'
    BY <1>0, <2>1, <2>2 DEF TypeOK, cluster, worker
  <2>4. Remembered'
    BY <1>0, <2>1, <2>2 DEF Remembered, cluster, worker
  <2> QED BY <2>3, <2>4 DEF Inv
<1> QED BY <1>1, <1>2, <1>3, <1>4, <1>5, <1>6, <1>7 DEF Cluster

\* Every step keeps the inductive invariant.
LEMMA InvIsKept == Inv /\ [Next]_vars => Inv'
<1> SUFFICES ASSUME Inv, [Next]_vars PROVE Inv'
  OBVIOUS
<1>1. CASE UNCHANGED vars
  BY <1>1 DEF vars, cluster, worker, Inv, TypeOK, Remembered
<1> QED BY <1>1, BeginHolds, DeletePodHolds, ManagerHolds, ClusterHolds DEF Next, Reconcile

\* The state is well formed; a pod the worker deletes is never one that still
\* waits for a node.
THEOREM TypeCorrect == Spec => []TypeOK
<1>1. Inv => TypeOK
  BY DEF Inv
<1> QED BY <1>1, InitHolds, InvIsKept, PTL DEF Spec

-----------------------------------------------------------------------------
(***************************************************************************)
(* The end of the rollout.                                                 *)
(***************************************************************************)

\* A pass that finds the balance picks no pod: the cache shows the pods that run,
\* and of those as many run in a group as the only number it may draw.
LEMMA NothingIsTooMany == Inv /\ AtBalance /\ Begin => doomed' = {}
<1> SUFFICES ASSUME Inv, AtBalance, Begin, NEW p \in doomed' PROVE FALSE
  OBVIOUS
<1> DEFINE Shown == {q \in Pods : podCache[q] # None}
<1>1. PICK listing \in SetToSeqs(Shown), desired \in draws :
        doomed' = PodsNeedToDelete(listing, podCache, desired, NodesIn)
  BY DEF Begin
<1>2. Shown \in SUBSET Pods /\ IsFiniteSet(Shown)
  BY EnoughNames, FS_Subset
<1>3. p \in Shown /\ podCache[p] \in DOMAIN NodesIn
  <2> HIDE DEF Shown
  <2>1. \E n \in Nat : listing \in [1..n -> Shown]
    BY <1>2, ListingShowsAll
  <2> QED BY <1>1, <2>1, DoomedArePlaced
<1> DEFINE g == NodesIn[podCache[p]]
           here == {q \in Shown : RunsIn(q, g, podCache, NodesIn)}
           goal == Lookup(desired, g)
<1>4. g \in Groups
  BY <1>3, NodesAreGrouped
<1>5. podCache = NodeOf /\ \A q \in Pods : pods[q].phase \in {"absent", "bound"}
  BY DEF AtBalance, AtRest
<1>6. Shown = Running
  <2>1. ASSUME NEW q \in Pods PROVE podCache[q] # None <=> pods[q].phase = "bound"
    <3>1. podCache[q] = IF pods[q].phase \in {"bound", "terminating"} THEN pods[q].node ELSE None
      BY <1>5 DEF NodeOf
    <3>2. pods[q].phase = "bound" => pods[q].node # None
      BY DEF Inv, TypeOK
    <3> QED BY <1>5, <3>1, <3>2
  <2> QED BY <2>1 DEF Running
<1>7. Cardinality(here) = goal
  <2>1. PICK want \in draws : \A h \in Groups :
          Cardinality({q \in Running : RunsIn(q, h, NodeOf, NodesIn)}) = Lookup(want, h)
    BY DEF AtBalance, Balanced
  <2>2. want = desired
    BY DEF AtBalance, Exact
  <2> QED BY <1>4, <1>5, <1>6, <2>1, <2>2
<1>8. IsFiniteSet(here) /\ Cardinality(here) \in Nat
  BY <1>2, FS_Subset, FS_CardinalityType
<1>9. goal \in Nat
  BY <1>7, <1>8
<1>10. Cardinality(here \ doomed') = LeastOf(Cardinality(here), Floor0(goal))
  <2> HIDE DEF Shown, g
  <2> QED BY <1>1, <1>2, <1>9, ListingIsCutToTheGoal
<1>11. Cardinality(here \ doomed') = Cardinality(here)
  <2> HIDE DEF here, goal
  <2> QED BY <1>7, <1>9, <1>10 DEF LeastOf, Floor0
<1>12. here \ doomed' = here
  <2> HIDE DEF here
  <2>1. here \ doomed' \subseteq here
    OBVIOUS
  <2> QED BY <1>8, <1>11, <2>1, FS_Subset
<1>13. p \in here
  BY <1>3 DEF RunsIn
<1> QED BY <1>12, <1>13

\* Until a pod, the rollout or the cache moves, the balance is not lost.
LEMMA BalanceRests ==
  ASSUME AtBalance, UNCHANGED <<draws, cluster, podCache, doomed>>
  PROVE  AtBalance'
BY DEF AtBalance, AtRest, Exact, Balanced, Running, NodeOf, cluster

\* In a balance no step but Resync, a pass that deletes nothing and a restart is left.
LEMMA BalanceIsKept == Inv /\ AtBalance /\ [Next]_vars => AtBalance'
<1> SUFFICES ASSUME Inv, AtBalance, [Next]_vars PROVE AtBalance'
  OBVIOUS
<1>1. /\ podCache = NodeOf /\ oldSize = 0 /\ old = {} /\ newSize = Size /\ doomed = {}
      /\ \A p \in Pods : pods[p].phase \in {"absent", "bound"}
      /\ Cardinality(Running) = Size /\ Size \in Nat
  BY BoundsAreNat DEF AtBalance, AtRest
<1>2. CASE Begin
  <2>1. UNCHANGED <<draws, cluster, podCache>>
    BY <1>2 DEF Begin
  <2> QED BY <1>1, <1>2, <2>1, NothingIsTooMany, BalanceRests
<1>3. CASE Finish \/ Resync \/ UNCHANGED vars
  <2>1. UNCHANGED <<draws, cluster, podCache, doomed>>
    BY <1>3 DEF Finish, Resync, vars, worker
  <2> QED BY <2>1, BalanceRests
<1>4. CASE Restart
  <2>1. UNCHANGED <<draws, cluster, podCache, doomed>>
    BY <1>1, <1>4 DEF Restart
  <2> QED BY <2>1, BalanceRests
<1>5. ~\E p \in Pods : DeletePod(p)
  BY <1>1 DEF DeletePod
<1>6. CASE Cluster
  <2>1. ~Roll
    BY <1>1 DEF Roll
  <2>2. ~CreatePod
    <3>1. Alive = Running
      BY <1>1 DEF Alive, Running
    <3>2. Alive \cap old = {} /\ Alive \ old = Running
      BY <1>1, <3>1
    <3>3. Cardinality({}) = 0
      BY FS_EmptySet
    <3>4. ~(Cardinality(Alive \cap old) < oldSize) /\ ~(Cardinality(Alive \ old) < newSize)
      BY <1>1, <3>2, <3>3
    <3> QED BY <3>4 DEF CreatePod
  <2>3. ASSUME NEW p \in Pods PROVE ~Place(p) /\ ~Bind(p) /\ ~RemovePod(p) /\ ~ScaleDown(p)
    <3>1. pods[p].phase \in {"absent", "bound"}
      BY <1>1
    <3>2. ~Place(p)
      BY <3>1 DEF Place, Pending
    <3>3. ~Bind(p) /\ ~RemovePod(p) /\ ~ScaleDown(p)
      BY <1>1, <3>1 DEF Bind, RemovePod, ScaleDown
    <3> QED BY <3>2, <3>3
  <2>4. ASSUME NEW p \in Pods, SyncPod(p) PROVE AtBalance'
    <3>1. UNCHANGED <<draws, cluster, worker>> /\ podCache' = [podCache EXCEPT ![p] = NodeOf[p]]
      BY <2>4 DEF SyncPod
    <3>2. podCache' = podCache
      BY <1>1, <3>1 DEF NodeOf
    <3> QED BY <3>1, <3>2, BalanceRests DEF worker
  <2> QED BY <1>6, <2>1, <2>2, <2>3, <2>4 DEF Cluster
<1> QED BY <1>2, <1>3, <1>4, <1>5, <1>6 DEF Next, Reconcile

\* The spread the extender aims at is one the controller leaves alone: a rollout
\* that has come to its end spread as desired stays so.
THEOREM BalanceStays == Spec => BalanceIsStable
<1>1. Inv /\ [Next]_vars => [AtBalance => AtBalance']_vars
  BY BalanceIsKept
<1> QED BY <1>1, InitHolds, InvIsKept, PTL DEF Spec, BalanceIsStable

=============================================================================
