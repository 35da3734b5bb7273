---------------------- MODULE NodeGroupControllerProofs ----------------------
(***************************************************************************)
(* Theorems about NodeGroupController for every number of groups and nodes *)
(* and every bound on the events.                                          *)
(***************************************************************************)
EXTENDS NodeGroupController, FiniteSetTheorems, TLAPS

-----------------------------------------------------------------------------
(***************************************************************************)
(* Type correctness                                                        *)
(***************************************************************************)
\* The members of a group are nodes, and their listings sequences of nodes
\* that hold exactly them.
LEMMA ListingTypes ==
  ASSUME NEW l, NEW s \in Listings(Members(l))
  PROVE  s \in Seq(Nodes) /\ Range(s) = Members(l) /\ Range(s) \subseteq Nodes
<1>1. Members(l) \subseteq Nodes
  BY DEF Members
<1>2. Cardinality(Members(l)) \in Nat
  BY <1>1, NodesAreFinite, FS_Subset, FS_CardinalityType
<1>3. s \in [1..Cardinality(Members(l)) -> Nodes]
  BY <1>1 DEF Listings
<1>4. s \in Seq(Nodes)
  BY <1>2, <1>3
<1> QED
  BY <1>1, <1>4 DEF Listings

\* The elements of a sequence of nodes are nodes.
LEMMA RangeOfSeq ==
  ASSUME NEW s \in Seq(Nodes)
  PROVE  Range(s) \subseteq Nodes
BY DEF Range

\* What a listing leaves in viewed.
LEMMA SeeNodesTypes ==
  ASSUME TypeOK, key # None, NEW s \in Listings(Members(copy.matchLabels)), SeeNodes(s)
  PROVE  /\ viewed' \in [Groups -> Views]
         /\ viewed'[key] = [matchLabels |-> copy.matchLabels, nodes |-> Range(s)]
         /\ \A g \in Groups \ {key} : viewed'[g] = viewed[g]
<1>1. copy.matchLabels \in Selectors /\ key \in Groups
  BY DEF TypeOK, Objects
<1>2. Range(s) \subseteq Nodes
  BY ListingTypes
<1>3. [matchLabels |-> copy.matchLabels, nodes |-> Range(s)] \in Views
  BY <1>1, <1>2 DEF Views
<1> QED
  BY <1>1, <1>3 DEF SeeNodes, TypeOK

\* Returning from Reconcile leaves well-typed locals.
LEMMA ReturnTypes ==
  ASSUME Return
  PROVE  pc' = "idle" /\ key' = None /\ copy' \in Objects /\ listing' \in Seq(Nodes)
BY DEF Return, Objects

\* Another event stays within the bound.
LEMMA SpentTypes ==
  ASSUME TypeOK, spent < MaxEvents, spent' = spent + 1
  PROVE  spent' \in 0..MaxEvents
BY MaxEventsIsNat DEF TypeOK

\* Writing one field of a group leaves an object.
LEMMA NewStatus ==
  ASSUME NEW G \in [Groups -> Objects], NEW g \in Groups, G[g] # None, NEW s \in Seq(Nodes)
  PROVE  /\ [G EXCEPT ![g].status = s] \in [Groups -> Objects]
         /\ [G EXCEPT ![g].status = s][g] = [G[g] EXCEPT !.status = s]
<1>1. G[g] \in [matchLabels : Selectors, status : Seq(Nodes), deleting : BOOLEAN]
  BY DEF Objects
<1>2. [G[g] EXCEPT !.status = s] \in Objects
  BY <1>1 DEF Objects
<1>3. [G EXCEPT ![g].status = s] = [G EXCEPT ![g] = [G[g] EXCEPT !.status = s]]
  OBVIOUS
<1> QED
  BY <1>2, <1>3

\* The same of the mark that it is being deleted.
LEMMA NowDeleting ==
  ASSUME NEW G \in [Groups -> Objects], NEW g \in Groups, G[g] # None
  PROVE  /\ [G EXCEPT ![g].deleting = TRUE] \in [Groups -> Objects]
         /\ [G EXCEPT ![g].deleting = TRUE][g] = [G[g] EXCEPT !.deleting = TRUE]
<1>1. G[g] \in [matchLabels : Selectors, status : Seq(Nodes), deleting : BOOLEAN]
  BY DEF Objects
<1>2. [G[g] EXCEPT !.deleting = TRUE] \in Objects
  BY <1>1 DEF Objects
<1>3. [G EXCEPT ![g].deleting = TRUE] = [G EXCEPT ![g] = [G[g] EXCEPT !.deleting = TRUE]]
  OBVIOUS
<1> QED
  BY <1>2, <1>3

\* Every step of the worker keeps the types.
LEMMA ReconcileTypes == TypeOK /\ Reconcile => TypeOK'
<1> SUFFICES ASSUME TypeOK, Reconcile PROVE TypeOK'
  OBVIOUS
<1> USE NoneIsNothing, MaxEventsIsNat
<1>1. ASSUME NEW g \in Groups, Get(g) PROVE TypeOK'
  BY <1>1 DEF TypeOK, Get, server
<1>2. ASSUME NEW g \in Groups, GetNotFound(g) PROVE TypeOK'
  BY <1>2 DEF TypeOK, GetNotFound, server, worker
<1>3. CASE ListSame
  <2>1. viewed' \in [Groups -> Views]
    BY <1>3, SeeNodesTypes DEF ListSame, TypeOK
  <2>2. Return /\ copyStale' = FALSE
        /\ UNCHANGED <<group, undelivered, groupCache, nodeLabels, queue, dropped, spent>>
    BY <1>3 DEF ListSame, server
  <2> QED
    BY <2>1, <2>2, ReturnTypes DEF TypeOK
<1>4. CASE ListDiffers
  <2>1. viewed' \in [Groups -> Views] /\ listing' \in Seq(Nodes)
    BY <1>4, SeeNodesTypes, ListingTypes DEF ListDiffers, TypeOK
  <2>2. /\ pc = "list" /\ pc' = "update"
        /\ UNCHANGED <<group, undelivered, groupCache, nodeLabels, queue, key, copy, copyStale,
                       dropped, spent>>
    BY <1>4 DEF ListDiffers, server
  <2> QED
    BY <2>1, <2>2 DEF TypeOK
<1>5. CASE ListFails
  <2>1. key \in Groups /\ spent' \in 0..MaxEvents
    BY <1>5, SpentTypes DEF TypeOK, ListFails
  <2> QED
    BY <1>5, <2>1, ReturnTypes DEF TypeOK, ListFails, server
<1>6. CASE Update
  <2>1. /\ key \in Groups /\ group[key] # None /\ listing \in Seq(Nodes)
        /\ group' = [group EXCEPT ![key].status = listing]
    BY <1>6 DEF Update, TypeOK
  <2>2. group[key] \in [matchLabels : Selectors, status : Seq(Nodes), deleting : BOOLEAN]
    BY <2>1 DEF TypeOK, Objects
  <2>3. group' \in [Groups -> Objects]
    BY <2>1, <2>2, NewStatus DEF TypeOK
  <2> QED
    BY <1>6, <2>1, <2>3, ReturnTypes DEF TypeOK, Update
<1>7. CASE RefuseUpdate
  BY <1>7, ReturnTypes DEF TypeOK, RefuseUpdate, server
<1>8. CASE UpdateFails
  <2>1. key \in Groups /\ spent' \in 0..MaxEvents
    BY <1>8, SpentTypes DEF TypeOK, UpdateFails
  <2> QED
    BY <1>8, <2>1, ReturnTypes DEF TypeOK, UpdateFails, server
<1>9. CASE Remove
  <2>1. group' \in [Groups -> Objects] /\ undelivered' \subseteq Groups
    <3>1. CASE Live(key)
      <4>1. key \in Groups /\ group[key] # None
        BY <1>9, <3>1 DEF Remove, Live, TypeOK
      <4>2. \/ group' = [group EXCEPT ![key] = None]
            \/ group' = [group EXCEPT ![key].deleting = TRUE]
        BY <1>9, <3>1 DEF Remove
      <4>3. undelivered' = undelivered \cup {key}
        BY <1>9, <3>1 DEF Remove
      <4>4. None \in Objects
        BY DEF Objects
      <4> QED
        BY <4>1, <4>2, <4>3, <4>4, NowDeleting DEF TypeOK
    <3>2. CASE ~Live(key)
      BY <1>9, <3>2 DEF Remove, server, TypeOK
    <3> QED
      BY <3>1, <3>2
  <2> QED
    BY <1>9, <2>1, ReturnTypes DEF TypeOK, Remove
<1>10. CASE RemoveFails
  <2>1. key \in Groups /\ spent' \in 0..MaxEvents
    BY <1>10, SpentTypes DEF TypeOK, RemoveFails
  <2> QED
    BY <1>10, <2>1, ReturnTypes DEF TypeOK, RemoveFails, server
<1> QED
  BY <1>1, <1>2, <1>3, <1>4, <1>5, <1>6, <1>7, <1>8, <1>9, <1>10 DEF Reconcile

\* A write to one group keeps the types.
LEMMA WriteTypes ==
  ASSUME TypeOK, Edit, NEW g \in Groups, NEW object \in Objects, Write(g, object),
         nodeLabels' = nodeLabels
  PROVE  TypeOK'
<1>1. spent' \in 0..MaxEvents
  BY SpentTypes DEF Edit
<1>2. group' \in [Groups -> Objects] /\ undelivered' \subseteq Groups /\ copyStale' \in BOOLEAN
  BY DEF Write, TypeOK
<1> QED
  BY <1>1, <1>2 DEF TypeOK, Edit

\* Every step of the users keeps the types.
LEMMA UsersTypes == TypeOK /\ Users => TypeOK'
<1> SUFFICES ASSUME TypeOK, Users PROVE TypeOK'
  OBVIOUS
<1>1. ASSUME NEW g \in Groups, NEW l \in Selectors, CreateGroup(g, l) PROVE TypeOK'
  <2>1. [matchLabels |-> l, status |-> <<>>, deleting |-> FALSE] \in Objects
    BY DEF Objects
  <2> QED
    BY <1>1, <2>1, WriteTypes DEF CreateGroup
<1>2. ASSUME NEW g \in Groups, NEW l \in Selectors, EditGroup(g, l) PROVE TypeOK'
  <2>1. group[g] \in [matchLabels : Selectors, status : Seq(Nodes), deleting : BOOLEAN]
    BY <1>2 DEF EditGroup, TypeOK, Objects
  <2>2. [group[g] EXCEPT !.matchLabels = l] \in Objects
    BY <2>1 DEF Objects
  <2> QED
    BY <1>2, <2>2, WriteTypes DEF EditGroup
<1>3. ASSUME NEW g \in Groups, MarkDeleting(g) PROVE TypeOK'
  <2>1. group[g] \in [matchLabels : Selectors, status : Seq(Nodes), deleting : BOOLEAN]
    BY <1>3 DEF MarkDeleting, Live, TypeOK, Objects
  <2>2. [group[g] EXCEPT !.deleting = TRUE] \in Objects
    BY <2>1 DEF Objects
  <2> QED
    BY <1>3, <2>2, WriteTypes DEF MarkDeleting
<1>4. ASSUME NEW g \in Groups, Disappear(g) PROVE TypeOK'
  <2>1. None \in Objects
    BY DEF Objects
  <2> QED
    BY <1>4, <2>1, WriteTypes DEF Disappear
<1>5. ASSUME NEW n \in Nodes, NEW l \in LabelSets, RelabelNode(n, l) PROVE TypeOK'
  <2>1. spent' \in 0..MaxEvents
    BY <1>5, SpentTypes DEF RelabelNode, Edit
  <2> QED
    BY <1>5, <2>1 DEF RelabelNode, Edit, TypeOK, server
<1> QED
  BY <1>1, <1>2, <1>3, <1>4, <1>5 DEF Users

\* Every step of the informers keeps the types.
LEMMA InformersTypes == TypeOK /\ Informers => TypeOK'
BY DEF Informers, Resync, Deliver, TypeOK, server, worker

\* A restart leaves the worker as Return does, and the cache a copy.
LEMMA RestartTypes == TypeOK /\ Restart => TypeOK'
<1> SUFFICES ASSUME TypeOK, Restart PROVE TypeOK'
  OBVIOUS
<1>1. spent' \in 0..MaxEvents
  BY SpentTypes DEF Restart
<1> QED
  BY <1>1, ReturnTypes DEF TypeOK, Restart

\* The initial state has the declared types.
LEMMA InitTypes == Init => TypeOK
<1> SUFFICES ASSUME Init PROVE TypeOK
  OBVIOUS
<1>1. group \in [Groups -> Objects]
  <2>1. <<>> \in Seq(Nodes)
    OBVIOUS
  <2>2. [matchLabels : Selectors, status : {<<>>}, deleting : {FALSE}] \cup {None} \subseteq Objects
    BY <2>1 DEF Objects
  <2> QED
    BY <2>2 DEF Init
<1>2. viewed \in [Groups -> Views] /\ copy \in Objects
  BY DEF Init, Views, Objects
<1>3. listing \in Seq(Nodes)
  BY DEF Init
<1>4. spent \in 0..MaxEvents
  BY MaxEventsIsNat DEF Init
<1>5. copyStale \in BOOLEAN
  BY DEF Init
<1>6. /\ groupCache \in [Groups -> Objects] /\ undelivered \subseteq Groups
      /\ nodeLabels \in [Nodes -> LabelSets] /\ queue \subseteq Groups /\ dropped \subseteq Groups
  BY <1>1 DEF Init
<1>7. /\ pc \in {"idle", "list", "update", "remove"} /\ key \in Groups \cup {None}
      /\ pc = "idle" <=> key = None
      /\ key # None => copy # None
  BY DEF Init
<1> QED
  BY <1>1, <1>2, <1>3, <1>4, <1>5, <1>6, <1>7 DEF TypeOK

\* Every variable keeps to the values the code can give it.
THEOREM TypeCorrect == Spec => []TypeOK
<1>1. TypeOK /\ [Next]_vars => TypeOK'
  <2>1. TypeOK /\ UNCHANGED vars => TypeOK'
    BY DEF TypeOK, vars, server, worker
  <2> QED
    BY <2>1, ReconcileTypes, UsersTypes, InformersTypes, RestartTypes DEF Next
<1> QED
  BY InitTypes, <1>1, PTL DEF Spec

-----------------------------------------------------------------------------
(***************************************************************************)
(* The status of a group at rest.  Settled is not inductive: that a        *)
(* refused update loses nothing rests on a newer version being on its way  *)
(* (CopyStaleOK), that an accepted one says the right thing on the copy    *)
(* being the group itself (CopyFreshOK) and on what was listed (ViewOK).   *)
(***************************************************************************)
\* A cache entry with nothing on its way is up to date.
CacheOK == \A g \in Groups \ undelivered : groupCache[g] = group[g]

\* So is a copy that is not outdated,
CopyFreshOK == key # None /\ ~copyStale => group[key] = copy

\* and when it is outdated the newer version will be worked on.
CopyStaleOK == copyStale => key \in undelivered \cup queue

\* The status about to be written is that of the last listing.
ViewOK ==
  pc = "update" => viewed[key] = [matchLabels |-> copy.matchLabels, nodes |-> Range(listing)]

\* A group is taken for removal only when the copy says it is being deleted.
RemoveOK == pc = "remove" => copy.deleting

StatusInv == CacheOK /\ CopyFreshOK /\ CopyStaleOK /\ ViewOK /\ RemoveOK /\ Settled

\* What Settled says of one group.
SettledOne(g) ==
  g # key /\ Live(g) =>
    /\ viewed[g] # None
    /\ viewed[g].matchLabels = group[g].matchLabels
    /\ viewed[g].nodes = Range(group[g].status)

\* A worker that returns without having written anything keeps the invariant
\* if the group it worked on is settled or will be looked at again.
LEMMA ReturnKeeps ==
  ASSUME TypeOK, StatusInv, Return, copyStale' = FALSE, pc # "idle",
         NEW k \in Groups, k = key,
         UNCHANGED <<group, undelivered, groupCache>>,
         queue \subseteq queue', dropped \subseteq dropped',
         \A g \in Groups \ {k} : viewed'[g] = viewed[g],
         k \in undelivered \cup queue' \cup dropped' \/ SettledOne(k)'
  PROVE  StatusInv'
<1>2. CacheOK' /\ CopyFreshOK' /\ CopyStaleOK' /\ ViewOK' /\ RemoveOK'
  BY DEF StatusInv, CacheOK, CopyFreshOK, CopyStaleOK, ViewOK, RemoveOK, Return
<1>3. Settled'
  <2> SUFFICES ASSUME NEW g \in Groups \ (queue' \cup undelivered' \cup dropped')
               PROVE  SettledOne(g)'
    BY DEF Settled, SettledOne, Live
  <2>1. CASE g = k
    BY <2>1
  <2>2. CASE g # k
    BY <2>2 DEF StatusInv, Settled, SettledOne, Live
  <2> QED
    BY <2>1, <2>2
<1> QED
  BY <1>2, <1>3 DEF StatusInv

\* The worker is at work on some group.
LEMMA WorkedOn ==
  ASSUME TypeOK, pc # "idle"
  PROVE  \E k \in Groups : k = key
BY DEF TypeOK

\* Every step of the worker keeps the invariant.
LEMMA ReconcileStatus == TypeOK /\ StatusInv /\ Reconcile => StatusInv'
<1> SUFFICES ASSUME TypeOK, StatusInv, Reconcile PROVE StatusInv'
  OBVIOUS
<1> USE NoneIsNothing
<1>1. ASSUME NEW g \in Groups, Get(g) PROVE StatusInv'
  <2>1. CacheOK' /\ CopyFreshOK' /\ CopyStaleOK' /\ ViewOK' /\ RemoveOK'
    BY <1>1 DEF Get, server, StatusInv, CacheOK, CopyFreshOK, CopyStaleOK, ViewOK, RemoveOK
  <2>2. Settled'
    BY <1>1 DEF Get, server, TypeOK, StatusInv, Settled, Live
  <2> QED
    BY <2>1, <2>2 DEF StatusInv
<1>2. ASSUME NEW g \in Groups, GetNotFound(g) PROVE StatusInv'
  <2>1. CacheOK' /\ CopyFreshOK' /\ CopyStaleOK' /\ ViewOK' /\ RemoveOK'
    BY <1>2 DEF GetNotFound, server, worker, TypeOK, StatusInv, CacheOK, CopyFreshOK,
                CopyStaleOK, ViewOK, RemoveOK
  <2>2. Settled'
    BY <1>2 DEF GetNotFound, server, worker, StatusInv, CacheOK, Settled, Live
  <2> QED
    BY <2>1, <2>2 DEF StatusInv
<1>3. CASE ListSame
  <2>0. PICK k \in Groups : k = key
    BY <1>3, WorkedOn DEF ListSame
  <2>1. /\ key # None /\ Return /\ copyStale' = FALSE /\ pc # "idle"
        /\ UNCHANGED <<group, undelivered, groupCache, queue, dropped>>
        /\ copy.status \in Listings(Members(copy.matchLabels)) /\ SeeNodes(copy.status)
    BY <1>3 DEF ListSame, server, TypeOK
  <2>2. /\ viewed'[key] = [matchLabels |-> copy.matchLabels, nodes |-> Range(copy.status)]
        /\ \A g \in Groups \ {key} : viewed'[g] = viewed[g]
    BY <2>1, SeeNodesTypes
  <2>3. viewed'[key] # None
    <3>1. copy.matchLabels \in Selectors /\ Range(copy.status) \subseteq Nodes
      BY <2>1, ListingTypes DEF TypeOK, Objects
    <3> QED
      BY <2>2, <3>1
  <2>4. CASE copyStale
    BY <2>1, <2>2, <2>4, <2>0, ReturnKeeps DEF StatusInv, CopyStaleOK
  <2>5. CASE ~copyStale
    <3>1. group[key] = copy
      BY <2>1, <2>5 DEF StatusInv, CopyFreshOK
    <3>2. SettledOne(k)'
      BY <2>1, <2>2, <2>3, <3>1, <2>0 DEF SettledOne, Return
    <3> QED
      BY <2>1, <2>2, <3>2, <2>0, ReturnKeeps
  <2> QED
    BY <2>4, <2>5 DEF TypeOK
<1>4. CASE ListDiffers
  <2>1. PICK l \in Listings(Members(copy.matchLabels)) : listing' = l /\ SeeNodes(l)
    BY <1>4 DEF ListDiffers
  <2>2. /\ pc = "list" /\ pc' = "update" /\ key # None /\ key \in Groups
        /\ UNCHANGED <<group, undelivered, groupCache, queue, dropped, key, copy, copyStale>>
    BY <1>4 DEF ListDiffers, server, TypeOK
  <2>3. /\ viewed'[key] = [matchLabels |-> copy.matchLabels, nodes |-> Range(l)]
        /\ \A g \in Groups \ {key} : viewed'[g] = viewed[g]
    BY <2>1, <2>2, SeeNodesTypes
  <2>4. CacheOK' /\ CopyFreshOK' /\ CopyStaleOK' /\ ViewOK' /\ RemoveOK'
    BY <2>1, <2>2, <2>3 DEF StatusInv, CacheOK, CopyFreshOK, CopyStaleOK, ViewOK, RemoveOK
  <2>5. Settled'
    BY <2>2, <2>3 DEF StatusInv, Settled, Live
  <2> QED
    BY <2>4, <2>5 DEF StatusInv
<1>5. CASE ListFails
  <2>0. PICK k \in Groups : k = key
    BY <1>5, WorkedOn DEF ListFails
  <2>1. /\ Return /\ copyStale' = FALSE /\ pc # "idle" /\ queue' = queue \cup {key}
        /\ UNCHANGED <<group, undelivered, groupCache, dropped, viewed>>
    BY <1>5 DEF ListFails, server
  <2> QED
    BY <2>1, <2>0, ReturnKeeps
<1>6. CASE Update
  <2>1. /\ Return /\ copyStale' = FALSE /\ key \in Groups /\ ~copyStale /\ group[key] # None
        /\ group' = [group EXCEPT ![key].status = listing]
        /\ undelivered' = undelivered \cup {key}
        /\ UNCHANGED <<groupCache, queue, dropped, viewed>>
    BY <1>6 DEF Update, TypeOK
  <2>2. \A g \in Groups \ {key} : group'[g] = group[g]
    BY <2>1 DEF TypeOK
  <2>3. CacheOK' /\ CopyFreshOK' /\ CopyStaleOK' /\ ViewOK' /\ RemoveOK'
    BY <2>1, <2>2 DEF StatusInv, CacheOK, CopyFreshOK, CopyStaleOK, ViewOK, RemoveOK, Return
  <2>4. Settled'
    BY <2>1, <2>2 DEF StatusInv, Settled, Live
  <2> QED
    BY <2>3, <2>4 DEF StatusInv
<1>7. CASE RefuseUpdate
  <2>0. PICK k \in Groups : k = key
    BY <1>7, WorkedOn DEF RefuseUpdate
  <2>1. /\ Return /\ copyStale' = FALSE /\ pc # "idle" /\ key # None
        /\ copyStale \/ group[key] = None
        /\ UNCHANGED <<group, undelivered, groupCache, queue, dropped, viewed>>
    BY <1>7 DEF RefuseUpdate, server, TypeOK
  <2>2. CASE copyStale
    BY <2>1, <2>2, <2>0, ReturnKeeps DEF StatusInv, CopyStaleOK
  <2>3. CASE group[key] = None
    <3>1. SettledOne(k)'
      BY <2>1, <2>3, <2>0 DEF SettledOne, Live, Return
    <3> QED
      BY <2>1, <3>1, <2>0, ReturnKeeps
  <2> QED
    BY <2>1, <2>2, <2>3
<1>8. CASE UpdateFails
  <2>0. PICK k \in Groups : k = key
    BY <1>8, WorkedOn DEF UpdateFails
  <2>1. /\ Return /\ copyStale' = FALSE /\ pc # "idle" /\ dropped' = dropped \cup {key}
        /\ UNCHANGED <<group, undelivered, groupCache, queue, viewed>>
    BY <1>8 DEF UpdateFails, server
  <2> QED
    BY <2>1, <2>0, ReturnKeeps
<1>9. CASE Remove
  <2>0. PICK k \in Groups : k = key
    BY <1>9, WorkedOn DEF Remove
  <2>1. /\ Return /\ copyStale' = FALSE /\ pc = "remove" /\ key \in Groups /\ key # None
        /\ UNCHANGED <<groupCache, queue, dropped, viewed>>
    BY <1>9 DEF Remove, TypeOK
  <2>2. CASE Live(key)
    <3>1. /\ undelivered' = undelivered \cup {key}
          /\ \A g \in Groups \ {key} : group'[g] = group[g]
      <4>1. \/ group' = [group EXCEPT ![key] = None]
            \/ group' = [group EXCEPT ![key].deleting = TRUE]
        BY <1>9, <2>2 DEF Remove
      <4>2. undelivered' = undelivered \cup {key}
        BY <1>9, <2>2 DEF Remove
      <4> QED
        BY <4>1, <4>2 DEF TypeOK
    <3>2. CacheOK' /\ CopyFreshOK' /\ CopyStaleOK' /\ ViewOK' /\ RemoveOK'
      BY <2>1, <3>1 DEF StatusInv, CacheOK, CopyFreshOK, CopyStaleOK, ViewOK, RemoveOK, Return
    <3>3. Settled'
      BY <2>1, <3>1 DEF StatusInv, Settled, Live
    <3> QED
      BY <3>2, <3>3 DEF StatusInv
  <2>3. CASE ~Live(key)
    <3>1. UNCHANGED <<group, undelivered>>
      BY <1>9, <2>3 DEF Remove, server
    <3>2. SettledOne(k)'
      BY <2>1, <2>3, <3>1, <2>0 DEF SettledOne, Live, Return
    <3> QED
      BY <2>1, <3>1, <3>2, <2>0, ReturnKeeps
  <2> QED
    BY <2>2, <2>3
<1>10. CASE RemoveFails
  <2>0. PICK k \in Groups : k = key
    BY <1>10, WorkedOn DEF RemoveFails
  <2>1. /\ Return /\ copyStale' = FALSE /\ pc # "idle" /\ queue' = queue \cup {key}
        /\ UNCHANGED <<group, undelivered, groupCache, dropped, viewed>>
    BY <1>10 DEF RemoveFails, server
  <2> QED
    BY <2>1, <2>0, ReturnKeeps
<1> QED
  BY <1>1, <1>2, <1>3, <1>4, <1>5, <1>6, <1>7, <1>8, <1>9, <1>10 DEF Reconcile

\* A write to a group is on its way to the informer, and outdates a copy of it.
LEMMA WriteKeeps ==
  ASSUME TypeOK, StatusInv, Edit, NEW g \in Groups, NEW object, Write(g, object)
  PROVE  StatusInv'
<1>1. /\ \A h \in Groups \ {g} : group'[h] = group[h]
      /\ undelivered' = undelivered \cup {g} /\ copyStale' = (copyStale \/ g = key)
      /\ UNCHANGED <<groupCache, queue, pc, key, copy, listing, viewed, dropped>>
  BY DEF Write, Edit, TypeOK
<1>2. CacheOK' /\ ViewOK' /\ RemoveOK'
  BY <1>1 DEF StatusInv, CacheOK, ViewOK, RemoveOK
<1>3. CopyFreshOK' /\ CopyStaleOK'
  <2>1. CASE g = key
    BY <1>1, <2>1, NoneIsNothing DEF CopyFreshOK, CopyStaleOK
  <2>2. CASE g # key
    BY <1>1, <2>2 DEF StatusInv, CopyFreshOK, CopyStaleOK, TypeOK
  <2> QED
    BY <2>1, <2>2
<1>4. Settled'
  BY <1>1 DEF StatusInv, Settled, Live
<1> QED
  BY <1>2, <1>3, <1>4 DEF StatusInv

\* Users and informers keep the invariant.
LEMMA OthersStatus == TypeOK /\ StatusInv /\ (Users \/ Informers) => StatusInv'
<1> SUFFICES ASSUME TypeOK, StatusInv, Users \/ Informers PROVE StatusInv'
  OBVIOUS
<1>1. ASSUME NEW g \in Groups, NEW l \in Selectors, CreateGroup(g, l) PROVE StatusInv'
  BY <1>1, WriteKeeps DEF CreateGroup
<1>2. ASSUME NEW g \in Groups, NEW l \in Selectors, EditGroup(g, l) PROVE StatusInv'
  BY <1>2, WriteKeeps DEF EditGroup
<1>3. ASSUME NEW g \in Groups, MarkDeleting(g) PROVE StatusInv'
  BY <1>3, WriteKeeps DEF MarkDeleting
<1>4. ASSUME NEW g \in Groups, Disappear(g) PROVE StatusInv'
  BY <1>4, WriteKeeps DEF Disappear
<1>5. ASSUME NEW n \in Nodes, NEW l \in LabelSets, RelabelNode(n, l) PROVE StatusInv'
  BY <1>5 DEF RelabelNode, Edit, server, StatusInv, CacheOK, CopyFreshOK, CopyStaleOK,
              ViewOK, RemoveOK, Settled, Live
<1>6. ASSUME NEW g \in Groups, Deliver(g) PROVE StatusInv'
  <2>1. CacheOK' /\ CopyFreshOK' /\ CopyStaleOK' /\ ViewOK' /\ RemoveOK'
    BY <1>6 DEF Deliver, worker, TypeOK, StatusInv, CacheOK, CopyFreshOK, CopyStaleOK,
                ViewOK, RemoveOK
  <2>2. Settled'
    BY <1>6 DEF Deliver, worker, StatusInv, Settled, Live
  <2> QED
    BY <2>1, <2>2 DEF StatusInv
<1>7. CASE Resync
  BY <1>7 DEF Resync, server, worker, StatusInv, CacheOK, CopyFreshOK, CopyStaleOK,
              ViewOK, RemoveOK, Settled, Live
<1> QED
  BY <1>1, <1>2, <1>3, <1>4, <1>5, <1>6, <1>7 DEF Users, Informers

\* A restart keeps the invariant: every group there is is queued.
LEMMA RestartStatus == TypeOK /\ StatusInv /\ Restart => StatusInv'
BY DEF Restart, Return, TypeOK, StatusInv, CacheOK, CopyFreshOK, CopyStaleOK, ViewOK, RemoveOK,
       Settled, Live

\* The initial state satisfies the invariant: every group is still queued.
LEMMA InitStatus == Init => StatusInv
BY DEF Init, StatusInv, CacheOK, CopyFreshOK, CopyStaleOK, ViewOK, RemoveOK, Settled, Live

\* A step that changes nothing keeps the invariant.
LEMMA StutterStatus == StatusInv /\ UNCHANGED vars => StatusInv'
BY DEF vars, server, worker, StatusInv, CacheOK, CopyFreshOK, CopyStaleOK, ViewOK, RemoveOK,
       Settled, Live

\* The invariant holds throughout.
LEMMA StatusInvariant == Spec => []StatusInv
<1>1. TypeOK /\ StatusInv /\ [Next]_vars => StatusInv'
  BY ReconcileStatus, OthersStatus, RestartStatus, StutterStatus DEF Next
<1> QED
  BY InitStatus, <1>1, TypeCorrect, PTL DEF Spec

\* A group that nothing is about to be done for has the status its last listing
\* called for, made for its present matchLabels, although the code ignores the
\* conflicts of its updates.
THEOREM RestingGroupsAreSettled == Spec => []Settled
<1>1. StatusInv => Settled
  BY DEF StatusInv
<1> QED
  BY <1>1, StatusInvariant, PTL

\* A status is only ever written for the matchLabels the group has.
THEOREM StatusIsWrittenForItsSpec == Spec => StatusFitsSpec
<1> DEFINE Fits(g) ==
      Live(g) /\ Live(g)' /\ group'[g].status # group[g].status
        => /\ viewed[g] # None
           /\ viewed[g].matchLabels = group[g].matchLabels
           /\ viewed[g].nodes = Range(group'[g].status)
<1>1. TypeOK /\ StatusInv /\ [Next]_vars => [\A g \in Groups : Fits(g)]_vars
  <2> SUFFICES ASSUME TypeOK, StatusInv, Next, NEW g \in Groups PROVE Fits(g)
    OBVIOUS
  <2>1. CASE Update
    <3>1. /\ key \in Groups /\ ~copyStale /\ group[key] # None /\ key # None /\ pc = "update"
          /\ group' = [group EXCEPT ![key].status = listing] /\ listing \in Seq(Nodes)
      BY <2>1 DEF Update, TypeOK
    <3>2. group'[key] = [group[key] EXCEPT !.status = listing]
      BY <3>1, NewStatus DEF TypeOK
    <3>3. \A h \in Groups \ {key} : group'[h] = group[h]
      BY <3>1 DEF TypeOK
    <3>4. viewed[key] = [matchLabels |-> copy.matchLabels, nodes |-> Range(listing)]
          /\ group[key] = copy
      BY <3>1 DEF StatusInv, ViewOK, CopyFreshOK
    <3>5. group[key] \in [matchLabels : Selectors, status : Seq(Nodes), deleting : BOOLEAN]
      BY <3>1 DEF TypeOK, Objects
    <3>6. group'[key].status = listing
      BY <3>2, <3>5
    <3>7. viewed[key] # None
      BY <3>4, <3>5, <3>1, RangeOfSeq, NoneIsNothing
    <3> QED
      BY <3>3, <3>4, <3>6, <3>7
  <2>2. CASE Remove
    <3>1. CASE group' = [group EXCEPT ![key].deleting = TRUE] /\ group[key] # None
      <4>1. key \in Groups
        BY <2>2 DEF Remove, TypeOK
      <4>2. group'[key] = [group[key] EXCEPT !.deleting = TRUE]
        BY <3>1, <4>1, NowDeleting DEF TypeOK
      <4>3. group[key] \in [matchLabels : Selectors, status : Seq(Nodes), deleting : BOOLEAN]
        BY <3>1, <4>1 DEF TypeOK, Objects
      <4> QED
        BY <3>1, <4>1, <4>2, <4>3 DEF TypeOK
    <3>2. CASE group' = [group EXCEPT ![key] = None]
      BY <3>2 DEF Live, TypeOK
    <3>3. CASE group' = group
      BY <3>3
    <3> QED
      BY <2>2, <3>1, <3>2, <3>3 DEF Remove, server, Live
  <2>3. CASE Users
    <3>1. ASSUME NEW h \in Groups, NEW l \in Selectors, EditGroup(h, l) PROVE Fits(g)
      <4>1. group[h] \in [matchLabels : Selectors, status : Seq(Nodes), deleting : BOOLEAN]
        BY <3>1 DEF EditGroup, TypeOK, Objects
      <4>2. group'[g].status = group[g].status
        BY <3>1, <4>1 DEF EditGroup, Write, TypeOK
      <4> QED
        BY <4>2
    <3>2. ASSUME NEW h \in Groups, MarkDeleting(h) PROVE Fits(g)
      <4>1. group[h] \in [matchLabels : Selectors, status : Seq(Nodes), deleting : BOOLEAN]
        BY <3>2 DEF MarkDeleting, Live, TypeOK, Objects
      <4>2. group'[g].status = group[g].status
        BY <3>2, <4>1 DEF MarkDeleting, Write, TypeOK
      <4> QED
        BY <4>2
    <3>3. ASSUME NEW h \in Groups, \/ Disappear(h)
                                   \/ \E l \in Selectors : CreateGroup(h, l)
          PROVE Fits(g)
      BY <3>3 DEF Disappear, CreateGroup, Write, Live, TypeOK
    <3>4. ASSUME NEW n \in Nodes, NEW l \in LabelSets, RelabelNode(n, l) PROVE Fits(g)
      BY <3>4 DEF RelabelNode, server
    <3> QED
      BY <2>3, <3>1, <3>2, <3>3, <3>4 DEF Users
  <2>4. CASE UNCHANGED group
    BY <2>4
  <2>5. Update \/ Remove \/ Users \/ UNCHANGED group
    BY DEF Next, Reconcile, Get, GetNotFound, ListSame, ListDiffers, ListFails, RefuseUpdate,
           UpdateFails, RemoveFails, Informers, Resync, Deliver, Restart, server
  <2> QED
    BY <2>1, <2>2, <2>3, <2>4, <2>5
<1> QED
  BY <1>1, TypeCorrect, StatusInvariant, PTL DEF Spec, StatusFitsSpec

-----------------------------------------------------------------------------
(***************************************************************************)
(* What the worker does to other people's groups                           *)
(***************************************************************************)
\* The worker takes down a live group only when it was created anew under the
\* name of one that was being deleted when the pass read it.
THEOREM LiveGroupsAreKeptAlive == Spec => LiveGroupsAreKept
<1> DEFINE Kept(g) ==
      Live(g) /\ ~Live(g)' /\ pc' # pc => key = g /\ copy.deleting /\ copyStale
<1>1. TypeOK /\ StatusInv /\ [Next]_vars => [\A g \in Groups : Kept(g)]_vars
  <2> SUFFICES ASSUME TypeOK, StatusInv, Next, NEW g \in Groups PROVE Kept(g)
    OBVIOUS
  <2>1. CASE Update
    <3>1. /\ key \in Groups /\ group[key] # None /\ listing \in Seq(Nodes)
          /\ group' = [group EXCEPT ![key].status = listing]
      BY <2>1 DEF Update, TypeOK
    <3>2. group'[key] = [group[key] EXCEPT !.status = listing]
      BY <3>1, NewStatus DEF TypeOK
    <3>3. group[key] \in [matchLabels : Selectors, status : Seq(Nodes), deleting : BOOLEAN]
      BY <3>1 DEF TypeOK, Objects
    <3>4. [group[key] EXCEPT !.status = listing] # None
      BY <3>1, <3>3, NoneIsNothing
    <3> QED
      BY <3>1, <3>2, <3>3, <3>4 DEF Live, TypeOK
  <2>2. CASE Remove
    <3>1. \A h \in Groups \ {key} : group'[h] = group[h]
      BY <2>2 DEF Remove, TypeOK, server
    <3>2. pc = "remove" /\ key # None /\ copy.deleting
      BY <2>2 DEF Remove, StatusInv, RemoveOK, TypeOK
    <3>3. ASSUME g = key, Live(g) PROVE copyStale
      BY <3>2, <3>3 DEF StatusInv, CopyFreshOK, Live
    <3> QED
      BY <3>1, <3>2, <3>3 DEF Live
  <2>3. CASE Users
    BY <2>3 DEF Users, CreateGroup, EditGroup, MarkDeleting, Disappear, RelabelNode, Edit
  <2>4. CASE UNCHANGED group
    BY <2>4 DEF Live
  <2>5. Update \/ Remove \/ Users \/ UNCHANGED group
    BY DEF Next, Reconcile, Get, GetNotFound, ListSame, ListDiffers, ListFails, RefuseUpdate,
           UpdateFails, RemoveFails, Informers, Resync, Deliver, Restart, server
  <2> QED
    BY <2>1, <2>2, <2>3, <2>4, <2>5
<1> QED
  BY <1>1, TypeCorrect, StatusInvariant, PTL DEF Spec, LiveGroupsAreKept

-----------------------------------------------------------------------------
(***************************************************************************)
(* The controller implements NodeGroupStatus                               *)
(***************************************************************************)
\* The status of a group is None only when the group is.
LEMMA ShownTypes ==
  ASSUME TypeOK, NEW g \in Groups
  PROVE  /\ Shown[g] = None <=> group[g] = None
         /\ group[g] # None =>
              Shown[g] = [matchLabels |-> group[g].matchLabels, nodes |-> Range(group[g].status)]
<1>1. CASE group[g] # None
  <2>1. group[g] \in [matchLabels : Selectors, status : Seq(Nodes), deleting : BOOLEAN]
    BY <1>1 DEF TypeOK, Objects
  <2>2. Range(group[g].status) \subseteq Nodes /\ group[g].matchLabels \in Selectors
    BY <2>1, RangeOfSeq
  <2>3. Shown[g] = [matchLabels |-> group[g].matchLabels, nodes |-> Range(group[g].status)]
    BY <1>1 DEF Shown
  <2>4. [matchLabels |-> group[g].matchLabels, nodes |-> Range(group[g].status)]
          \in [matchLabels : Selectors, nodes : SUBSET Nodes]
    BY <2>2
  <2> QED
    BY <1>1, <2>3, <2>4, NoneIsNothing
<1>2. CASE group[g] = None
  BY <1>2 DEF Shown
<1> QED
  BY <1>1, <1>2

\* When nothing is about to be written nothing is pending.
LEMMA NothingPending ==
  ASSUME pc # "update"
  PROVE  Pending = [g \in Groups |-> None]
BY DEF Pending

\* Otherwise it is the snapshot of the group being worked on.
LEMMA SomethingPending ==
  ASSUME TypeOK, pc = "update"
  PROVE  /\ key \in Groups
         /\ Pending[key] = [matchLabels |-> copy.matchLabels, nodes |-> Range(listing)]
         /\ Pending[key] # None
         /\ Pending = [[g \in Groups |-> None] EXCEPT ![key] = Pending[key]]
         /\ [Pending EXCEPT ![key] = None] = [g \in Groups |-> None]
<1>1. key \in Groups /\ copy # None /\ listing \in Seq(Nodes)
  BY DEF TypeOK
<1>2. copy \in [matchLabels : Selectors, status : Seq(Nodes), deleting : BOOLEAN]
  BY <1>1 DEF TypeOK, Objects
<1>3. Pending[key] = [matchLabels |-> copy.matchLabels, nodes |-> Range(listing)]
  BY <1>1 DEF Pending
<1>4. [matchLabels |-> copy.matchLabels, nodes |-> Range(listing)]
        \in [matchLabels : Selectors, nodes : SUBSET Nodes]
  BY <1>1, <1>2, RangeOfSeq
<1>5. Pending[key] # None
  BY <1>3, <1>4, NoneIsNothing
<1> QED
  BY <1>1, <1>3, <1>5 DEF Pending

\* Only the groups that change change their status.
LEMMA ShownChanges ==
  ASSUME NEW g \in Groups, \A h \in Groups \ {g} : group'[h] = group[h]
  PROVE  Shown' = [Shown EXCEPT ![g] = Shown'[g]]
BY DEF Shown

\* The same status for every group, and the same pending snapshot.
LEMMA Unseen ==
  ASSUME UNCHANGED <<group, nodeLabels, pc, key, copy, listing>>
  PROVE  UNCHANGED Status!vars
BY DEF Status!vars, Shown, Pending

\* A step of the worker before it has something to publish.
LEMMA BeforeUpdate ==
  ASSUME UNCHANGED <<group, nodeLabels>>, pc # "update", pc' # "update"
  PROVE  UNCHANGED Status!vars
<1>1. Pending' = Pending
  BY NothingPending DEF Pending
<1> QED
  BY <1>1 DEF Status!vars, Shown

\* Ending the pass without publishing is forgetting the snapshot.
LEMMA NotPublished ==
  ASSUME TypeOK, UNCHANGED <<group, nodeLabels>>, pc = "update", pc' = "idle"
  PROVE  Status!Next
<1>1. key \in Groups /\ [Pending EXCEPT ![key] = None] = [g \in Groups |-> None]
  BY SomethingPending
<1>2. Pending' = [g \in Groups |-> None]
  BY DEF Pending
<1>3. Shown' = Shown
  BY DEF Shown
<1>4. Status!Forget(key)
  BY <1>1, <1>2, <1>3 DEF Status!Forget
<1> QED
  BY <1>1, <1>4 DEF Status!Next

\* Every step of the worker is one of the abstract specification or unseen.
LEMMA ReconcileImplements ==
  TypeOK /\ StatusInv /\ Reconcile => Status!Next \/ UNCHANGED Status!vars
<1> SUFFICES ASSUME TypeOK, StatusInv, Reconcile
             PROVE  Status!Next \/ UNCHANGED Status!vars
  OBVIOUS
<1>1. ASSUME NEW g \in Groups, Get(g) \/ GetNotFound(g) PROVE UNCHANGED Status!vars
  BY <1>1, BeforeUpdate DEF Get, GetNotFound, server, worker
<1>2. CASE ListSame \/ ListFails \/ RemoveFails
  BY <1>2, BeforeUpdate DEF ListSame, ListFails, RemoveFails, Return, server
<1>3. CASE ListDiffers
  <2>1. PICK s \in Listings(Members(copy.matchLabels)) : listing' = s
    BY <1>3 DEF ListDiffers
  <2>2. /\ key \in Groups /\ copy.matchLabels \in Selectors
        /\ Pending = [g \in Groups |-> None]
    BY <1>3, NothingPending DEF ListDiffers, TypeOK, Objects
  <2>3. Pending' = [Pending EXCEPT ![key] = Status!Snapshot(copy.matchLabels)]
    <3>1. Range(listing') = {n \in Nodes : copy.matchLabels \subseteq nodeLabels[n]}
      BY <2>1, ListingTypes DEF Members
    <3>2. pc' = "update" /\ key' = key /\ copy' = copy
      BY <1>3 DEF ListDiffers
    <3> QED
      BY <2>2, <3>1, <3>2 DEF Pending, Status!Snapshot
  <2>4. Shown' = Shown /\ nodeLabels' = nodeLabels
    BY <1>3 DEF ListDiffers, server, Shown
  <2>5. Status!Look(key)
    BY <2>2, <2>3, <2>4 DEF Status!Look
  <2> QED
    BY <2>2, <2>5 DEF Status!Next
<1>4. CASE Update
  <2>1. /\ key \in Groups /\ ~copyStale /\ group[key] # None /\ key # None /\ pc = "update"
        /\ group' = [group EXCEPT ![key].status = listing] /\ listing \in Seq(Nodes)
        /\ pc' = "idle" /\ nodeLabels' = nodeLabels
    BY <1>4 DEF Update, Return, TypeOK
  <2>2. group'[key] = [group[key] EXCEPT !.status = listing]
        /\ \A h \in Groups \ {key} : group'[h] = group[h]
    BY <2>1, NewStatus DEF TypeOK
  <2>3. group[key] \in [matchLabels : Selectors, status : Seq(Nodes), deleting : BOOLEAN]
    BY <2>1 DEF TypeOK, Objects
  <2>4. group[key] = copy
    BY <2>1 DEF StatusInv, CopyFreshOK
  <2>5. group'[key] # None /\ group'[key].status = listing
        /\ group'[key].matchLabels = copy.matchLabels
    BY <2>1, <2>2, <2>3, <2>4, NoneIsNothing
  <2>6. Shown'[key] = Pending[key]
    BY <2>1, <2>5, SomethingPending DEF Shown
  <2>7. Shown' = [Shown EXCEPT ![key] = Pending[key]]
    BY <2>1, <2>2, <2>6, ShownChanges
  <2>8. Pending' = [Pending EXCEPT ![key] = None]
    BY <2>1, SomethingPending DEF Pending
  <2>9. Shown[key] # None /\ Pending[key] # None /\ Shown[key].matchLabels = Pending[key].matchLabels
    <3>1. /\ Shown[key] # None
          /\ Shown[key] = [matchLabels |-> group[key].matchLabels, nodes |-> Range(group[key].status)]
      BY <2>1, ShownTypes
    <3>2. /\ Pending[key] # None
          /\ Pending[key] = [matchLabels |-> copy.matchLabels, nodes |-> Range(listing)]
      BY <2>1, SomethingPending
    <3> QED
      BY <2>4, <3>1, <3>2
  <2>10. Status!Publish(key)
    BY <2>1, <2>7, <2>8, <2>9 DEF Status!Publish
  <2> QED
    BY <2>1, <2>10 DEF Status!Next
<1>5. CASE RefuseUpdate \/ UpdateFails
  BY <1>5, NotPublished DEF RefuseUpdate, UpdateFails, Return, server
<1>6. CASE Remove
  <2>1. /\ key \in Groups /\ pc # "update" /\ pc' # "update" /\ nodeLabels' = nodeLabels
        /\ Pending' = Pending
    BY <1>6, NothingPending DEF Remove, Return, TypeOK, Pending
  <2>2. CASE group' = [group EXCEPT ![key] = None]
    <3>1. \A h \in Groups \ {key} : group'[h] = group[h]
      BY <2>1, <2>2 DEF TypeOK
    <3>2. Shown'[key] = None
      BY <2>1, <2>2 DEF Shown, TypeOK
    <3>3. Shown' = [Shown EXCEPT ![key] = None]
      BY <2>1, <3>1, <3>2, ShownChanges
    <3>4. Status!Delete(key)
      BY <2>1, <3>3 DEF Status!Delete
    <3> QED
      BY <2>1, <3>4 DEF Status!Next
  <2>3. CASE group' = [group EXCEPT ![key].deleting = TRUE] /\ group[key] # None
    <3>1. group'[key] = [group[key] EXCEPT !.deleting = TRUE]
          /\ \A h \in Groups \ {key} : group'[h] = group[h]
      BY <2>1, <2>3, NowDeleting DEF TypeOK
    <3>2. group[key] \in [matchLabels : Selectors, status : Seq(Nodes), deleting : BOOLEAN]
      BY <2>1, <2>3 DEF TypeOK, Objects
    <3>3. /\ group'[key].matchLabels = group[key].matchLabels
          /\ group'[key].status = group[key].status /\ group'[key] # None
      BY <3>1, <3>2, NoneIsNothing
    <3>4. Shown' = Shown
      BY <2>1, <2>3, <3>1, <3>3 DEF Shown
    <3> QED
      BY <2>1, <3>4 DEF Status!vars
  <2>4. CASE group' = group
    BY <2>1, <2>4 DEF Status!vars, Shown
  <2> QED
    BY <1>6, <2>2, <2>3, <2>4 DEF Remove, server, Live
<1> QED
  BY <1>1, <1>2, <1>3, <1>4, <1>5, <1>6 DEF Reconcile

\* So is every step of the informers, the manager and the users.
LEMMA OthersImplement ==
  TypeOK /\ (Informers \/ Restart \/ Users) => Status!Next \/ UNCHANGED Status!vars
<1> SUFFICES ASSUME TypeOK, Informers \/ Restart \/ Users
             PROVE  Status!Next \/ UNCHANGED Status!vars
  OBVIOUS
<1>1. CASE Informers
  BY <1>1, Unseen DEF Informers, Resync, Deliver, server, worker
<1>2. CASE Restart
  <2>1. UNCHANGED <<group, nodeLabels>> /\ pc' = "idle"
    BY <1>2 DEF Restart, Return
  <2> QED
    BY <2>1, BeforeUpdate, NotPublished
<1>3. ASSUME Edit, NEW g \in Groups, NEW object, Write(g, object), nodeLabels' = nodeLabels
      PROVE  /\ Pending' = Pending
             /\ group'[g] = object
             /\ Shown' = [Shown EXCEPT ![g] = Shown'[g]]
  <2>1. group'[g] = object /\ \A h \in Groups \ {g} : group'[h] = group[h]
    BY <1>3 DEF Write, TypeOK
  <2>2. Pending' = Pending
    BY <1>3 DEF Edit, Pending
  <2> QED
    BY <2>1, <2>2, ShownChanges
<1>4. ASSUME NEW g \in Groups, NEW l \in Selectors, CreateGroup(g, l) PROVE Status!Next
  <2> DEFINE new == [matchLabels |-> l, status |-> <<>>, deleting |-> FALSE]
  <2>1. Pending' = Pending /\ group'[g] = new /\ Shown' = [Shown EXCEPT ![g] = Shown'[g]]
    BY <1>3, <1>4 DEF CreateGroup
  <2>2. new # None /\ new.matchLabels = l /\ new.status = <<>>
    <3>1. new \in [matchLabels : Selectors, status : Seq(Nodes), deleting : BOOLEAN]
      OBVIOUS
    <3> QED
      BY <3>1, NoneIsNothing
  <2>3. Range(<<>>) = {}
    BY DEF Range
  <2>4. Shown'[g] = [matchLabels |-> l, nodes |-> {}]
    BY <2>1, <2>2, <2>3 DEF Shown
  <2>5. Shown[g] = None /\ nodeLabels' = nodeLabels
    BY <1>4 DEF CreateGroup, Shown
  <2>6. Status!Create(g, l)
    BY <2>1, <2>4, <2>5 DEF Status!Create
  <2> QED
    BY <2>6 DEF Status!Next
<1>5. ASSUME NEW g \in Groups, NEW l \in Selectors, EditGroup(g, l) PROVE Status!Next
  <2> DEFINE new == [group[g] EXCEPT !.matchLabels = l]
  <2>1. Pending' = Pending /\ group'[g] = new /\ Shown' = [Shown EXCEPT ![g] = Shown'[g]]
    BY <1>3, <1>5 DEF EditGroup
  <2>2. new # None /\ new.matchLabels = l /\ new.status = group[g].status
    <3>1. group[g] \in [matchLabels : Selectors, status : Seq(Nodes), deleting : BOOLEAN]
      BY <1>5 DEF EditGroup, TypeOK, Objects
    <3>2. new \in [matchLabels : Selectors, status : Seq(Nodes), deleting : BOOLEAN]
      BY <3>1
    <3> QED
      BY <3>1, <3>2, NoneIsNothing
  <2>3. Shown[g] # None /\ Shown[g].nodes = Range(group[g].status) /\ nodeLabels' = nodeLabels
    <3>1. /\ Shown[g] # None
          /\ Shown[g] = [matchLabels |-> group[g].matchLabels, nodes |-> Range(group[g].status)]
      BY <1>5, ShownTypes DEF EditGroup
    <3>2. Shown[g].nodes = Range(group[g].status)
      BY <3>1
    <3> QED
      BY <1>5, <3>1, <3>2 DEF EditGroup
  <2>4. Shown'[g] = [matchLabels |-> l, nodes |-> Shown[g].nodes]
    BY <2>1, <2>2, <2>3 DEF Shown
  <2>5. Status!Edit(g, l)
    BY <2>1, <2>3, <2>4 DEF Status!Edit
  <2> QED
    BY <2>5 DEF Status!Next
<1>6. ASSUME NEW g \in Groups, MarkDeleting(g) PROVE UNCHANGED Status!vars
  <2> DEFINE new == [group[g] EXCEPT !.deleting = TRUE]
  <2>1. Pending' = Pending /\ group'[g] = new /\ Shown' = [Shown EXCEPT ![g] = Shown'[g]]
    BY <1>3, <1>6 DEF MarkDeleting
  <2>2. /\ new # None /\ new.matchLabels = group[g].matchLabels /\ new.status = group[g].status
        /\ group[g] # None
    <3>1. group[g] \in [matchLabels : Selectors, status : Seq(Nodes), deleting : BOOLEAN]
      BY <1>6 DEF MarkDeleting, Live, TypeOK, Objects
    <3>2. new \in [matchLabels : Selectors, status : Seq(Nodes), deleting : BOOLEAN]
      BY <3>1
    <3> QED
      BY <1>6, <3>1, <3>2, NoneIsNothing DEF MarkDeleting, Live
  <2>3. Shown'[g] = Shown[g]
    BY <2>1, <2>2 DEF Shown
  <2>4. Shown' = Shown
    BY <2>1, <2>3 DEF Shown
  <2> QED
    BY <1>6, <2>1, <2>4 DEF MarkDeleting, Status!vars
<1>7. ASSUME NEW g \in Groups, Disappear(g) PROVE Status!Next
  <2>1. Pending' = Pending /\ group'[g] = None /\ Shown' = [Shown EXCEPT ![g] = Shown'[g]]
    BY <1>3, <1>7 DEF Disappear
  <2>2. Shown'[g] = None
    BY <2>1 DEF Shown
  <2>3. Status!Delete(g)
    BY <1>7, <2>1, <2>2 DEF Disappear, Status!Delete
  <2> QED
    BY <2>3 DEF Status!Next
<1>8. ASSUME NEW n \in Nodes, NEW l \in LabelSets, RelabelNode(n, l) PROVE Status!Next
  <2>1. Shown' = Shown /\ Pending' = Pending
    BY <1>8 DEF RelabelNode, Edit, server, Shown, Pending
  <2>2. Status!Relabel(n, l)
    BY <1>8, <2>1 DEF RelabelNode, Status!Relabel
  <2> QED
    BY <2>2 DEF Status!Next
<1> QED
  BY <1>1, <1>2, <1>4, <1>5, <1>6, <1>7, <1>8 DEF Users

\* The initial states are initial states of the abstract specification.
LEMMA InitImplements == Init => Status!Init
<1> SUFFICES ASSUME Init PROVE Status!Init
  OBVIOUS
<1>1. Pending = [g \in Groups |-> None]
  BY NothingPending DEF Init
<1>2. Range(<<>>) = {}
  BY DEF Range
<1>3. ASSUME NEW g \in Groups
      PROVE  Shown[g] \in [matchLabels : Selectors, nodes : {{}}] \cup {None}
  <2>1. CASE group[g] = None
    BY <2>1 DEF Shown
  <2>2. CASE group[g] # None
    <3>1. group[g] \in [matchLabels : Selectors, status : {<<>>}, deleting : {FALSE}]
      BY <2>2 DEF Init
    <3>2. Shown[g] = [matchLabels |-> group[g].matchLabels, nodes |-> {}]
      BY <1>2, <2>2, <3>1 DEF Shown
    <3>3. group[g].matchLabels \in Selectors
      BY <3>1
    <3> QED
      BY <3>2, <3>3
  <2> QED
    BY <2>1, <2>2
<1>4. Shown \in [Groups -> [matchLabels : Selectors, nodes : {{}}] \cup {None}]
  BY <1>3 DEF Shown
<1> QED
  BY <1>1, <1>4 DEF Init, Status!Init

\* The controller implements the promise of NodeGroupStatus: whatever the lag of
\* its cache, the conflicts and the restarts, what it writes into a status is a
\* snapshot made with the matchLabels of the group.
THEOREM ControllerImplementsStatus == Spec => ImplementsStatus
<1>1. TypeOK /\ StatusInv /\ [Next]_vars => [Status!Next]_Status!vars
  <2>1. UNCHANGED vars => UNCHANGED Status!vars
    BY Unseen DEF vars, worker
  <2> QED
    BY <2>1, ReconcileImplements, OthersImplement DEF Next
<1> QED
  BY <1>1, InitImplements, TypeCorrect, StatusInvariant, PTL DEF Spec, ImplementsStatus, Status!Spec

=============================================================================
