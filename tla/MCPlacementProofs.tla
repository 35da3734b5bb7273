-------------------------- MODULE MCPlacementProofs --------------------------
(***************************************************************************)
(* The properties of MCPlacement, for weight lists, numbers of replicas    *)
(* and listings of any length and size.                                    *)
(***************************************************************************)
EXTENDS MCPlacement, PlacementProofs

\* What the calls pass to each other: the second one gets a map of groups to
\* integers, and cuts exactly the listing it was given.
Passed ==
  /\ call \in {"start", "desired"} => weights \in WeightLists /\ replicas \in 0..MaxReplicas
  /\ call = "desired" => desired \in DesiredPodsNum(weights, replicas)
  /\ desired \in Maps(Groups)
  /\ call = "cut" =>
       /\ \E k \in 0..MaxListing : places \in [1..k -> Places]
       /\ doomed = PodsNeedToDelete([i \in DOMAIN places |-> i], places, desired, NodesIn)

\* Every weight list that is tried is one the API server admits.
LEMMA WeightListsAreLists ==
  ASSUME NEW ws \in WeightLists
  PROVE  ws \in Seq(Entries(Groups)) /\ ~Panics(ws) /\ \A i \in 1..Len(ws) : ws[i].weight >= 1
<1>1. PICK k \in 0..MaxEntries : ws \in [1..k -> [names : Names, weight : 1..MaxWeight]]
  BY DEF WeightLists
<1>2. k \in Nat
  BY BoundsAreNumbers
<1>3. \A ns \in Names : ns \in Seq(Groups) /\ ns # <<>>
  <2>1. \A x, y, z \in Groups :
          /\ <<x>> \in Seq(Groups) /\ <<x>> # <<>>
          /\ <<x, y>> \in Seq(Groups) /\ <<x, y>> # <<>>
          /\ <<x, y, z>> \in Seq(Groups) /\ <<x, y, z>> # <<>>
    OBVIOUS
  <2>2. a \in Groups /\ b \in Groups /\ c \in Groups /\ d \in Groups
    BY DEF Groups
  <2> QED BY <2>1, <2>2 DEF Names
<1>4. \A e \in [names : Names, weight : 1..MaxWeight] :
        e \in Entries(Groups) /\ e.names # <<>> /\ e.weight >= 1
  BY <1>3, BoundsAreNumbers DEF Entries
<1>5. ws \in Seq(Entries(Groups)) /\ DOMAIN ws = 1..k /\ Len(ws) = k
  BY <1>1, <1>2, <1>4
<1> QED BY <1>1, <1>4, <1>5 DEF Panics

\* Every run of the instance keeps to its arguments and to what the operators return.
LEMMA PassedInvariant == Spec => []Passed
<1>1. Init => Passed
  BY NoMapIsMap, MapsAreMaps DEF Init, Passed
<1>2. Passed /\ [Next]_vars => Passed'
  <2> SUFFICES ASSUME Passed, [Next]_vars PROVE Passed'
    OBVIOUS
  <2>1. CASE Desire
    <3>1. weights \in WeightLists /\ replicas \in 0..MaxReplicas
      BY <2>1 DEF Desire, Passed
    <3>2. replicas \in Nat
      BY <3>1, BoundsAreNumbers
    <3>3. desired' \in Maps(Groups)
      BY <2>1, <3>1, <3>2, WeightListsAreLists, DesiredIsMap DEF Desire
    <3> QED BY <2>1, <3>1, <3>3 DEF Desire, Passed
  <2>2. CASE Pass
    BY <2>2 DEF Pass, Passed
  <2>3. CASE Cut
    <3>1. \E k \in 0..MaxListing : places' \in [1..k -> Places]
      BY <2>3 DEF Cut
    <3>2. doomed' = PodsNeedToDelete([i \in DOMAIN places' |-> i], places', desired', NodesIn)
      BY <2>3 DEF Cut
    <3> QED BY <2>3, <3>1, <3>2 DEF Cut, Passed
  <2>4. CASE UNCHANGED vars
    BY <2>4 DEF vars, Passed
  <2> QED BY <2>1, <2>2, <2>3, <2>4 DEF Next
<1> QED BY <1>1, <1>2, PTL DEF Spec

-----------------------------------------------------------------------------
(***************************************************************************)
(* The cut.                                                                *)
(***************************************************************************)

\* For any listing and any desired numbers, negative ones included,
\* getPodsNeedToDelete leaves in each group as many pods as are desired there,
\* or all when there are fewer, and touches no pod outside the groups.
LEMMA CutIsExact ==
  ASSUME Passed, call = "cut", NEW g \in Groups
  PROVE  /\ Cardinality(Running(g) \ doomed)
              = LeastOf(Cardinality(Running(g)), Floor0(Lookup(desired, g)))
         /\ doomed \subseteq UNION {Running(h) : h \in Groups}
<1>1. PICK k \in 0..MaxListing : places \in [1..k -> Places]
  BY DEF Passed
<1>2. k \in Nat /\ DOMAIN places = 1..k /\ Lookup(desired, g) \in Int
  BY <1>1, BoundsAreNumbers, LookupIsInt DEF Passed
<1> DEFINE listing == [i \in DOMAIN places |-> i]
<1>3. doomed = PodsNeedToDelete(listing, places, desired, NodesIn)
  BY DEF Passed
<1>4. listing \in SetToSeqs(1..k) /\ IsFiniteSet(1..k)
  <2>1. IsFiniteSet(1..k) /\ Cardinality(1..k) = k
    BY <1>2, FS_Interval
  <2> QED BY <1>2, <2>1 DEF SetToSeqs
<1>5. Running(g) = {i \in 1..k : RunsIn(i, g, places, NodesIn)}
  BY <1>2 DEF Running, RunsIn, NodesIn
<1>6. Cardinality(Running(g) \ doomed)
        = LeastOf(Cardinality(Running(g)), Floor0(Lookup(desired, g)))
  <2> HIDE DEF listing
  <2> QED BY <1>2, <1>3, <1>4, <1>5, ListingIsCutToTheGoal
<1>7. doomed \subseteq UNION {Running(h) : h \in Groups}
  <2> SUFFICES ASSUME NEW p \in doomed PROVE \E h \in Groups : p \in Running(h)
    OBVIOUS
  <2>1. PICK i \in DOMAIN listing : p = listing[i] /\ places[p] \in DOMAIN NodesIn
    <3> HIDE DEF listing
    <3> QED BY <1>3, DoomedArePlaced
  <2>2. p \in DOMAIN places /\ places[p] \in Groups
    BY <2>1 DEF NodesIn
  <2> QED BY <2>2 DEF Running
<1> QED BY <1>6, <1>7

\* Whatever the listing and the desired numbers are, the policy controller's
\* cut keeps exactly what is desired.
THEOREM CutKeepsExactly == Spec => []KeepsExactly
<1>1. Passed => KeepsExactly
  <2>1. a \in Groups
    BY DEF Groups
  <2>2. ASSUME Passed, call = "cut" PROVE KeepsExactly
    BY <2>1, <2>2, CutIsExact DEF KeepsExactly, LeastOf, Floor0
  <2> QED BY <2>2 DEF KeepsExactly
<1> QED BY <1>1, PassedInvariant, PTL

-----------------------------------------------------------------------------
(***************************************************************************)
(* Sums over the groups.                                                   *)
(***************************************************************************)

Values(S, m) == [g \in S |-> Lookup(m, g)]

\* SumOver adds up the values of the map, in any order.
LEMMA SumOverAddsUp ==
  ASSUME NEW S, IsFiniteSet(S), NEW m, \A g \in S : Lookup(m, g) \in Int
  PROVE  \E sum : AnySum(sum, S, Values(S, m)) /\ SumOver(S, m) = sum[S]
<1> DEFINE pick == [s \in SUBSET S |-> CHOOSE x \in s : TRUE]
           f == Values(S, m)
           step == [vk \in Int \X S |-> Lookup(m, vk[2]) + vk[1]]
           Fits(it) == it = [s \in SUBSET S |->
                               IF s = {} THEN 0
                               ELSE Lookup(m, CHOOSE x \in s : TRUE) + it[s \ {CHOOSE x \in s : TRUE}]]
<1>1. Picks(pick, S)
  BY DEF Picks
<1>2. step \in [Int \X S -> Int] /\ 0 \in Int
  OBVIOUS
<1>3. f \in [S -> Int] /\ \A g \in S : f[g] = Lookup(m, g)
  BY DEF Values
<1>4. PICK it : FoldsTo(it, S, 0, pick, step)
  <2> HIDE DEF pick, step, f
  <2> QED BY <1>1, <1>2, FoldExists
<1>5. it \in [SUBSET S -> Int]
  <2> HIDE DEF pick, step, f
  <2> QED BY <1>1, <1>2, <1>4, FoldType
<1>6. Fits(it)
  <2>1. ASSUME NEW s \in SUBSET S, s # {}
        PROVE  step[<<it[s \ {pick[s]}], pick[s]>>]
                 = Lookup(m, CHOOSE x \in s : TRUE) + it[s \ {CHOOSE x \in s : TRUE}]
    <3>1. pick[s] = (CHOOSE x \in s : TRUE) /\ pick[s] \in S
      BY <2>1
    <3>2. it[s \ {pick[s]}] \in Int
      BY <1>5
    <3> HIDE DEF pick
    <3> QED BY <3>1, <3>2
  <2> HIDE DEF step, pick
  <2> QED BY <1>4, <2>1 DEF FoldsTo
<1>7. SumOver(S, m) = (CHOOSE sum : Fits(sum))[S]
  BY Zenon DEF SumOver, MapThenSumSet, MapThenFoldSet
<1>8. PICK sum : Fits(sum) /\ SumOver(S, m) = sum[S]
  <2> HIDE DEF Fits
  <2> QED BY <1>6, <1>7
<1>9. PickedSum(sum, S, f, pick)
  <2>1. ASSUME NEW s \in SUBSET S, s # {} PROVE sum[s] = f[pick[s]] + sum[s \ {pick[s]}]
    <3>1. pick[s] = (CHOOSE x \in s : TRUE) /\ pick[s] \in S
      BY <2>1
    <3>2. sum[s] = Lookup(m, CHOOSE x \in s : TRUE) + sum[s \ {CHOOSE x \in s : TRUE}]
      BY <1>8, <2>1
    <3> HIDE DEF pick, f
    <3> QED BY <1>3, <3>1, <3>2
  <2>2. sum[{}] = 0
    BY <1>8
  <2> HIDE DEF pick, f, Fits
  <2> QED BY <2>1, <2>2 DEF PickedSum
<1> HIDE DEF pick, f, Fits
<1>10. AnySum(sum, S, f)
  BY <1>1, <1>3, <1>9, SumInAnyOrder
<1> QED BY <1>8, <1>10 DEF f

\* Two maps that agree but for one group, where the second has v more: so does
\* its sum.
LEMMA SumOverChange ==
  ASSUME NEW S, IsFiniteSet(S), NEW m, NEW w, \A g \in S : Lookup(m, g) \in Int,
         NEW x \in S, NEW v \in Int, Lookup(w, x) = Lookup(m, x) + v,
         \A g \in S \ {x} : Lookup(w, g) = Lookup(m, g)
  PROVE  SumOver(S, w) = SumOver(S, m) + v
<1>1. \A g \in S : Lookup(w, g) \in Int
  <2> SUFFICES ASSUME NEW g \in S PROVE Lookup(w, g) \in Int
    OBVIOUS
  <2>1. CASE g = x
    BY <2>1
  <2>2. CASE g # x
    BY <2>2
  <2> QED BY <2>1, <2>2
<1>2. PICK sum : AnySum(sum, S, Values(S, m)) /\ SumOver(S, m) = sum[S]
  BY SumOverAddsUp
<1>3. PICK mus : AnySum(mus, S, Values(S, w)) /\ SumOver(S, w) = mus[S]
  BY <1>1, SumOverAddsUp
<1>4. \A s \in SUBSET S : /\ sum[s] \in Int
                          /\ \A y \in s : sum[s] = sum[s \ {y}] + Lookup(m, y)
  BY <1>2 DEF AnySum, Values
<1>5. \A s \in SUBSET S : /\ mus[s] \in Int
                          /\ \A y \in s : mus[s] = mus[s \ {y}] + Lookup(w, y)
  BY <1>3 DEF AnySum, Values
<1> DEFINE Good == {s \in SUBSET S : x \notin s => mus[s] = sum[s]}
<1>6. {} \in Good
  BY <1>2, <1>3 DEF AnySum
<1>7. ASSUME NEW s \in SUBSET S, s # {}, \A y \in s : s \ {y} \in Good PROVE s \in Good
  <2> SUFFICES ASSUME x \notin s PROVE mus[s] = sum[s]
    OBVIOUS
  <2>1. PICK y \in s : TRUE
    BY <1>7
  <2>2. mus[s \ {y}] = sum[s \ {y}] /\ Lookup(w, y) = Lookup(m, y)
    BY <1>7
  <2> QED BY <1>4, <1>5, <2>2
<1>8. \A s \in SUBSET S : s \in Good
  <2> HIDE DEF Good
  <2> QED BY <1>6, <1>7, SubsetInduction
<1>9. mus[S \ {x}] = sum[S \ {x}] /\ sum[S \ {x}] \in Int /\ Lookup(m, x) \in Int
  BY <1>4, <1>8
<1>10. mus[S] = mus[S \ {x}] + Lookup(w, x) /\ sum[S] = sum[S \ {x}] + Lookup(m, x)
  BY <1>4, <1>5
<1> QED BY <1>2, <1>3, <1>9, <1>10

\* Nothing is desired in the empty map.
LEMMA SumOverNothing ==
  ASSUME NEW S, IsFiniteSet(S)
  PROVE  SumOver(S, NoMap) = 0
<1>1. \A g : Lookup(NoMap, g) = 0
  BY DEF Lookup, NoMap
<1>2. \A g \in S : Lookup(NoMap, g) \in Int
  BY <1>1
<1>3. PICK sum : AnySum(sum, S, Values(S, NoMap)) /\ SumOver(S, NoMap) = sum[S]
  BY <1>2, SumOverAddsUp
<1> DEFINE Good == {s \in SUBSET S : sum[s] = 0}
<1>4. {} \in Good
  BY <1>3 DEF AnySum
<1>5. ASSUME NEW s \in SUBSET S, s # {}, \A y \in s : s \ {y} \in Good PROVE s \in Good
  <2>1. PICK y \in s : sum[s] = sum[s \ {y}] + Lookup(NoMap, y)
    BY <1>3, <1>5 DEF AnySum, Values
  <2> QED BY <1>1, <1>5, <2>1
<1>6. \A s \in SUBSET S : s \in Good
  <2> HIDE DEF Good
  <2> QED BY <1>4, <1>5, SubsetInduction
<1> QED BY <1>3, <1>6

-----------------------------------------------------------------------------
(***************************************************************************)
(* Weight lists each of whose entries names one group of its own.          *)
(***************************************************************************)
First(ws, i) == ws[i].names[1]

ShareOf(ws, i, r) == Share(ws[i].weight, TotalWeight(ws), r)

OneGroupEach(ws) ==
  /\ \A i \in DOMAIN ws : Len(ws[i].names) = 1
  /\ \A i, j \in DOMAIN ws : First(ws, i) = First(ws, j) => i = j

\* After k entries the first k groups have their shares, and nobody else has
\* anything.
Served(acc, ws, r, k) ==
  /\ DOMAIN acc[k].results = {First(ws, i) : i \in 1..k}
  /\ \A i \in 1..k : acc[k].results[First(ws, i)] = ShareOf(ws, i, r)

\* When every entry names one group of its own, the loop of DesiredPodsNum gives
\* each group its share and nothing to anybody else.
LEMMA SinglesAreServed ==
  ASSUME NEW G, NEW ws \in Seq(Entries(G)), OneGroupEach(ws), NEW r \in Nat
  PROVE  /\ \A i \in 1..Len(ws) :
              First(ws, i) \in G /\ ws[i].weight \in Nat /\ ShareOf(ws, i, r) \in Nat
         /\ \E acc \in [0..Len(ws) -> Accounts(G)] :
              /\ acc[0] = [results |-> NoMap, allocated |-> 0]
              /\ \A k \in 1..Len(ws) :
                   acc[k].allocated = acc[k - 1].allocated + ShareOf(ws, k, r)
              /\ \A k \in 0..Len(ws) : Served(acc, ws, r, k)
              /\ Allot(ws, r) = acc[Len(ws)]
<1> DEFINE n == Len(ws)
<1>1. n \in Nat /\ DOMAIN ws = 1..n /\ \A i \in 1..n : ws[i] \in Entries(G)
  OBVIOUS
<1>2. \A i \in 1..n : ws[i].names \in Seq(G) /\ Len(ws[i].names) = 1 /\ ws[i].weight \in Nat
  BY <1>1 DEF Entries, OneGroupEach
<1>3. \A i \in 1..n : ws[i].names # <<>> /\ First(ws, i) \in G
  BY <1>2 DEF First
<1>4. ~Panics(ws)
  BY <1>1, <1>3 DEF Panics
<1>5. PICK acc \in [0..n -> Accounts(G)] :
        /\ acc[0] = [results |-> NoMap, allocated |-> 0]
        /\ \A k \in 1..n : acc[k] = AfterEntry(acc[k - 1], ws[k], TotalWeight(ws), r)
        /\ Allot(ws, r) = acc[n]
  BY <1>4, AllotStepByStep
<1>6. \A i \in 1..n : ShareOf(ws, i, r) \in Nat
  BY <1>2, <1>4, AllotStepByStep, ShareIsNat DEF ShareOf
<1>7. \A k \in 0..n : acc[k].results \in Maps(G)
  BY <1>5 DEF Accounts
<1>8. ASSUME NEW k \in 1..n
      PROVE  /\ acc[k].results = Put(acc[k - 1].results, {First(ws, k)}, ShareOf(ws, k, r))
             /\ acc[k].allocated = acc[k - 1].allocated + ShareOf(ws, k, r)
  <2> DEFINE m == acc[k - 1].results
             put == Put(m, {First(ws, k)}, ShareOf(ws, k, r))
  <2>1. acc[k] = [results   |-> Grant(m, ws[k].names, ShareOf(ws, k, r)),
                  allocated |-> acc[k - 1].allocated + ShareOf(ws, k, r)]
    BY <1>5 DEF AfterEntry, ShareOf
  <2>2. {ws[k].names[i] : i \in 3..Len(ws[k].names)} = {}
    BY <1>2
  <2>3. Grant(m, ws[k].names, ShareOf(ws, k, r)) = Put(put, {}, 0)
    BY <2>2 DEF Grant, First
  <2>4. Put(put, {}, 0) = put
    BY DEF Put
  <2> QED BY <2>1, <2>3, <2>4
<1> DEFINE Done == {k \in Nat : k <= n => Served(acc, ws, r, k)}
<1>9. 0 \in Done
  BY <1>5 DEF Served, NoMap
<1>10. ASSUME NEW k \in Nat, k \in Done PROVE k + 1 \in Done
  <2> SUFFICES ASSUME k + 1 <= n PROVE Served(acc, ws, r, k + 1)
    OBVIOUS
  <2>1. k + 1 \in 1..n /\ (k + 1) - 1 = k /\ k \in 0..n /\ Served(acc, ws, r, k)
    BY <1>1, <1>10
  <2> DEFINE m == acc[k].results
             f == First(ws, k + 1)
  <2>2. acc[k + 1].results = [g \in {f} \cup DOMAIN m |-> IF g \in {f} THEN ShareOf(ws, k + 1, r) ELSE m[g]]
    BY <1>8, <2>1 DEF Put
  <2>3. 1..(k + 1) = (1..k) \cup {k + 1}
    OBVIOUS
  <2>4. DOMAIN acc[k + 1].results = {First(ws, i) : i \in 1..(k + 1)}
    <3>1. DOMAIN m = {First(ws, i) : i \in 1..k}
      BY <2>1 DEF Served
    <3> QED BY <2>2, <2>3, <3>1
  <2>5. ASSUME NEW i \in 1..(k + 1) PROVE acc[k + 1].results[First(ws, i)] = ShareOf(ws, i, r)
    <3>1. CASE i = k + 1
      BY <2>2, <3>1
    <3>2. CASE i \in 1..k
      <4>1. i \in DOMAIN ws /\ k + 1 \in DOMAIN ws /\ i # k + 1
        BY <1>1, <2>1, <3>2
      <4>2. First(ws, i) # f
        BY <4>1 DEF OneGroupEach
      <4>3. First(ws, i) \in DOMAIN m /\ m[First(ws, i)] = ShareOf(ws, i, r)
        BY <2>1, <3>2 DEF Served
      <4> HIDE DEF f, m
      <4> QED BY <2>2, <4>2, <4>3
    <3> QED BY <2>3, <3>1, <3>2
  <2> QED BY <2>4, <2>5 DEF Served
<1>11. \A k \in Nat : k \in Done
  <2> HIDE DEF Done
  <2> QED BY <1>9, <1>10, NumberInduction
<1>12. \A k \in 0..n : Served(acc, ws, r, k)
  BY <1>1, <1>11
<1> HIDE DEF n
<1> QED BY <1>2, <1>3, <1>5, <1>6, <1>8, <1>12 DEF n

\* What DesiredPodsNumInTargetNodeGroups returns is what the entries were given
\* and what is left for one of them.
LEMMA LeftGoesToOne ==
  ASSUME NEW ws, NEW r, NEW want \in DesiredPodsNum(ws, r),
         NEW G, NEW m \in Maps(G), NEW s \in Int, r \in Int,
         m # NoMap, Allot(ws, r) = [results |-> m, allocated |-> s]
  PROVE  \E x \in DOMAIN m : /\ Lookup(want, x) = Lookup(m, x) + (r - s)
                             /\ \A g : g # x => Lookup(want, g) = Lookup(m, g)
<1>1. DOMAIN m # {}
  BY DEF NoMap, Maps
<1>2. CASE r - s = 0
  <2>1. want = m
    BY <1>2 DEF DesiredPodsNum
  <2> QED BY <1>1, <1>2, <2>1, LookupIsInt
<1>3. CASE r - s # 0
  <2>1. PICK x \in DOMAIN m : want = [m EXCEPT ![x] = @ + (r - s)]
    BY <1>1, <1>3 DEF DesiredPodsNum
  <2>2. DOMAIN want = DOMAIN m /\ want[x] = m[x] + (r - s) /\ \A g \in DOMAIN m : g # x => want[g] = m[g]
    BY <2>1 DEF Maps
  <2> QED BY <2>2 DEF Lookup
<1> QED BY <1>2, <1>3

\* The desired numbers add up to the replicas, for any number of groups, any
\* weights and whoever is given what is left.
LEMMA SinglesAddUp ==
  ASSUME NEW G, IsFiniteSet(G), NEW ws \in Seq(Entries(G)), OneGroupEach(ws), ws # <<>>,
         NEW r \in Nat, NEW want \in DesiredPodsNum(ws, r)
  PROVE  SumOver(G, want) = r
<1> DEFINE n == Len(ws)
<1>1. n \in Nat /\ n # 0
  OBVIOUS
<1>2. \A i \in 1..n : First(ws, i) \in G /\ ShareOf(ws, i, r) \in Nat
  BY SinglesAreServed
<1>3. PICK acc \in [0..n -> Accounts(G)] :
        /\ acc[0] = [results |-> NoMap, allocated |-> 0]
        /\ \A k \in 1..n : acc[k].allocated = acc[k - 1].allocated + ShareOf(ws, k, r)
        /\ \A k \in 0..n : Served(acc, ws, r, k)
        /\ Allot(ws, r) = acc[n]
  BY SinglesAreServed
<1>4. \A k \in 0..n : acc[k].results \in Maps(G) /\ acc[k].allocated \in Nat
                      /\ acc[k] = [results |-> acc[k].results, allocated |-> acc[k].allocated]
  BY <1>3 DEF Accounts
<1> DEFINE Done == {k \in Nat : k <= n => SumOver(G, acc[k].results) = acc[k].allocated}
<1>5. 0 \in Done
  BY <1>3, SumOverNothing
<1>6. ASSUME NEW k \in Nat, k \in Done PROVE k + 1 \in Done
  <2> SUFFICES ASSUME k + 1 <= n PROVE SumOver(G, acc[k + 1].results) = acc[k + 1].allocated
    OBVIOUS
  <2> DEFINE m == acc[k].results
             w == acc[k + 1].results
             f == First(ws, k + 1)
             v == ShareOf(ws, k + 1, r)
  <2>1. k + 1 \in 1..n /\ (k + 1) - 1 = k /\ k \in 0..n /\ k + 1 \in 0..n
    BY <1>1
  <2>2. SumOver(G, m) = acc[k].allocated /\ acc[k + 1].allocated = acc[k].allocated + v
    BY <1>3, <1>6, <2>1
  <2>3. /\ DOMAIN m = {First(ws, i) : i \in 1..k}
        /\ DOMAIN w = {First(ws, i) : i \in 1..(k + 1)}
        /\ \A i \in 1..k : m[First(ws, i)] = ShareOf(ws, i, r)
        /\ \A i \in 1..(k + 1) : w[First(ws, i)] = ShareOf(ws, i, r)
    BY <1>3, <2>1 DEF Served
  <2>4. 1..(k + 1) = (1..k) \cup {k + 1} /\ \A i \in 1..k : i # k + 1 /\ i \in DOMAIN ws
    BY <2>1
  <2>5. f \notin DOMAIN m
    BY <2>1, <2>3, <2>4 DEF OneGroupEach
  <2>6. Lookup(m, f) = 0 /\ Lookup(w, f) = v /\ v \in Int /\ f \in G
    BY <1>2, <2>1, <2>3, <2>5 DEF Lookup
  <2>7. \A g \in G \ {f} : Lookup(w, g) = Lookup(m, g)
    <3> SUFFICES ASSUME NEW g \in G, g # f PROVE Lookup(w, g) = Lookup(m, g)
      OBVIOUS
    <3>1. g \in DOMAIN w <=> g \in DOMAIN m
      BY <2>3, <2>4
    <3>2. ASSUME g \in DOMAIN m PROVE w[g] = m[g]
      <4>1. PICK i \in 1..k : g = First(ws, i)
        BY <2>3, <3>2
      <4> QED BY <2>3, <2>4, <4>1
    <3> QED BY <3>1, <3>2 DEF Lookup
  <2>8. \A g \in G : Lookup(m, g) \in Int
    BY <1>4, <2>1, LookupIsInt
  <2>9. Lookup(w, f) = Lookup(m, f) + v
    BY <2>6
  <2> HIDE DEF m, w, f, v
  <2>10. SumOver(G, w) = SumOver(G, m) + v
    BY <2>6, <2>7, <2>8, <2>9, SumOverChange
  <2> QED BY <2>2, <2>10 DEF w
<1>7. \A k \in Nat : k \in Done
  <2> HIDE DEF Done
  <2> QED BY <1>5, <1>6, NumberInduction
<1> DEFINE m == acc[n].results
           s == acc[n].allocated
<1>8. SumOver(G, m) = s /\ m \in Maps(G) /\ s \in Int
      /\ Allot(ws, r) = [results |-> m, allocated |-> s]
  BY <1>1, <1>3, <1>4, <1>7
<1>9. m # NoMap
  <2>1. First(ws, 1) \in DOMAIN m
    BY <1>1, <1>3 DEF Served
  <2> QED BY <2>1 DEF NoMap
<1> HIDE DEF n, m, s
<1>10. PICK x \in DOMAIN m : /\ Lookup(want, x) = Lookup(m, x) + (r - s)
                             /\ \A g : g # x => Lookup(want, g) = Lookup(m, g)
  BY <1>8, <1>9, LeftGoesToOne
<1>11. x \in G /\ r - s \in Int /\ \A g \in G : Lookup(m, g) \in Int
  <2>1. \A g \in G : Lookup(m, g) \in Int
    BY <1>8, LookupIsInt
  <2>2. x \in G
    BY <1>8 DEF Maps
  <2> QED BY <1>8, <2>1, <2>2
<1>12. SumOver(G, want) = SumOver(G, m) + (r - s)
  BY <1>10, <1>11, SumOverChange
<1> QED BY <1>8, <1>12

\* When each entry names one group of its own, no replica is without a place
\* and none is promised twice.
THEOREM TotalIsExact == Spec => []ExactTotal
<1>1. Passed => ExactTotal
  <2> SUFFICES ASSUME Passed, call = "desired", weights # <<>>, SingleNames, DistinctFirsts
               PROVE  SumOver(Groups, desired) = replicas
    BY DEF ExactTotal
  <2>1. weights \in Seq(Entries(Groups)) /\ replicas \in Nat
        /\ desired \in DesiredPodsNum(weights, replicas)
    BY WeightListsAreLists, BoundsAreNumbers DEF Passed
  <2>2. OneGroupEach(weights)
    BY DEF OneGroupEach, SingleNames, DistinctFirsts, First
  <2>3. IsFiniteSet(Groups)
    <3>1. Groups = ((({} \cup {a}) \cup {b}) \cup {c}) \cup {d}
      BY DEF Groups
    <3> QED BY <3>1, FS_EmptySet, FS_AddElement
  <2> QED BY <2>1, <2>2, <2>3, SinglesAddUp
<1> QED BY <1>1, PassedInvariant, PTL

-----------------------------------------------------------------------------
(***************************************************************************)
(* How far the desired numbers are from the proportional ones.             *)
(***************************************************************************)

\* Rounding an exact share to the next whole number is off by half a pod.
LEMMA ShareIsNearest ==
  ASSUME NEW w \in Nat, NEW T \in Nat, T # 0, NEW r \in Nat
  PROVE  /\ 2 * (Share(w, T, r) * T - w * r) <= T
         /\ -T <= 2 * (Share(w, T, r) * T - w * r)
<1> DEFINE p == w * r
           q == Share(w, T, r)
<1>1. p \in Nat /\ 2 * w * r = 2 * p
  OBVIOUS
<1>2. q = (2 * p + T) \div (2 * T)
  BY <1>1 DEF Share
<1> HIDE DEF p, q
<1>3. \A x \in Nat, y \in Nat : y # 0 =>
        x \div y \in Nat /\ y * (x \div y) <= x /\ x < y * (x \div y) + y
  OBVIOUS
<1>4. 2 * p + T \in Nat /\ 2 * T \in Nat /\ 2 * T # 0
  BY <1>1
<1>5. q \in Nat /\ (2 * T) * q <= 2 * p + T /\ 2 * p + T < (2 * T) * q + 2 * T
  BY <1>2, <1>3, <1>4
<1>6. (2 * T) * q = 2 * (q * T) /\ q * T \in Nat
  BY <1>5
<1>7. 2 * (q * T - p) <= T /\ -T <= 2 * (q * T - p)
  <2> DEFINE z == q * T
  <2>1. z \in Nat /\ 2 * z <= 2 * p + T /\ 2 * p + T < 2 * z + 2 * T
    BY <1>5, <1>6
  <2> HIDE DEF z
  <2>2. 2 * (z - p) <= T /\ -T <= 2 * (z - p)
    BY <1>1, <2>1
  <2> QED BY <2>2 DEF z
<1> QED BY <1>7 DEF p, q

\* Numbers no further than T from 0 add up, but for one of them, to a number
\* no further from 0 than T times the number of the others.
LEMMA OthersAddUp ==
  ASSUME NEW n \in Nat, NEW T \in Nat, NEW z \in [0..n -> Int], NEW e \in [1..n -> Int],
         z[0] = 0, \A k \in 1..n : z[k] = z[k - 1] + e[k],
         \A k \in 1..n : e[k] <= T /\ -T <= e[k],
         NEW j \in 1..n
  PROVE  z[n] - e[j] <= (n - 1) * T /\ -((n - 1) * T) <= z[n] - e[j]
<1> DEFINE Within(x, y) == x <= y /\ -y <= x
           Near == {k \in Nat : k <= n => IF j <= k THEN Within(z[k] - e[j], (k - 1) * T)
                                                    ELSE Within(z[k], k * T)}
<1>1. \A k \in Int : k * T \in Int /\ (k + 1) * T = k * T + T
  OBVIOUS
<1>2. \A x, y, v \in Int : Within(x, y) /\ Within(v, T) => Within(x + v, y + T)
  OBVIOUS
<1>3. 0 \in Near
  OBVIOUS
<1>4. ASSUME NEW k \in Nat, k \in Near PROVE k + 1 \in Near
  <2> SUFFICES ASSUME k + 1 <= n
               PROVE  IF j <= k + 1 THEN Within(z[k + 1] - e[j], k * T)
                                    ELSE Within(z[k + 1], (k + 1) * T)
    OBVIOUS
  <2>1. k + 1 \in 1..n /\ k \in 0..n /\ (k + 1) - 1 = k /\ k + 1 \in 0..n
    OBVIOUS
  <2>2. z[k + 1] = z[k] + e[k + 1] /\ z[k] \in Int /\ e[k + 1] \in Int /\ e[j] \in Int
    BY <2>1
  <2>3. Within(e[k + 1], T)
    BY <2>1
  <2>4. IF j <= k THEN Within(z[k] - e[j], (k - 1) * T) ELSE Within(z[k], k * T)
    BY <1>4, <2>1
  <2> HIDE DEF Near, Within
  <2>5. CASE j <= k
    <3>1. Within((z[k] - e[j]) + e[k + 1], (k - 1) * T + T)
      <4>1. z[k] - e[j] \in Int /\ k - 1 \in Int
        BY <2>2
      <4>2. (k - 1) * T \in Int
        BY <1>1, <4>1
      <4> QED BY <1>2, <2>2, <2>3, <2>4, <2>5, <4>1, <4>2
    <3>2. (z[k] - e[j]) + e[k + 1] = z[k + 1] - e[j] /\ (k - 1) + 1 = k /\ k - 1 \in Int
      BY <2>2
    <3>3. (k - 1) * T + T = k * T
      BY <1>1, <3>2
    <3> QED BY <2>1, <2>5, <3>1, <3>2, <3>3
  <2>6. CASE j = k + 1
    <3>1. z[k + 1] - e[j] = z[k] /\ ~(j <= k) /\ j <= k + 1
      BY <2>2, <2>6
    <3> QED BY <2>4, <3>1
  <2>7. CASE j > k + 1
    <3>1. ~(j <= k) /\ ~(j <= k + 1)
      BY <2>7
    <3>2. Within(z[k] + e[k + 1], k * T + T)
      <4>1. k * T \in Int /\ Within(z[k], k * T)
        BY <1>1, <2>4, <3>1
      <4> QED BY <1>2, <2>2, <2>3, <4>1
    <3>3. k * T + T = (k + 1) * T
      BY <1>1
    <3> QED BY <2>2, <3>1, <3>2, <3>3
  <2> QED BY <2>5, <2>6, <2>7
<1>5. \A k \in Nat : k \in Near
  <2> HIDE DEF Near
  <2> QED BY <1>3, <1>4, NumberInduction
<1>6. n \in Near /\ j <= n
  BY <1>5
<1> QED BY <1>6

\* twice TotalWeight times (the share of an entry - its exact share)
Err(ws, i, r) == 2 * (ShareOf(ws, i, r) * TotalWeight(ws) - ws[i].weight * r)

\* The entry that is given what is left is off by what the others are off.
LEMMA ErrorsAddUp ==
  ASSUME NEW G, NEW ws \in Seq(Entries(G)), OneGroupEach(ws), NEW r \in Nat,
         TotalWeight(ws) # 0, NEW j \in 1..Len(ws)
  PROVE  LET T   == TotalWeight(ws)
             err == Err(ws, j, r) + 2 * ((r - Allot(ws, r).allocated) * T)
         IN  err <= (Len(ws) - 1) * T /\ -((Len(ws) - 1) * T) <= err
<1> DEFINE n == Len(ws)
           T == TotalWeight(ws)
<1>1. PICK sums \in [0..n -> Nat] :
        /\ sums[0] = 0
        /\ \A k \in 1..n : sums[k] = sums[k - 1] + ws[k].weight
        /\ T = sums[n]
  BY TotalWeightAddsUp
<1>2. PICK acc \in [0..n -> Accounts(G)] :
        /\ acc[0] = [results |-> NoMap, allocated |-> 0]
        /\ \A k \in 1..n : acc[k].allocated = acc[k - 1].allocated + ShareOf(ws, k, r)
        /\ \A k \in 0..n : Served(acc, ws, r, k)
        /\ Allot(ws, r) = acc[n]
  BY SinglesAreServed
<1>3. \A k \in 0..n : acc[k].allocated \in Nat /\ sums[k] \in Nat
  BY <1>1, <1>2 DEF Accounts
<1>4. n \in Nat /\ T \in Nat
  BY <1>1
<1>5. \A k \in 1..n : ws[k].weight \in Nat /\ ShareOf(ws, k, r) \in Nat
  BY SinglesAreServed
<1> DEFINE z == [k \in 0..n |-> 2 * (acc[k].allocated * T - sums[k] * r)]
           e == [k \in 1..n |-> Err(ws, k, r)]
<1> HIDE DEF n, T
<1>6. z \in [0..n -> Int] /\ z[0] = 0
  <2>1. \A x \in Nat, y \in Nat : 2 * (x * T - y * r) \in Int
    BY <1>4
  <2>2. 0 \in 0..n /\ acc[0].allocated = 0 /\ sums[0] = 0
    BY <1>1, <1>2, <1>4
  <2>3. \A k \in 0..n : 2 * (acc[k].allocated * T - sums[k] * r) \in Int
    BY <1>3, <2>1
  <2>4. 2 * (0 * T - 0 * r) = 0
    BY <1>4
  <2> QED BY <2>2, <2>3, <2>4
<1>7. e \in [1..n -> Int] /\ \A k \in 1..n : e[k] <= T /\ -T <= e[k]
  <2> SUFFICES ASSUME NEW k \in 1..n
               PROVE  Err(ws, k, r) \in Int /\ Err(ws, k, r) <= T /\ -T <= Err(ws, k, r)
    OBVIOUS
  <2>1. \A x \in Nat, y \in Nat : 2 * (x * T - y * r) \in Int
    BY <1>4
  <2>2. T # 0
    BY DEF T
  <2> QED BY <1>4, <1>5, <2>1, <2>2, ShareIsNearest DEF Err, ShareOf, T
<1>8. ASSUME NEW k \in 1..n PROVE z[k] = z[k - 1] + e[k]
  <2>1. \A A, s, W, w \in Nat :
          2 * ((A + s) * T - (W + w) * r) = 2 * (A * T - W * r) + 2 * (s * T - w * r)
    BY <1>4
  <2>2. k \in 0..n /\ k - 1 \in 0..n
    BY <1>4
  <2>3. acc[k].allocated = acc[k - 1].allocated + ShareOf(ws, k, r)
        /\ sums[k] = sums[k - 1] + ws[k].weight
    BY <1>1, <1>2
  <2>4. Err(ws, k, r) = 2 * (ShareOf(ws, k, r) * T - ws[k].weight * r)
    BY DEF Err, T
  <2> DEFINE A == acc[k - 1].allocated
             W == sums[k - 1]
             s == ShareOf(ws, k, r)
             w == ws[k].weight
  <2>5. A \in Nat /\ W \in Nat /\ s \in Nat /\ w \in Nat
    BY <1>3, <1>5, <2>2
  <2>6. z[k] = 2 * ((A + s) * T - (W + w) * r) /\ z[k - 1] = 2 * (A * T - W * r)
        /\ e[k] = 2 * (s * T - w * r)
    BY <2>2, <2>3, <2>4
  <2> HIDE DEF A, W, s, w, z, e
  <2>7. 2 * ((A + s) * T - (W + w) * r) = 2 * (A * T - W * r) + 2 * (s * T - w * r)
    BY <2>1, <2>5
  <2> QED BY <2>6, <2>7
<1>9. j \in 1..n
  BY DEF n
<1>10. z[n] - e[j] <= (n - 1) * T /\ -((n - 1) * T) <= z[n] - e[j]
  <2> HIDE DEF z, e
  <2> QED BY <1>4, <1>6, <1>7, <1>8, <1>9, OthersAddUp
<1> DEFINE left == r - acc[n].allocated
<1>11. z[n] = -(2 * (left * T))
  <2>1. n \in 0..n /\ acc[n].allocated \in Nat
    BY <1>3, <1>4
  <2>2. z[n] = 2 * (acc[n].allocated * T - T * r)
    BY <1>1, <2>1
  <2>3. \A A \in Nat : 2 * (A * T - T * r) = -(2 * ((r - A) * T))
    BY <1>4
  <2> QED BY <2>1, <2>2, <2>3
<1>12. z[n] \in Int /\ e[j] \in Int /\ (n - 1) * T \in Int /\ 2 * (left * T) \in Int
  <2>1. left \in Int
    BY <1>3, <1>4
  <2>2. \A x \in Int : x * T \in Int
    BY <1>4
  <2> HIDE DEF z, e, left
  <2>3. z[n] \in Int /\ e[j] \in Int
    BY <1>4, <1>6, <1>7, <1>9
  <2>4. n - 1 \in Int
    BY <1>4
  <2> QED BY <2>1, <2>2, <2>3, <2>4
<1> DEFINE off == e[j] + 2 * (left * T)
<1>13. off <= (n - 1) * T /\ -((n - 1) * T) <= off
  <2> HIDE DEF z, e, left
  <2> QED BY <1>10, <1>11, <1>12
<1>14. off = Err(ws, j, r) + 2 * ((r - Allot(ws, r).allocated) * T)
  BY <1>2, <1>9
<1> HIDE DEF off
<1> QED BY <1>13, <1>14 DEF n, T

\* twice TotalWeight times (what the first group of an entry gets in the end -
\* its exact share)
ErrIn(want, ws, i, r) ==
  2 * (Lookup(want, First(ws, i)) * TotalWeight(ws) - ws[i].weight * r)

Within(x, y) == x <= y /\ -y <= x

\* Only the entry that is given what is left may be off by more than half a pod.
LEMMA AllButOneAreNear ==
  ASSUME NEW G, NEW ws \in Seq(Entries(G)), OneGroupEach(ws), ws # <<>>,
         TotalWeight(ws) # 0, NEW r \in Nat, NEW want \in DesiredPodsNum(ws, r)
  PROVE  LET T == TotalWeight(ws)
         IN  \E j \in 1..Len(ws) :
               /\ Within(ErrIn(want, ws, j, r), (Len(ws) - 1) * T)
               /\ \A i \in 1..Len(ws) : i # j => Within(ErrIn(want, ws, i, r), T)
<1> DEFINE n == Len(ws)
           T == TotalWeight(ws)
<1>1. n \in Nat /\ n # 0 /\ DOMAIN ws = 1..n /\ T \in Nat /\ T # 0
  BY TotalWeightAddsUp
<1>2. \A i \in 1..n : ws[i].weight \in Nat /\ ShareOf(ws, i, r) \in Nat
  BY SinglesAreServed
<1>3. PICK acc \in [0..n -> Accounts(G)] :
        /\ acc[0] = [results |-> NoMap, allocated |-> 0]
        /\ \A k \in 1..n : acc[k].allocated = acc[k - 1].allocated + ShareOf(ws, k, r)
        /\ \A k \in 0..n : Served(acc, ws, r, k)
        /\ Allot(ws, r) = acc[n]
  BY SinglesAreServed
<1> DEFINE m == acc[n].results
           s == acc[n].allocated
<1>4. /\ m \in Maps(G) /\ s \in Nat /\ Allot(ws, r) = [results |-> m, allocated |-> s]
      /\ DOMAIN m = {First(ws, i) : i \in 1..n}
      /\ \A i \in 1..n : Lookup(m, First(ws, i)) = ShareOf(ws, i, r)
  <2>1. n \in 0..n /\ acc[n] \in Accounts(G) /\ Served(acc, ws, r, n)
    BY <1>1, <1>3
  <2>2. /\ DOMAIN m = {First(ws, i) : i \in 1..n}
        /\ \A i \in 1..n : m[First(ws, i)] = ShareOf(ws, i, r)
    BY <2>1 DEF Served
  <2>3. m \in Maps(G) /\ s \in Nat /\ acc[n] = [results |-> m, allocated |-> s]
    BY <2>1 DEF Accounts
  <2> HIDE DEF n, m, s
  <2> QED BY <1>3, <2>2, <2>3 DEF Lookup
<1>5. m # NoMap
  <2>1. First(ws, 1) \in DOMAIN m
    BY <1>1, <1>4
  <2> QED BY <2>1 DEF NoMap
<1> HIDE DEF n, T, m, s
<1>6. PICK x \in DOMAIN m : /\ Lookup(want, x) = Lookup(m, x) + (r - s)
                            /\ \A g : g # x => Lookup(want, g) = Lookup(m, g)
  BY <1>4, <1>5, LeftGoesToOne
<1>7. PICK j \in 1..n : x = First(ws, j)
  BY <1>4
<1>8. ASSUME NEW i \in 1..n, i # j PROVE Within(ErrIn(want, ws, i, r), T)
  <2>1. First(ws, i) # x
    BY <1>1, <1>7, <1>8 DEF OneGroupEach
  <2>2. ErrIn(want, ws, i, r) = 2 * (Share(ws[i].weight, T, r) * T - ws[i].weight * r)
    BY <1>4, <1>6, <2>1 DEF ErrIn, ShareOf, T
  <2> QED BY <1>1, <1>2, <2>2, ShareIsNearest DEF Within
<1>9. Within(ErrIn(want, ws, j, r), (n - 1) * T)
  <2> DEFINE h == ShareOf(ws, j, r)
             w == ws[j].weight
  <2>1. ErrIn(want, ws, j, r) = 2 * ((h + (r - s)) * T - w * r)
    BY <1>4, <1>6, <1>7 DEF ErrIn, T
  <2>2. \A y, v, u \in Int : 2 * ((y + v) * T - u * r) = 2 * (y * T - u * r) + 2 * (v * T)
    BY <1>1
  <2>3. h \in Int /\ w \in Int /\ r - s \in Int
    BY <1>2, <1>4
  <2>4. Err(ws, j, r) = 2 * (h * T - w * r)
    BY DEF Err, T
  <2> HIDE DEF h, w
  <2>5. ErrIn(want, ws, j, r) = Err(ws, j, r) + 2 * ((r - s) * T)
    <3>1. 2 * ((h + (r - s)) * T - w * r) = 2 * (h * T - w * r) + 2 * ((r - s) * T)
      BY <2>2, <2>3
    <3> QED BY <2>1, <2>4, <3>1
  <2>6. Allot(ws, r).allocated = s
    BY <1>4
  <2>7. LET err == Err(ws, j, r) + 2 * ((r - Allot(ws, r).allocated) * T)
        IN  err <= (n - 1) * T /\ -((n - 1) * T) <= err
    BY <1>1, ErrorsAddUp DEF n, T
  <2> QED BY <2>5, <2>6, <2>7 DEF Within
<1> QED BY <1>8, <1>9 DEF n, T

\* Every group but at most one gets its exact proportional share to within half
\* a pod, and that one is off by no more than half a pod per other group, for
\* any number of entries, any weights and any number of replicas.
THEOREM SharesAreNearest == Spec => []NearestShare
<1>1. Passed => NearestShare
  <2> SUFFICES ASSUME Passed, call = "desired", weights # <<>>, SingleNames, DistinctFirsts
               PROVE  NearestShare
    BY DEF NearestShare
  <2> DEFINE n == Len(weights)
             T == TotalWeight(weights)
             err(i) == ErrIn(desired, weights, i, replicas)
             off == {i \in DOMAIN weights : Abs(err(i)) > T}
  <2>1. /\ weights \in Seq(Entries(Groups)) /\ replicas \in Nat
        /\ desired \in DesiredPodsNum(weights, replicas)
        /\ \A i \in 1..n : weights[i].weight >= 1
    BY WeightListsAreLists, BoundsAreNumbers DEF Passed
  <2>2. OneGroupEach(weights)
    BY DEF OneGroupEach, SingleNames, DistinctFirsts, First
  <2>3. n \in Nat /\ n # 0 /\ DOMAIN weights = 1..n
    BY <2>1
  <2>4. T \in Nat /\ T # 0
    <3>1. PICK sums \in [0..n -> Nat] :
            /\ sums[0] = 0
            /\ \A k \in 1..n : sums[k] = sums[k - 1] + weights[k].weight
            /\ T = sums[n]
      BY <2>1, TotalWeightAddsUp
    <3>2. n \in 1..n /\ n \in 0..n /\ n - 1 \in 0..n
      BY <2>3
    <3>3. sums[n] = sums[n - 1] + weights[n].weight /\ sums[n - 1] \in Nat /\ sums[n] \in Nat
          /\ weights[n].weight >= 1
      BY <2>1, <3>1, <3>2
    <3>4. weights[n].weight \in Nat
      BY <2>1, <2>2, <3>2, SinglesAreServed
    <3> QED BY <3>1, <3>3, <3>4
  <2>5. PICK j \in 1..n :
          /\ Within(err(j), (n - 1) * T)
          /\ \A i \in 1..n : i # j => Within(err(i), T)
    BY <2>1, <2>2, <2>4, AllButOneAreNear
  <2>6. \A i \in 1..n : err(i) \in Int
    <3>1. \A i \in 1..n : weights[i].weight \in Nat
      BY <2>1, <2>2, SinglesAreServed
    <3>2. \A i \in 1..n : Lookup(desired, First(weights, i)) \in Int
      BY LookupIsInt DEF Passed
    <3>3. \A x \in Int, y \in Nat : 2 * (x * T - y * replicas) \in Int
      BY <2>1, <2>4
    <3>4. ASSUME NEW i \in 1..n PROVE err(i) \in Int
      <4>1. err(i) = 2 * (Lookup(desired, First(weights, i)) * T - weights[i].weight * replicas)
        BY DEF ErrIn
      <4> HIDE DEF T, n, err
      <4> QED BY <3>1, <3>2, <3>3, <4>1
    <3> QED BY <3>4
  <2>7. \A x, y \in Int : Within(x, y) <=> Abs(x) <= y
    BY DEF Within, Abs
  <2>8. \A i \in 1..n : Abs(err(i)) \in Int
    BY <2>6 DEF Abs
  <2> HIDE DEF n, T, err
  <2>9. off \subseteq {j}
    <3> SUFFICES ASSUME NEW i \in 1..n, Abs(err(i)) > T, i # j PROVE FALSE
      BY <2>3
    <3>1. Abs(err(i)) <= T
      BY <2>4, <2>5, <2>6, <2>7
    <3> QED BY <2>4, <2>8, <3>1
  <2>10. Cardinality(off) <= 1
    <3>1. IsFiniteSet({j}) /\ Cardinality({j}) = 1
      BY FS_Singleton
    <3>2. Cardinality(off) <= Cardinality({j})
      BY <2>9, <3>1, FS_Subset
    <3> QED BY <3>1, <3>2
  <2>11. (n - 1) * T \in Int
    BY <2>3, <2>4
  <2>12. \A i \in off : Abs(err(i)) <= (n - 1) * T
    <3>1. Abs(err(j)) <= (n - 1) * T
      BY <2>5, <2>6, <2>7, <2>11
    <3> QED BY <2>9, <3>1
  <2> QED BY <2>10, <2>12 DEF NearestShare, n, T, err, ErrIn, First
<1> QED BY <1>1, PassedInvariant, PTL

=============================================================================
