--------------------------- MODULE PlacementProofs ---------------------------
(***************************************************************************)
(* What the operators of Placement return, for every argument.             *)
(***************************************************************************)
EXTENDS Placement, FoldTheorems

\* The empty map is a map of any keys and values.
LEMMA NoMapIsMap ==
  ASSUME NEW K, NEW V
  PROVE  IsMap(NoMap, K, V)
BY DEF IsMap, NoMap

\* GetNodesInGroups writes only nodes as keys and groups as values.
LEMMA AddNodesIsMap ==
  ASSUME NEW K, NEW V, NEW nodesIn, IsMap(nodesIn, K, V),
         NEW nodes \in SUBSET K, NEW g \in V
  PROVE  IsMap(AddNodes(nodesIn, nodes, g), K, V)
BY DEF IsMap, AddNodes, Put

\* getPodsNeedToDelete returns pods of the listing that run on a node of some
\* group, whatever is desired: never one without a node.
LEMMA DoomedArePlaced ==
  ASSUME NEW listing, NEW nodeOf, NEW desired, NEW nodesIn,
         NEW p \in PodsNeedToDelete(listing, nodeOf, desired, nodesIn)
  PROVE  \E i \in DOMAIN listing : p = listing[i] /\ nodeOf[p] \in DOMAIN nodesIn
BY DEF PodsNeedToDelete

-----------------------------------------------------------------------------
\* What the loop over the weight list adds up.
Entries(Names) == [names : Seq(Names), weight : Nat]

\* The fold of TotalWeight is the loop of the code: one entry after the other.
LEMMA TotalWeightAddsUp ==
  ASSUME NEW Names, NEW weights \in Seq(Entries(Names))
  PROVE  \E sums \in [0..Len(weights) -> Nat] :
           /\ sums[0] = 0
           /\ \A k \in 1..Len(weights) : sums[k] = sums[k - 1] + weights[k].weight
           /\ TotalWeight(weights) = sums[Len(weights)]
<1> DEFINE n == Len(weights)
           D == SUBSET (1..n)
           Fits(it) == it = [s \in D |-> IF s = {} THEN 0 ELSE it[s \ {Max(s)}] + weights[Max(s)].weight]
           step == [vk \in Nat \X (1..n) |-> vk[1] + weights[vk[2]].weight]
<1>1. n \in Nat /\ DOMAIN weights = 1..n /\ \A k \in 1..n : weights[k].weight \in Nat
  <2>1. \A k \in 1..Len(weights) : weights[k] \in Entries(Names)
    OBVIOUS
  <2>2. \A e \in Entries(Names) : e.weight \in Nat
    BY DEF Entries
  <2> QED BY <2>1, <2>2
<1>2. step \in [Nat \X (1..n) -> Nat]
  BY <1>1
<1>3. \A sum \in Nat, k \in 1..n : step[<<sum, k>>] = sum + weights[k].weight
  OBVIOUS
<1>4. \A s \in D : s # {} => Max(s) \in 1..n
  BY <1>1, GreatestIsIn
<1> HIDE DEF step, n
<1>5. PICK it \in [D -> Nat] : Steps(it, n, Nat, 0, step)
  BY <1>1, <1>2, StepsExist
<1>6. Fits(it)
  <2>1. ASSUME NEW s \in D, s # {} PROVE it[s] = it[s \ {Max(s)}] + weights[Max(s)].weight
    <3>1. s \ {Max(s)} \in D /\ it[s \ {Max(s)}] \in Nat
      OBVIOUS
    <3> QED BY <1>3, <1>4, <1>5, <2>1, <3>1 DEF Steps, Rest
  <2>2. it[{}] = 0
    BY <1>5 DEF Steps
  <2> QED BY <2>1, <2>2
<1>7. TotalWeight(weights) = (CHOOSE g : Fits(g))[1..n]
  BY <1>1, Zenon DEF TotalWeight, FoldLeft, MapThenFoldSet
<1>8. PICK g : Fits(g) /\ TotalWeight(weights) = g[1..n]
  <2> HIDE DEF Fits
  <2> QED BY <1>6, <1>7
<1>9. Steps(g, n, Nat, 0, step)
  BY <1>3, <1>4, <1>8 DEF Steps, Rest
<1>10. PICK sums \in [0..n -> Nat] : Runs(sums, n, 0, step, g[1..n])
  <2> HIDE DEF Fits
  <2> QED BY <1>1, <1>2, <1>9, StepByStep
<1>11. \A k \in 1..n : sums[k - 1] \in Nat
  BY <1>1, <1>10
<1> HIDE DEF Fits
<1> QED BY <1>3, <1>8, <1>10, <1>11 DEF Runs, n

\* An entry gets a natural number of pods.
LEMMA ShareIsNat ==
  ASSUME NEW weight \in Nat, NEW total \in Nat, NEW replicas \in Nat
  PROVE  Share(weight, total, replicas) \in Nat
<1>1. 2 * weight * replicas + total \in Nat
  OBVIOUS
<1>2. \A x \in Nat, y \in Nat : y # 0 => x \div (2 * y) \in Nat
  OBVIOUS
<1> QED BY <1>1, <1>2 DEF Share

\* A map of some of the groups of G to integers.
Maps(G) == UNION {[K -> Int] : K \in SUBSET G}

\* Maps(G) has the maps from keys of G to integers, and no others.
LEMMA MapsAreMaps ==
  ASSUME NEW G, NEW m
  PROVE  m \in Maps(G) <=> IsMap(m, G, Int)
BY DEF Maps, IsMap

\* Writing keys of G and a number leaves a map of G to integers.
LEMMA PutIsMap ==
  ASSUME NEW G, NEW m \in Maps(G), NEW K \in SUBSET G, NEW v \in Int
  PROVE  Put(m, K, v) \in Maps(G)
<1>1. DOMAIN m \in SUBSET G /\ \A g \in DOMAIN m : m[g] \in Int
  BY DEF Maps
<1>2. Put(m, K, v) \in [K \cup DOMAIN m -> Int]
  BY <1>1 DEF Put
<1> QED BY <1>1, <1>2 DEF Maps

\* Grant only writes names of the entry, and numbers.
LEMMA GrantIsMap ==
  ASSUME NEW G, NEW m \in Maps(G), NEW names \in Seq(G), names # <<>>, NEW share \in Int
  PROVE  Grant(m, names, share) \in Maps(G)
<1>1. {names[1]} \in SUBSET G /\ {names[i] : i \in 3..Len(names)} \in SUBSET G
  OBVIOUS
<1>2. Put(m, {names[1]}, share) \in Maps(G)
  BY <1>1, PutIsMap
<1> QED BY <1>1, <1>2, PutIsMap DEF Grant

\* The loop that grants each entry its share, one entry after the other.
Accounts(G) == [results : Maps(G), allocated : Nat]

AfterEntry(acc, e, total, replicas) ==
  LET share == Share(e.weight, total, replicas)
  IN  [results   |-> Grant(acc.results, e.names, share),
       allocated |-> acc.allocated + share]

\* The fold of Allot is the loop of the code: there is an account for each entry,
\* the next one follows from it, and the last is the result.
LEMMA AllotStepByStep ==
  ASSUME NEW G, NEW weights \in Seq(Entries(G)), ~Panics(weights), NEW replicas \in Nat
  PROVE  /\ TotalWeight(weights) \in Nat
         /\ \E acc \in [0..Len(weights) -> Accounts(G)] :
              /\ acc[0] = [results |-> NoMap, allocated |-> 0]
              /\ \A k \in 1..Len(weights) :
                   acc[k] = AfterEntry(acc[k - 1], weights[k], TotalWeight(weights), replicas)
              /\ Allot(weights, replicas) = acc[Len(weights)]
<1> DEFINE n == Len(weights)
           total == TotalWeight(weights)
           D == SUBSET (1..n)
           nothing == [results |-> NoMap, allocated |-> 0]
           Fits(it) == it = [s \in D |-> IF s = {} THEN nothing
                                         ELSE AfterEntry(it[s \ {Max(s)}], weights[Max(s)], total, replicas)]
           step == [vk \in Accounts(G) \X (1..n) |-> AfterEntry(vk[1], weights[vk[2]], total, replicas)]
<1>1. n \in Nat /\ DOMAIN weights = 1..n /\ total \in Nat
  BY TotalWeightAddsUp
<1>2. ASSUME NEW acc \in Accounts(G), NEW k \in 1..n
      PROVE  AfterEntry(acc, weights[k], total, replicas) \in Accounts(G)
  <2>1. weights[k] \in Entries(G) /\ weights[k].names # <<>>
    BY <1>1 DEF Panics
  <2>2. weights[k].weight \in Nat /\ weights[k].names \in Seq(G)
    BY <2>1 DEF Entries
  <2>3. Share(weights[k].weight, total, replicas) \in Nat
    BY <1>1, <2>2, ShareIsNat
  <2>4. acc.results \in Maps(G) /\ acc.allocated \in Nat
    BY DEF Accounts
  <2>5. Grant(acc.results, weights[k].names, Share(weights[k].weight, total, replicas)) \in Maps(G)
    <3>1. Share(weights[k].weight, total, replicas) \in Int
      BY <2>3
    <3> QED BY <2>1, <2>2, <2>4, <3>1, GrantIsMap
  <2> HIDE DEF total
  <2> QED BY <2>3, <2>4, <2>5 DEF AfterEntry, Accounts
<1>3. nothing \in Accounts(G)
  BY NoMapIsMap, MapsAreMaps DEF Accounts
<1>4. step \in [Accounts(G) \X (1..n) -> Accounts(G)]
  <2> HIDE DEF n, total
  <2> QED BY <1>2
<1>5. \A acc \in Accounts(G), k \in 1..n : step[<<acc, k>>] = AfterEntry(acc, weights[k], total, replicas)
  OBVIOUS
<1>6. \A s \in D : s # {} => Max(s) \in 1..n
  BY <1>1, GreatestIsIn
<1> HIDE DEF step, n, nothing, total
<1>7. PICK it \in [D -> Accounts(G)] : Steps(it, n, Accounts(G), nothing, step)
  BY <1>1, <1>3, <1>4, StepsExist
<1>8. Fits(it)
  <2>1. ASSUME NEW s \in D, s # {}
        PROVE  it[s] = AfterEntry(it[s \ {Max(s)}], weights[Max(s)], total, replicas)
    <3>1. s \ {Max(s)} \in D /\ it[s \ {Max(s)}] \in Accounts(G)
      OBVIOUS
    <3> QED BY <1>5, <1>6, <1>7, <2>1, <3>1 DEF Steps, Rest
  <2>2. it[{}] = nothing
    BY <1>7 DEF Steps
  <2> QED BY <2>1, <2>2
<1>9. Allot(weights, replicas) = (CHOOSE g : Fits(g))[1..n]
  BY <1>1, Zenon DEF Allot, FoldLeft, MapThenFoldSet, AfterEntry, nothing, total
<1>10. PICK g : Fits(g) /\ Allot(weights, replicas) = g[1..n]
  <2> HIDE DEF Fits
  <2> QED BY <1>8, <1>9
<1>11. Steps(g, n, Accounts(G), nothing, step)
  BY <1>5, <1>6, <1>10 DEF Steps, Rest
<1>12. PICK acc \in [0..n -> Accounts(G)] : Runs(acc, n, nothing, step, g[1..n])
  <2> HIDE DEF Fits
  <2> QED BY <1>1, <1>3, <1>4, <1>11, StepByStep
<1>13. \A k \in 1..n : acc[k - 1] \in Accounts(G)
  BY <1>1, <1>12
<1> HIDE DEF Fits
<1> QED BY <1>1, <1>5, <1>10, <1>12, <1>13 DEF Runs, n, nothing, total

\* Every result of DesiredPodsNumInTargetNodeGroups maps groups to integers.
LEMMA DesiredIsMap ==
  ASSUME NEW G, NEW weights \in Seq(Entries(G)), ~Panics(weights), NEW replicas \in Nat,
         NEW desired \in DesiredPodsNum(weights, replicas)
  PROVE  desired \in Maps(G)
<1> DEFINE allotted == Allot(weights, replicas)
<1>1. allotted \in Accounts(G)
  <2>1. Len(weights) \in 0..Len(weights)
    OBVIOUS
  <2> QED BY <2>1, AllotStepByStep
<1>2. allotted.results \in Maps(G) /\ allotted.allocated \in Nat
  BY <1>1 DEF Accounts
<1>3. ASSUME NEW m \in Maps(G), NEW left \in Int, NEW g \in DOMAIN m
      PROVE  [m EXCEPT ![g] = @ + left] \in Maps(G)
  BY DEF Maps
<1>4. replicas - allotted.allocated \in Int
  BY <1>2
<1>5. desired = allotted.results
      \/ \E g \in DOMAIN allotted.results :
           desired = [allotted.results EXCEPT ![g] = @ + (replicas - allotted.allocated)]
  BY DEF DesiredPodsNum
<1> HIDE DEF allotted
<1> QED BY <1>2, <1>3, <1>4, <1>5

\* Reading a map of numbers gives a number.
LEMMA LookupIsInt ==
  ASSUME NEW G, NEW m \in Maps(G), NEW g
  PROVE  Lookup(m, g) \in Int
BY DEF Maps, Lookup

-----------------------------------------------------------------------------
(***************************************************************************)
(* The cut.  R is the set of the indices of the listing whose pods run in  *)
(* a group, in their order; an index is kept when no more than goal of     *)
(* them come up to it.                                                     *)
(***************************************************************************)
UpTo(R, i) == {j \in R : j <= i}

Kept(R, goal) == {i \in R : Cardinality(UpTo(R, i)) <= goal}

Floor0(goal) == IF goal < 0 THEN 0 ELSE goal

LeastOf(m, n) == IF m < n THEN m ELSE n

\* As many indices are kept as the goal says, or all when there are fewer, and
\* a goal below zero keeps none.
LEMMA CutKeepsTheGoal ==
  ASSUME NEW n \in Nat, NEW R \in SUBSET (1..n), NEW goal \in Int
  PROVE  Cardinality(Kept(R, goal)) = LeastOf(Cardinality(R), Floor0(goal))
<1>1. \A S \in SUBSET R : IsFiniteSet(S) /\ Cardinality(S) \in Nat
  <2>1. IsFiniteSet(1..n)
    BY FS_Interval
  <2>2. \A S \in SUBSET R : S \in SUBSET (1..n)
    OBVIOUS
  <2> QED BY <2>1, <2>2, FS_Subset, FS_CardinalityType
<1>2. \A S \in SUBSET R : \A T \in SUBSET S : Cardinality(T) <= Cardinality(S)
  BY <1>1, FS_Subset
<1>3. \A i \in R : i \in Nat /\ UpTo(R, i) \in SUBSET R /\ i \in UpTo(R, i)
  BY DEF UpTo
<1>4. Kept(R, goal) \in SUBSET R
  BY DEF Kept
<1>5. Cardinality({}) = 0
  BY FS_EmptySet
<1>6. ASSUME goal >= 0 PROVE Cardinality(Kept(R, goal)) <= goal
  <2>1. CASE Kept(R, goal) = {}
    BY <2>1, <1>5, <1>6
  <2>2. CASE Kept(R, goal) # {}
    <3>1. Kept(R, goal) \in SUBSET (0..n)
      <4>1. \A i \in 1..n : i \in 0..n
        OBVIOUS
      <4> QED BY <4>1, <1>4
    <3>2. PICK m \in Kept(R, goal) : \A k \in Kept(R, goal) : k <= m
      BY <2>2, <3>1, GreatestNumber
    <3>3. Kept(R, goal) \in SUBSET UpTo(R, m) /\ m \in R /\ Cardinality(UpTo(R, m)) <= goal
      BY <3>2 DEF Kept, UpTo
    <3>4. Cardinality(Kept(R, goal)) <= Cardinality(UpTo(R, m))
      BY <1>2, <1>3, <3>3
    <3>5. Cardinality(Kept(R, goal)) \in Nat /\ Cardinality(UpTo(R, m)) \in Nat
      BY <1>1, <1>3, <1>4, <3>3
    <3> QED BY <3>3, <3>4, <3>5
  <2> QED BY <2>1, <2>2
<1>7. ASSUME Kept(R, goal) # R, goal >= 0 PROVE Cardinality(Kept(R, goal)) >= goal
  <2>1. R \ Kept(R, goal) \in SUBSET Nat /\ R \ Kept(R, goal) # {}
    <3>1. \A i \in R \ Kept(R, goal) : i \in Nat
      BY <1>3
    <3> QED BY <3>1, <1>7, <1>4
  <2>2. PICK m \in R \ Kept(R, goal) : \A k \in R \ Kept(R, goal) : m <= k
    BY <2>1, LeastNumber
  <2>3. Cardinality(UpTo(R, m)) > goal
    BY <2>2, <1>1, <1>3 DEF Kept
  <2>4. UpTo(R, m) \ {m} \in SUBSET Kept(R, goal)
    <3> SUFFICES ASSUME NEW j \in UpTo(R, m), j # m PROVE j \in Kept(R, goal)
      OBVIOUS
    <3>1. j \in R /\ m \in R /\ j <= m
      BY DEF UpTo
    <3>2. ~(m <= j)
      BY <3>1, <1>3
    <3> QED BY <2>2, <3>1, <3>2
  <2>5. Cardinality(UpTo(R, m) \ {m}) = Cardinality(UpTo(R, m)) - 1
    BY <2>2, <1>1, <1>3, FS_RemoveElement
  <2>6. Cardinality(UpTo(R, m) \ {m}) <= Cardinality(Kept(R, goal))
    BY <2>4, <1>2, <1>4
  <2>7. Cardinality(UpTo(R, m)) \in Nat /\ Cardinality(Kept(R, goal)) \in Nat
    BY <2>2, <1>1, <1>3, <1>4
  <2> QED BY <2>3, <2>5, <2>6, <2>7
<1>8. ASSUME goal < 0 PROVE Kept(R, goal) = {}
  <2>1. ASSUME NEW i \in R PROVE ~(Cardinality(UpTo(R, i)) <= goal)
    <3>1. Cardinality(UpTo(R, i)) \in Nat
      BY <1>1, <1>3
    <3> QED BY <3>1, <1>8
  <2> QED BY <2>1 DEF Kept
<1>9. Cardinality(R) \in Nat /\ Cardinality(Kept(R, goal)) \in Nat
      /\ Cardinality(Kept(R, goal)) <= Cardinality(R)
  BY <1>1, <1>2, <1>4
<1>10. CASE goal < 0
  BY <1>10, <1>5, <1>8, <1>9 DEF LeastOf, Floor0
<1>11. CASE goal >= 0 /\ Kept(R, goal) = R
  BY <1>11, <1>6, <1>9 DEF LeastOf, Floor0
<1>12. CASE goal >= 0 /\ Kept(R, goal) # R
  BY <1>12, <1>6, <1>7, <1>9 DEF LeastOf, Floor0
<1> QED BY <1>10, <1>11, <1>12

\* A listing of a finite set shows each of its elements once.
LEMMA ListingShowsAll ==
  ASSUME NEW S, IsFiniteSet(S), NEW listing \in SetToSeqs(S)
  PROVE  \E n \in Nat : /\ listing \in [1..n -> S]
                        /\ \A i, j \in 1..n : listing[i] = listing[j] => i = j
                        /\ \A p \in S : \E i \in 1..n : p = listing[i]
<1> DEFINE n == Cardinality(S)
<1>1. n \in Nat
  BY FS_CardinalityType
<1>2. listing \in [1..n -> S] /\ \A i, j \in 1..n : listing[i] = listing[j] => i = j
  BY DEF SetToSeqs
<1>3. listing \in Injection(1..n, S)
  BY <1>2 DEF Injection, IsInjective
<1>4. Cardinality(1..n) = n
  BY <1>1, FS_Interval
<1>5. listing \in Surjection(1..n, S)
  BY <1>3, <1>4, FS_Injection
<1>6. \A p \in S : \E i \in 1..n : p = listing[i]
  BY <1>5 DEF Surjection
<1> QED BY <1>1, <1>2, <1>6

\* getPodsNeedToDelete leaves of the pods that run in a group as many as are
\* desired there, or all when there are fewer, in whatever order they are listed.
LEMMA ListingIsCutToTheGoal ==
  ASSUME NEW S, IsFiniteSet(S), NEW listing \in SetToSeqs(S), NEW nodeOf, NEW nodesIn,
         NEW desired, NEW g, Lookup(desired, g) \in Int
  PROVE  LET here == {p \in S : RunsIn(p, g, nodeOf, nodesIn)}
             kept == here \ PodsNeedToDelete(listing, nodeOf, desired, nodesIn)
         IN  Cardinality(kept) = LeastOf(Cardinality(here), Floor0(Lookup(desired, g)))
<1> DEFINE here == {p \in S : RunsIn(p, g, nodeOf, nodesIn)}
           doomed == PodsNeedToDelete(listing, nodeOf, desired, nodesIn)
           goal == Lookup(desired, g)
<1>1. PICK n \in Nat : /\ listing \in [1..n -> S]
                       /\ \A i, j \in 1..n : listing[i] = listing[j] => i = j
                       /\ \A p \in S : \E i \in 1..n : p = listing[i]
  BY ListingShowsAll
<1> DEFINE R == {i \in 1..n : RunsIn(listing[i], g, nodeOf, nodesIn)}
<1>2. ASSUME NEW i \in 1..n
      PROVE  CountUpTo(i, g, listing, nodeOf, nodesIn) = Cardinality(UpTo(R, i))
  <2>1. {j \in 1..i : RunsIn(listing[j], g, nodeOf, nodesIn)} = UpTo(R, i)
    <3>1. \A j \in 1..i : j \in 1..n /\ j <= i
      OBVIOUS
    <3>2. \A j \in 1..n : j <= i => j \in 1..i
      OBVIOUS
    <3> QED BY <3>1, <3>2, Zenon DEF UpTo
  <2> QED BY <2>1 DEF CountUpTo
<1>3. ASSUME NEW i \in R PROVE listing[i] \in doomed <=> Cardinality(UpTo(R, i)) > goal
  <2>1. i \in 1..n /\ nodeOf[listing[i]] \in DOMAIN nodesIn /\ nodesIn[nodeOf[listing[i]]] = g
    BY DEF RunsIn
  <2>2. CountUpTo(i, g, listing, nodeOf, nodesIn) = Cardinality(UpTo(R, i))
    BY <1>2, <2>1
  <2>3. listing[i] \in doomed <=> CountUpTo(i, g, listing, nodeOf, nodesIn) > goal
    <3>1. DOMAIN listing = 1..n
      BY <1>1
    <3>2. \A k \in 1..n : listing[i] = listing[k] => i = k
      BY <1>1, <2>1
    <3> HIDE DEF R
    <3> QED BY <2>1, <3>1, <3>2 DEF PodsNeedToDelete
  <2> QED BY <2>2, <2>3
<1>4. R \in SUBSET (1..n) /\ IsFiniteSet(R) /\ \A i \in R : Cardinality(UpTo(R, i)) \in Nat
  <2>1. R \in SUBSET (1..n) /\ IsFiniteSet(1..n) /\ \A i : UpTo(R, i) \in SUBSET (1..n)
    BY FS_Interval DEF UpTo
  <2> QED BY <2>1, FS_Subset, FS_CardinalityType
<1>5. \A i \in R : i \in Kept(R, goal) <=> listing[i] \notin doomed
  BY <1>3, <1>4 DEF Kept
<1>6. Cardinality(here) = Cardinality(R)
  <2> DEFINE f == [i \in R |-> listing[i]]
  <2>1. f \in Injection(R, here) /\ f \in Surjection(R, here)
    <3>1. \A i \in R : i \in 1..n /\ listing[i] \in here
      BY <1>1
    <3>2. \A p \in here : \E i \in R : listing[i] = p
      BY <1>1
    <3> HIDE DEF R, here
    <3>3. f \in [R -> here] /\ \A i, j \in R : f[i] = f[j] => i = j
      BY <1>1, <3>1
    <3> QED BY <3>2, <3>3 DEF Injection, IsInjective, Surjection
  <2> QED BY <1>4, <2>1, FS_Surjection
<1>7. Cardinality(here \ doomed) = Cardinality(Kept(R, goal))
  <2> DEFINE K == Kept(R, goal)
             f == [i \in K |-> listing[i]]
  <2>1. K \in SUBSET R /\ IsFiniteSet(K)
    BY <1>4, FS_Subset DEF Kept
  <2>2. f \in Injection(K, here \ doomed) /\ f \in Surjection(K, here \ doomed)
    <3>1. \A i \in K : i \in 1..n /\ listing[i] \in here \ doomed
      BY <1>1, <1>5, <2>1
    <3>2. \A p \in here \ doomed : \E i \in K : listing[i] = p
      <4> SUFFICES ASSUME NEW p \in here, p \notin doomed PROVE \E i \in K : listing[i] = p
        OBVIOUS
      <4>1. PICK i \in 1..n : p = listing[i]
        BY <1>1
      <4>2. i \in R
        BY <4>1
      <4> HIDE DEF R, here, doomed, K
      <4> QED BY <1>5, <4>1, <4>2 DEF K
    <3> HIDE DEF K, R, here, doomed
    <3>3. f \in [K -> here \ doomed] /\ \A i, j \in K : f[i] = f[j] => i = j
      BY <1>1, <3>1
    <3> QED BY <3>2, <3>3 DEF Injection, IsInjective, Surjection
  <2> QED BY <2>1, <2>2, FS_Surjection
<1>8. Cardinality(Kept(R, goal)) = LeastOf(Cardinality(R), Floor0(goal))
  <2> HIDE DEF R, goal
  <2>1. goal \in Int
    BY DEF goal
  <2> QED BY <1>4, <2>1, CutKeepsTheGoal
<1> QED BY <1>6, <1>7, <1>8

=============================================================================
