----------------------------- MODULE FoldTheorems -----------------------------
(***************************************************************************)
(* Induction over numbers and finite sets, and recursion over the subsets  *)
(* of a finite set, in a form first-order provers can use: what is proved  *)
(* by induction is a set of numbers, and what is applied at each step of a *)
(* fold is a function.                                                     *)
(***************************************************************************)
EXTENDS Integers, FiniteSetsExt, FiniteSetTheorems, WellFoundedInduction, TLAPS

\* Every set of natural numbers that is not empty has a least element: the
\* intervals below its elements are well-founded under inclusion.
LEMMA LeastNumber ==
  ASSUME NEW S \in SUBSET Nat, S # {}
  PROVE  \E m \in S : \A k \in S : m <= k
<1> DEFINE T == {1..k : k \in S}
<1>1. T \subseteq FiniteSubsetsOf(Nat) /\ T # {}
  <2>1. ASSUME NEW k \in S PROVE 1..k \in FiniteSubsetsOf(Nat)
    <3>1. IsFiniteSet(1..k)
      BY FS_Interval
    <3>2. 1..k \in SUBSET Nat
      OBVIOUS
    <3> QED BY <3>1, <3>2 DEF FiniteSubsetsOf
  <2> QED BY <2>1
<1>2. IsWellFoundedOn(StrictSubsetOrdering(Nat), FiniteSubsetsOf(Nat))
  BY FS_StrictSubsetOrderingWellFounded
<1>3. PICK X \in T : \A Y \in T : <<Y, X>> \notin StrictSubsetOrdering(Nat)
  <2> HIDE DEF T
  <2> QED BY <1>1, <1>2, WFMin, Zenon
<1>4. PICK m \in S : X = 1..m
  OBVIOUS
<1>5. ASSUME NEW k \in S, k < m PROVE FALSE
  <2>1. 1..k \in T /\ 1..k \subseteq 1..m /\ m \in 1..m /\ m \notin 1..k
    BY <1>5
  <2>2. 1..k \in SUBSET Nat /\ X \in SUBSET Nat /\ 1..k \subseteq X /\ 1..k # X
    BY <2>1, <1>4
  <2>3. <<1..k, X>> \in StrictSubsetOrdering(Nat)
    BY <2>2, Zenon DEF StrictSubsetOrdering
  <2> QED BY <2>1, <2>3, <1>3
<1> QED BY <1>5

\* Induction: a set that holds 0 and the successor of each of its elements
\* holds every natural number.
LEMMA NumberInduction ==
  ASSUME NEW S, 0 \in S, \A n \in Nat : n \in S => n + 1 \in S
  PROVE  \A n \in Nat : n \in S
<1> SUFFICES ASSUME Nat \ S # {} PROVE FALSE
  OBVIOUS
<1>1. PICK m \in Nat \ S : \A k \in Nat \ S : m <= k
  BY LeastNumber
<1>2. m - 1 \in Nat /\ m - 1 \notin Nat \ S
  BY <1>1
<1> QED BY <1>1, <1>2

\* A set of natural numbers with a bound has a greatest element.
LEMMA GreatestNumber ==
  ASSUME NEW n \in Nat, NEW S \in SUBSET (0..n), S # {}
  PROVE  \E m \in S : \A k \in S : k <= m
<1> DEFINE T == {n - k : k \in S}
<1>1. T \in SUBSET Nat /\ T # {}
  <2>1. \A k \in S : k \in 0..n /\ n - k \in Nat
    OBVIOUS
  <2> QED BY <2>1
<1>2. PICK t \in T : \A u \in T : t <= u
  <2> HIDE DEF T
  <2> QED BY <1>1, LeastNumber
<1>3. PICK m \in S : t = n - m
  OBVIOUS
<1>4. ASSUME NEW k \in S PROVE k <= m
  BY <1>2, <1>3
<1> QED BY <1>4

\* Max is the greatest element.
LEMMA MaxIsGreatest ==
  ASSUME NEW n \in Nat, NEW S \in SUBSET (0..n), S # {}
  PROVE  Max(S) \in S /\ \A k \in S : k <= Max(S)
<1>1. \E m \in S : \A k \in S : m >= k
  BY GreatestNumber
<1>2. Max(S) \in S /\ \A k \in S : Max(S) >= k
  BY <1>1 DEF Max
<1> QED BY <1>2

\* Min is the least element.
LEMMA MinIsLeast ==
  ASSUME NEW S \in SUBSET Nat, S # {}
  PROVE  Min(S) \in S /\ \A k \in S : Min(S) <= k
<1>1. \E m \in S : \A k \in S : m <= k
  BY LeastNumber
<1> QED BY <1>1 DEF Min

\* A property of the subsets of a finite set, given as the set of those that
\* have it: all have it when the empty set has it and each set does whose
\* subsets with one element less do.
LEMMA SubsetInduction ==
  ASSUME NEW S, IsFiniteSet(S), NEW Good,
         {} \in Good,
         \A s \in SUBSET S : s # {} /\ (\A x \in s : s \ {x} \in Good) => s \in Good
  PROVE  \A s \in SUBSET S : s \in Good
<1> DEFINE N == {n \in Nat : \A s \in SUBSET S : Cardinality(s) = n => s \in Good}
<1>1. \A s \in SUBSET S : IsFiniteSet(s) /\ Cardinality(s) \in Nat
  BY FS_Subset, FS_CardinalityType
<1>2. 0 \in N
  BY <1>1, FS_EmptySet
<1>3. ASSUME NEW n \in Nat, n \in N PROVE n + 1 \in N
  <2> SUFFICES ASSUME NEW s \in SUBSET S, Cardinality(s) = n + 1 PROVE s \in Good
    OBVIOUS
  <2>1. s # {}
    <3>1. Cardinality({}) = 0 /\ n + 1 # 0
      BY FS_EmptySet
    <3> QED BY <3>1
  <2>2. ASSUME NEW x \in s PROVE s \ {x} \in Good
    <3>1. Cardinality(s \ {x}) = n
      BY <1>1, FS_RemoveElement
    <3> QED BY <3>1, <1>3
  <2> QED BY <2>1, <2>2
<1>4. \A n \in Nat : n \in N
  <2> HIDE DEF N
  <2> QED BY <1>2, <1>3, NumberInduction
<1> QED BY <1>1, <1>4

-----------------------------------------------------------------------------
(***************************************************************************)
(* Recursion over the subsets of a finite set, as MapThenFoldSet does it:  *)
(* pick an element of the set and apply step to the result of the rest.    *)
(***************************************************************************)
FoldsTo(it, S, base, pick, step) ==
  it = [s \in SUBSET S |-> IF s = {} THEN base ELSE step[<<it[s \ {pick[s]}], pick[s]>>]]

Picks(pick, S) == \A s \in SUBSET S : s # {} => pick[s] \in s

\* A function that satisfies the equation has its values where step has them.
LEMMA FoldType ==
  ASSUME NEW S, IsFiniteSet(S), NEW V, NEW base \in V, NEW step \in [V \X S -> V],
         NEW pick, Picks(pick, S), NEW it, FoldsTo(it, S, base, pick, step)
  PROVE  it \in [SUBSET S -> V]
<1> DEFINE Good == {s \in SUBSET S : it[s] \in V}
<1>1. {} \in Good
  BY DEF FoldsTo
<1>2. ASSUME NEW s \in SUBSET S, s # {}, \A x \in s : s \ {x} \in Good PROVE s \in Good
  <2>1. pick[s] \in s /\ pick[s] \in S
    BY <1>2 DEF Picks
  <2>2. it[s \ {pick[s]}] \in V
    BY <1>2, <2>1
  <2>3. it[s] = step[<<it[s \ {pick[s]}], pick[s]>>]
    BY <1>2 DEF FoldsTo
  <2> QED BY <2>1, <2>2, <2>3
<1>3. \A s \in SUBSET S : s \in Good
  <2> HIDE DEF Good
  <2> QED BY <1>1, <1>2, SubsetInduction
<1>4. it = [s \in SUBSET S |-> it[s]]
  BY DEF FoldsTo
<1> QED BY <1>3, <1>4

\* No two functions satisfy the equation.
LEMMA FoldUnique ==
  ASSUME NEW S, IsFiniteSet(S), NEW base, NEW step, NEW pick, Picks(pick, S),
         NEW it, FoldsTo(it, S, base, pick, step),
         NEW ti, FoldsTo(ti, S, base, pick, step)
  PROVE  it = ti
<1> DEFINE Good == {s \in SUBSET S : it[s] = ti[s]}
<1>1. {} \in Good
  BY DEF FoldsTo
<1>2. ASSUME NEW s \in SUBSET S, s # {}, \A x \in s : s \ {x} \in Good PROVE s \in Good
  <2>1. it[s \ {pick[s]}] = ti[s \ {pick[s]}]
    BY <1>2 DEF Picks
  <2>2. it[s] = step[<<it[s \ {pick[s]}], pick[s]>>]
    BY <1>2 DEF FoldsTo
  <2>3. ti[s] = step[<<ti[s \ {pick[s]}], pick[s]>>]
    BY <1>2 DEF FoldsTo
  <2> QED BY <2>1, <2>2, <2>3
<1>3. \A s \in SUBSET S : s \in Good
  <2> HIDE DEF Good
  <2> QED BY <1>1, <1>2, SubsetInduction
<1>4. it = [s \in SUBSET S |-> it[s]] /\ ti = [s \in SUBSET S |-> ti[s]]
  BY DEF FoldsTo
<1> QED BY <1>3, <1>4

\* Some function satisfies the equation.  It is built up from the smaller sets
\* to the larger ones.
LEMMA FoldExists ==
  ASSUME NEW S, IsFiniteSet(S), NEW V, NEW base \in V, NEW step \in [V \X S -> V],
         NEW pick, Picks(pick, S)
  PROVE  \E it : FoldsTo(it, S, base, pick, step)
<1> DEFINE UpTo(n) == {s \in SUBSET S : Cardinality(s) <= n}
           Next(it, s) == step[<<it[s \ {pick[s]}], pick[s]>>]
           Fits(it, n) == \A s \in UpTo(n) : it[s] = IF s = {} THEN base ELSE Next(it, s)
           N == {n \in Nat : \E it \in [UpTo(n) -> V] : Fits(it, n)}
<1>1. \A s \in SUBSET S : IsFiniteSet(s) /\ Cardinality(s) \in Nat
  BY FS_Subset, FS_CardinalityType
<1>2. \A s \in SUBSET S : s # {} =>
        pick[s] \in S /\ s \ {pick[s]} \in SUBSET S /\ Cardinality(s \ {pick[s]}) = Cardinality(s) - 1
  BY <1>1, FS_RemoveElement DEF Picks
<1>3. 0 \in N
  <2> DEFINE z == [s \in UpTo(0) |-> base]
  <2>1. z \in [UpTo(0) -> V]
    OBVIOUS
  <2>2. ASSUME NEW s \in UpTo(0) PROVE s = {}
    <3>1. Cardinality(s) = 0
      BY <1>1
    <3> QED BY <3>1, <1>1, FS_EmptySet
  <2>3. Fits(z, 0)
    BY <2>2
  <2> QED BY <2>1, <2>3
<1>4. ASSUME NEW n \in Nat, n \in N PROVE n + 1 \in N
  <2>1. PICK it \in [UpTo(n) -> V] : Fits(it, n)
    BY <1>4
  <2> DEFINE more == [s \in UpTo(n + 1) |-> IF s \in UpTo(n) THEN it[s] ELSE Next(it, s)]
  <2>2. \A s \in UpTo(n + 1) : s # {} => pick[s] \in S /\ s \ {pick[s]} \in UpTo(n)
    BY <1>1, <1>2
  <2>3. {} \in UpTo(n) /\ UpTo(n) \subseteq UpTo(n + 1)
    BY <1>1, FS_EmptySet
  <2>4. more \in [UpTo(n + 1) -> V]
    <3>1. \A s \in UpTo(n + 1) : s \notin UpTo(n) => Next(it, s) \in V
      BY <2>2, <2>3
    <3> HIDE DEF Next, UpTo
    <3> QED BY <3>1
  <2>5. \A s \in UpTo(n + 1) : s # {} => Next(more, s) = Next(it, s)
    BY <2>2, <2>3
  <2>6. Fits(more, n + 1)
    <3> SUFFICES ASSUME NEW s \in UpTo(n + 1)
                 PROVE more[s] = IF s = {} THEN base ELSE Next(more, s)
      OBVIOUS
    <3>1. more[s] = IF s \in UpTo(n) THEN it[s] ELSE Next(it, s)
      OBVIOUS
    <3>2. s \in UpTo(n) => it[s] = IF s = {} THEN base ELSE Next(it, s)
      BY <2>1
    <3> HIDE DEF more, UpTo, Next
    <3> QED BY <3>1, <3>2, <2>3, <2>5
  <2> HIDE DEF more, UpTo, Fits
  <2> QED BY <2>4, <2>6
<1>5. \A n \in Nat : n \in N
  <2> HIDE DEF N
  <2> QED BY <1>3, <1>4, NumberInduction
<1>6. PICK it \in [UpTo(Cardinality(S)) -> V] : Fits(it, Cardinality(S))
  <2>1. Cardinality(S) \in N
    BY <1>1, <1>5
  <2> HIDE DEF UpTo, Fits
  <2> QED BY <2>1
<1>7. UpTo(Cardinality(S)) = SUBSET S
  BY FS_Subset
<1>8. it = [s \in SUBSET S |-> it[s]]
  BY <1>6, <1>7
<1>9. \A s \in SUBSET S : it[s] = IF s = {} THEN base ELSE Next(it, s)
  BY <1>6, <1>7
<1> QED BY <1>8, <1>9 DEF FoldsTo

\* What a sum over a set is when its elements are picked one by one, and when
\* any of them may come last.
PickedSum(sum, S, f, pick) ==
  /\ sum[{}] = 0
  /\ \A s \in SUBSET S : s # {} => sum[s] = f[pick[s]] + sum[s \ {pick[s]}]

AnySum(sum, S, f) ==
  /\ sum[{}] = 0
  /\ \A s \in SUBSET S : sum[s] \in Int /\ \A x \in s : sum[s] = sum[s \ {x}] + f[x]

\* A sum over a finite set does not depend on the order of its elements.
LEMMA SumInAnyOrder ==
  ASSUME NEW S, IsFiniteSet(S), NEW f \in [S -> Int], NEW pick, Picks(pick, S),
         NEW sum, PickedSum(sum, S, f, pick)
  PROVE  AnySum(sum, S, f)
<1> DEFINE Numbers == {s \in SUBSET S : sum[s] \in Int}
           Good == {s \in SUBSET S : \A x \in s : sum[s] = sum[s \ {x}] + f[x]}
<1>1. ASSUME NEW s \in SUBSET S, s # {}
      PROVE  pick[s] \in s /\ f[pick[s]] \in Int /\ sum[s] = f[pick[s]] + sum[s \ {pick[s]}]
  BY <1>1 DEF Picks, PickedSum
<1>2. \A s \in SUBSET S : s \in Numbers
  <2>1. {} \in Numbers
    BY DEF PickedSum
  <2>2. ASSUME NEW s \in SUBSET S, s # {}, \A x \in s : s \ {x} \in Numbers PROVE s \in Numbers
    <3>1. pick[s] \in s /\ f[pick[s]] \in Int /\ sum[s] = f[pick[s]] + sum[s \ {pick[s]}]
      BY <1>1, <2>2
    <3>2. sum[s \ {pick[s]}] \in Int
      BY <2>2, <3>1
    <3>3. sum[s] \in Int
      BY <3>1, <3>2
    <3> QED BY <3>3
  <2> HIDE DEF Numbers
  <2> QED BY <2>1, <2>2, SubsetInduction
<1>3. {} \in Good
  OBVIOUS
<1>4. ASSUME NEW s \in SUBSET S, s # {}, \A x \in s : s \ {x} \in Good PROVE s \in Good
  <2> SUFFICES ASSUME NEW x \in s PROVE sum[s] = sum[s \ {x}] + f[x]
    OBVIOUS
  <2> DEFINE y == pick[s]
             rest == sum[(s \ {x}) \ {y}]
  <2>1. y \in s /\ sum[s] = f[y] + sum[s \ {y}]
    BY <1>1, <1>4
  <2>2. f[x] \in Int /\ f[y] \in Int /\ sum[s \ {x}] \in Int /\ sum[s \ {y}] \in Int /\ rest \in Int
    <3>1. (s \ {x}) \ {y} \in SUBSET S
      OBVIOUS
    <3> HIDE DEF y
    <3> QED BY <1>2, <2>1, <3>1
  <2> HIDE DEF y
  <2>3. CASE x = y
    BY <2>1, <2>2, <2>3
  <2>4. CASE x # y
    <3>1. sum[s \ {y}] = sum[(s \ {y}) \ {x}] + f[x]
      BY <1>4, <2>1, <2>4
    <3>2. sum[s \ {x}] = rest + f[y]
      BY <1>4, <2>1, <2>4
    <3>3. (s \ {y}) \ {x} = (s \ {x}) \ {y}
      OBVIOUS
    <3>4. sum[s \ {y}] = rest + f[x]
      BY <3>1, <3>3
    <3> HIDE DEF rest
    <3> QED BY <2>1, <2>2, <3>2, <3>4
  <2> QED BY <2>3, <2>4
<1>5. \A s \in SUBSET S : s \in Good
  <2> HIDE DEF Good
  <2> QED BY <1>3, <1>4, SubsetInduction
<1> QED BY <1>2, <1>5 DEF AnySum, PickedSum

-----------------------------------------------------------------------------
(***************************************************************************)
(* FoldLeft removes the greatest index first.  What it has after the first *)
(* k elements of a sequence is the value at 1..k.                          *)
(***************************************************************************)
Greatest(n) == [s \in SUBSET (1..n) |-> Max(s)]

\* The greatest element of a set of indices is one of them.
LEMMA GreatestIsIn ==
  ASSUME NEW n \in Nat, NEW s \in SUBSET (1..n), s # {}
  PROVE  Max(s) \in s
<1>1. s \in SUBSET (0..n)
  OBVIOUS
<1> QED BY <1>1, MaxIsGreatest

\* The greatest index of each set is an element to pick.
LEMMA GreatestPicks ==
  ASSUME NEW n \in Nat
  PROVE  Picks(Greatest(n), 1..n) /\ IsFiniteSet(1..n)
<1>1. \A s \in SUBSET (1..n) : s # {} => Max(s) \in s
  BY GreatestIsIn
<1> QED BY <1>1, FS_Interval DEF Picks, Greatest

\* The greatest element of 1..k is k, and without it 1..k-1 is left.
LEMMA GreatestOfPrefix ==
  ASSUME NEW n \in Nat, NEW k \in 1..n
  PROVE  Max(1..k) = k /\ (1..k) \ {k} = 1..(k - 1) /\ 1..k \in SUBSET (1..n) /\ 1..k # {}
<1>1. 1..k \in SUBSET (0..n) /\ 1..k # {}
  OBVIOUS
<1>2. Max(1..k) \in 1..k /\ \A j \in 1..k : j <= Max(1..k)
  BY <1>1, MaxIsGreatest
<1>3. Max(1..k) = k
  BY <1>2
<1> QED BY <1>1, <1>3

\* A step of FoldLeft on the first n elements of a sequence, and the values it
\* has in V as long as it stays there.
Rest(s) == s \ {Max(s)}

Steps(it, n, V, base, step) ==
  /\ it[{}] = base
  /\ \A s \in SUBSET (1..n) :
       s # {} /\ it[Rest(s)] \in V => it[s] = step[<<it[Rest(s)], Max(s)>>]

Runs(acc, n, base, step, result) ==
  /\ acc[0] = base
  /\ \A k \in 1..n : acc[k] = step[<<acc[k - 1], k>>]
  /\ acc[n] = result

\* Some function makes the steps of a fold.
LEMMA StepsExist ==
  ASSUME NEW n \in Nat, NEW V, NEW base \in V, NEW step \in [V \X (1..n) -> V]
  PROVE  \E it \in [SUBSET (1..n) -> V] : Steps(it, n, V, base, step)
<1>1. Picks(Greatest(n), 1..n) /\ IsFiniteSet(1..n)
  BY GreatestPicks
<1>2. PICK it : FoldsTo(it, 1..n, base, Greatest(n), step)
  BY <1>1, FoldExists
<1>3. it \in [SUBSET (1..n) -> V]
  BY <1>1, <1>2, FoldType
<1>4. \A s \in SUBSET (1..n) : Greatest(n)[s] = Max(s)
  BY DEF Greatest
<1>5. it[{}] = base
  BY <1>2 DEF FoldsTo
<1>6. \A s \in SUBSET (1..n) : s # {} => it[s] = step[<<it[Rest(s)], Max(s)>>]
  BY <1>2, <1>4 DEF FoldsTo, Rest
<1> QED BY <1>3, <1>5, <1>6 DEF Steps

\* What makes the steps of a fold has its values in V, and what it has after
\* each prefix of the sequence comes from what it had one element before.
LEMMA StepByStep ==
  ASSUME NEW n \in Nat, NEW V, NEW base \in V, NEW step \in [V \X (1..n) -> V],
         NEW it, Steps(it, n, V, base, step)
  PROVE  \E acc \in [0..n -> V] : Runs(acc, n, base, step, it[1..n])
<1> DEFINE Good == {s \in SUBSET (1..n) : it[s] \in V}
           acc == [k \in 0..n |-> it[1..k]]
<1>1. \A s \in SUBSET (1..n) : s # {} => Max(s) \in s
  BY GreatestIsIn
<1>2. \A s \in SUBSET (1..n) : s \in Good
  <2>1. {} \in Good
    BY DEF Steps
  <2>2. ASSUME NEW s \in SUBSET (1..n), s # {}, \A x \in s : s \ {x} \in Good PROVE s \in Good
    <3>1. Max(s) \in s /\ Max(s) \in 1..n
      BY <1>1, <2>2
    <3>2. it[Rest(s)] \in V
      BY <2>2, <3>1 DEF Rest
    <3>3. it[s] = step[<<it[Rest(s)], Max(s)>>]
      BY <2>2, <3>2 DEF Steps
    <3> QED BY <3>1, <3>2, <3>3
  <2> HIDE DEF Good
  <2> QED BY <2>1, <2>2, SubsetInduction, GreatestPicks
<1>3. \A k \in 0..n : 1..k \in SUBSET (1..n)
  OBVIOUS
<1>4. acc \in [0..n -> V]
  BY <1>2, <1>3
<1>5. acc[0] = base
  <2>1. 1..0 = {} /\ 0 \in 0..n
    OBVIOUS
  <2> QED BY <2>1 DEF Steps
<1>6. ASSUME NEW k \in 1..n PROVE acc[k] = step[<<acc[k - 1], k>>]
  <2>1. Max(1..k) = k /\ (1..k) \ {k} = 1..(k - 1) /\ 1..k \in SUBSET (1..n) /\ 1..k # {}
    BY GreatestOfPrefix
  <2>2. Rest(1..k) = 1..(k - 1)
    BY <2>1 DEF Rest
  <2>3. k \in 0..n /\ k - 1 \in 0..n
    OBVIOUS
  <2>4. it[1..(k - 1)] \in V
    BY <1>2, <1>3, <2>3
  <2>5. it[1..k] = step[<<it[1..(k - 1)], k>>]
    BY <2>1, <2>2, <2>4 DEF Steps
  <2> QED BY <2>3, <2>5
<1>7. acc[n] = it[1..n]
  OBVIOUS
<1> HIDE DEF acc
<1> QED BY <1>4, <1>5, <1>6, <1>7 DEF Runs

=============================================================================
