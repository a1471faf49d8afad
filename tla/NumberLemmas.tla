------------------------------ MODULE NumberLemmas ------------------------------
(***************************************************************************)
(* Least, largest and k-th elements of sets of numbers, and what is        *)
(* selected from a list at the positions of a set.                         *)
(***************************************************************************)
EXTENDS Integers, Sequences, Selection, FiniteSetTheorems, WellFoundedInduction, TLAPS

\* A non-empty set of numbers has a least one.
LEMMA LeastExists ==
    ASSUME NEW S \in SUBSET Nat, S # {}
    PROVE  \E x \in S : \A y \in S : x <= y
  <1>1. PICK x \in S : \A y \in S : ~(<<y, x>> \in OpToRel(<, Nat))
    BY NatLessThanWellFounded, WFMin, Zenon
  <1>2. \A y \in S : y \in Nat
    OBVIOUS
  <1>3. \A y \in S : ~(y < x)
    BY <1>1, <1>2 DEF OpToRel
  <1>4. \A y \in S : x <= y
    BY <1>2, <1>3
  <1> QED
    BY <1>4

\* A set of numbers up to N has a largest one.
LEMMA LargestExists ==
    ASSUME NEW N \in Nat, NEW S \in SUBSET (1 .. N), S # {}
    PROVE  \E x \in S : \A y \in S : x >= y
  <1> DEFINE T == {N - x : x \in S}
  <1>1. T \subseteq Nat /\ T # {}
    <2>1. ASSUME NEW x \in S
          PROVE  N - x \in Nat
      OBVIOUS
    <2>2. PICK x \in S : TRUE
      OBVIOUS
    <2>3. N - x \in T
      OBVIOUS
    <2> QED
      BY <2>1, <2>3
  <1>2. PICK t \in T : \A u \in T : ~(<<u, t>> \in OpToRel(<, Nat))
    BY <1>1, NatLessThanWellFounded, WFMin, Zenon
  <1>3. \A u \in T : ~(u < t)
    BY <1>1, <1>2 DEF OpToRel
  <1>4. PICK x \in S : t = N - x
    OBVIOUS
  <1>5. \A y \in S : ~(N - y < N - x)
    BY <1>3, <1>4
  <1> QED
    BY <1>5

-----------------------------------------------------------------------------
(* The numbers of a set, in their order *)

UpTo(S, n) == {j \in S : j <= n}

\* The k-th number of a set is there, and k numbers of the set are up to it.
LEMMA NthIs ==
    ASSUME NEW m \in Nat, NEW S \in SUBSET (1 .. m), NEW k \in 1 .. Cardinality(S)
    PROVE  Nth(S, k) \in S /\ Cardinality(UpTo(S, Nth(S, k))) = k
  <1>1. IsFiniteSet(S) /\ Cardinality(S) \in Nat
    <2>1. IsFiniteSet(1 .. m)
      BY FS_Interval
    <2> QED
      BY <2>1, FS_Subset, FS_CardinalityType
  <1>12. \A j \in S : j \in Nat /\ 1 <= j /\ j <= m
    OBVIOUS
  <1>2. ASSUME NEW n \in Nat
        PROVE  IsFiniteSet(UpTo(S, n)) /\ Cardinality(UpTo(S, n)) \in Nat
    <2>1. UpTo(S, n) \subseteq S
      BY DEF UpTo
    <2> QED
      BY <1>1, <2>1, FS_Subset, FS_CardinalityType
  <1> DEFINE T == {n \in Nat : Cardinality(UpTo(S, n)) >= k}
  <1>3. m \in T
    <2>1. UpTo(S, m) = S
      BY <1>12 DEF UpTo
    <2> QED
      BY <1>1, <2>1
  <1>4. PICK n \in T : \A y \in T : n <= y
    <2>1. T \subseteq Nat /\ T # {}
      BY <1>3
    <2> HIDE DEF T
    <2> QED
      BY <2>1, LeastExists
  <1>5. n # 0
    <2>1. UpTo(S, 0) = {}
      <3>1. \A j \in S : ~(j <= 0)
        BY <1>12
      <3>2. \A j : j \notin UpTo(S, 0)
        BY <3>1 DEF UpTo
      <3> QED
        BY <3>2
    <2>2. Cardinality(UpTo(S, 0)) = 0
      BY <2>1, FS_EmptySet
    <2> QED
      BY <2>2
  <1>6. n - 1 \in Nat /\ Cardinality(UpTo(S, n - 1)) < k
    <2>1. n - 1 \in Nat /\ n - 1 \notin T
      BY <1>4, <1>5
    <2> QED
      BY <1>2, <2>1
  <1>7. n \in S
    <2>1. ASSUME n \notin S
          PROVE  UpTo(S, n) = UpTo(S, n - 1)
      <3>1. \A j \in S : j <= n <=> j <= n - 1
        BY <1>12, <1>6, <2>1
      <3> QED
        BY <3>1 DEF UpTo
    <2> QED
      BY <1>2, <1>6, <2>1
  <1>8. UpTo(S, n) = UpTo(S, n - 1) \cup {n} /\ n \notin UpTo(S, n - 1)
    <2>1. \A j \in S : j <= n <=> j <= n - 1 \/ j = n
      BY <1>12, <1>6
    <2>2. n \in Nat /\ ~(n <= n - 1)
      BY <1>6
    <2> QED
      BY <1>7, <2>1, <2>2 DEF UpTo
  <1>9. Cardinality(UpTo(S, n)) = Cardinality(UpTo(S, n - 1)) + 1
    BY <1>2, <1>6, <1>8, FS_AddElement
  <1>10. Cardinality(UpTo(S, n)) = k
    BY <1>2, <1>6, <1>9
  <1> QED
    BY <1>7, <1>10 DEF Nth, UpTo

\* So the numbers of a set are listed in their order, each of them once.
LEMMA NthLists ==
    ASSUME NEW m \in Nat, NEW S \in SUBSET (1 .. m)
    PROVE  /\ Cardinality(S) \in Nat
           /\ \A i \in S : \E k \in 1 .. Cardinality(S) : Nth(S, k) = i
           /\ \A k \in 1 .. Cardinality(S) : \A h \in 1 .. Cardinality(S) :
                k < h => Nth(S, k) < Nth(S, h)
  <1>1. IsFiniteSet(S) /\ Cardinality(S) \in Nat
    <2>1. IsFiniteSet(1 .. m)
      BY FS_Interval
    <2> QED
      BY <2>1, FS_Subset, FS_CardinalityType
  <1>12. \A j \in S : j \in Nat /\ 1 <= j /\ j <= m
    OBVIOUS
  <1>2. ASSUME NEW i \in S
        PROVE  /\ IsFiniteSet(UpTo(S, i)) /\ Cardinality(UpTo(S, i)) \in 1 .. Cardinality(S)
    <2>1. UpTo(S, i) \subseteq S /\ i \in UpTo(S, i)
      BY <1>12 DEF UpTo
    <2>2. IsFiniteSet(UpTo(S, i)) /\ Cardinality(UpTo(S, i)) <= Cardinality(S)
      BY <1>1, <2>1, FS_Subset
    <2>3. Cardinality(UpTo(S, i)) \in Nat /\ Cardinality(UpTo(S, i)) # 0
      BY <2>1, <2>2, FS_CardinalityType, FS_EmptySet
    <2> QED
      BY <1>1, <2>2, <2>3
  <1>3. ASSUME NEW i \in S, NEW j \in S, i < j
        PROVE  Cardinality(UpTo(S, i)) < Cardinality(UpTo(S, j))
    <2>4. i \in Nat /\ j \in Nat /\ i < j
      BY <1>12, <1>3
    <2>5. \A h \in S : h <= i => h <= j
      BY <1>12, <2>4
    <2>6. j <= j /\ ~(j <= i)
      BY <2>4
    <2>1. UpTo(S, i) \subseteq UpTo(S, j) /\ j \notin UpTo(S, i) /\ j \in UpTo(S, j)
      BY <2>5, <2>6 DEF UpTo
    <2>2. Cardinality(UpTo(S, i)) <= Cardinality(UpTo(S, j))
          /\ Cardinality(UpTo(S, i)) # Cardinality(UpTo(S, j))
      BY <1>2, <2>1, FS_Subset
    <2> QED
      BY <1>2, <2>2
  <1>4. ASSUME NEW i \in S
        PROVE  \E k \in 1 .. Cardinality(S) : Nth(S, k) = i
    <2> DEFINE k == Cardinality(UpTo(S, i))
    <2>1. k \in 1 .. Cardinality(S)
      BY <1>2
    <2>2. Nth(S, k) \in S /\ Cardinality(UpTo(S, Nth(S, k))) = k
      BY <2>1, NthIs
    <2> HIDE DEF k
    <2>3. ~(Nth(S, k) < i) /\ ~(i < Nth(S, k))
      <3>1. k \in Nat /\ ~(k < k)
        BY <1>1, <2>1
      <3>2. k = Cardinality(UpTo(S, i))
        BY DEF k
      <3> QED
        BY <1>3, <2>2, <3>1, <3>2
    <2>4. Nth(S, k) = i
      <3>1. Nth(S, k) \in Nat /\ i \in Nat
        BY <1>12, <2>2
      <3> QED
        BY <2>3, <3>1
    <2> QED
      BY <2>1, <2>4
  <1>5. ASSUME NEW k \in 1 .. Cardinality(S), NEW h \in 1 .. Cardinality(S), k < h
        PROVE  Nth(S, k) < Nth(S, h)
    <2>1. /\ Nth(S, k) \in S /\ Cardinality(UpTo(S, Nth(S, k))) = k
          /\ Nth(S, h) \in S /\ Cardinality(UpTo(S, Nth(S, h))) = h
      BY NthIs
    <2>2. k \in Nat /\ h \in Nat /\ k # h /\ ~(h < k)
      BY <1>1, <1>5
    <2>3. Nth(S, k) # Nth(S, h) /\ ~(Nth(S, h) < Nth(S, k))
      BY <1>3, <2>1, <2>2
    <2>4. Nth(S, k) \in Nat /\ Nth(S, h) \in Nat
      BY <1>12, <2>1
    <2> QED
      BY <2>3, <2>4
  <1> QED
    BY <1>1, <1>4, <1>5

\* The k-th of consecutive numbers.
LEMMA NthOfInterval ==
    ASSUME NEW m \in Nat, NEW p \in 0 .. m
    PROVE  /\ Cardinality(p + 1 .. m) = m - p
           /\ \A k \in 1 .. m - p : Nth(p + 1 .. m, k) = p + k
  <1> DEFINE S == p + 1 .. m
  <1>1. S \in SUBSET (1 .. m) /\ \A j \in S : j \in Nat /\ p < j /\ j <= m
    OBVIOUS
  <1>2. ASSUME NEW n \in p .. m
        PROVE  Cardinality(p + 1 .. n) = n - p
    <2>1. p + 1 \in Int /\ n \in Int
      OBVIOUS
    <2>2. Cardinality(p + 1 .. n) = IF p + 1 > n THEN 0 ELSE n - (p + 1) + 1
      BY <2>1, FS_Interval
    <2> QED
      BY <2>2
  <1>3. Cardinality(S) = m - p
    BY <1>2
  <1>4. ASSUME NEW k \in 1 .. m - p
        PROVE  Nth(S, k) = p + k
    <2>1. Nth(S, k) \in S /\ Cardinality(UpTo(S, Nth(S, k))) = k
      BY <1>1, <1>3, <1>4, NthIs
    <2>2. UpTo(S, Nth(S, k)) = p + 1 .. Nth(S, k)
      <3>1. Nth(S, k) \in Nat /\ p < Nth(S, k) /\ Nth(S, k) <= m
        BY <1>1, <2>1
      <3>2. PICK n \in Nat : n = Nth(S, k)
        BY <3>1
      <3>3. UpTo(S, n) = p + 1 .. n
        BY <3>1, <3>2 DEF UpTo
      <3> QED
        BY <3>2, <3>3
    <2>3. Cardinality(p + 1 .. Nth(S, k)) = Nth(S, k) - p
      BY <1>2, <2>1
    <2>4. Nth(S, k) \in Nat /\ Nth(S, k) - p = k
      BY <1>1, <2>1, <2>2, <2>3
    <2> QED
      BY <2>4
  <1> QED
    BY <1>3, <1>4

\* What is selected from a list: its elements at the positions of a set, each
\* position once.
LEMMA SelectedIs ==
    ASSUME NEW T, NEW q \in Seq(T), NEW S \in SUBSET (1 .. Len(q))
    PROVE  /\ Selected(q, S) \in Seq(T)
           /\ DOMAIN Selected(q, S) = 1 .. Cardinality(S) /\ Cardinality(S) \in Nat
           /\ \A k \in 1 .. Cardinality(S) : Nth(S, k) \in S /\ Selected(q, S)[k] = q[Nth(S, k)]
           /\ \A i \in S : \E k \in 1 .. Cardinality(S) : Selected(q, S)[k] = q[i]
           /\ \A k, h \in 1 .. Cardinality(S) : Nth(S, k) = Nth(S, h) => k = h
  <1>1. Len(q) \in Nat /\ \A i \in S : i \in Nat /\ i \in 1 .. Len(q)
    OBVIOUS
  <1>2. /\ Cardinality(S) \in Nat
        /\ \A i \in S : \E k \in 1 .. Cardinality(S) : Nth(S, k) = i
        /\ \A k \in 1 .. Cardinality(S) : Nth(S, k) \in S
        /\ \A k \in 1 .. Cardinality(S) : \A h \in 1 .. Cardinality(S) :
             k < h => Nth(S, k) < Nth(S, h)
    BY <1>1, NthIs, NthLists
  <1> DEFINE s == Selected(q, S)
  <1>3. s = [k \in 1 .. Cardinality(S) |-> q[Nth(S, k)]]
    BY DEF Selected
  <1>9. \A i \in S : q[i] \in T
    BY <1>1
  <1>4. \A k \in 1 .. Cardinality(S) : q[Nth(S, k)] \in T
    BY <1>2, <1>9
  <1>5. DOMAIN s = 1 .. Cardinality(S) /\ \A k \in 1 .. Cardinality(S) : s[k] = q[Nth(S, k)]
    BY <1>3
  <1>6. s \in Seq(T)
    BY <1>2, <1>3, <1>4
  <1>7. ASSUME NEW k \in 1 .. Cardinality(S), NEW h \in 1 .. Cardinality(S), Nth(S, k) = Nth(S, h)
        PROVE  k = h
    <2>3. Nth(S, k) \in S
      BY <1>2
    <2>4. Nth(S, k) \in Nat
      BY <1>1, <2>3, Zenon
    <2>5. k \in Nat /\ h \in Nat
      BY <1>2
    <2>1. Nth(S, k) \in Nat /\ k \in Nat /\ h \in Nat
      BY <2>4, <2>5
    <2>2. ~(k < h) /\ ~(h < k)
      BY <1>2, <1>7, <2>1
    <2> QED
      BY <2>1, <2>2
  <1> HIDE DEF s
  <1>8. \A i \in S : \E k \in 1 .. Cardinality(S) : s[k] = q[i]
    BY <1>2, <1>5
  <1> QED
    BY <1>2, <1>5, <1>6, <1>7, <1>8 DEF s


-----------------------------------------------------------------------------
(* A function that computes its values from the one before *)

Iterates(f, V, start, step, N) ==
    /\ f \in [0 .. N -> V] /\ f[0] = start
    /\ \A n \in 1 .. N : f[n] = step[f[n - 1]]

LEMMA Iterated ==
    ASSUME NEW V, NEW start \in V, NEW step \in [V -> V], NEW N \in Nat
    PROVE  \E f : Iterates(f, V, start, step, N)
  <1> DEFINE Runs(f, n) == /\ f \in [0 .. n -> V] /\ f[0] = start
                           /\ \A i \in 1 .. n : f[i] = step[f[i - 1]]
             Fails == {n \in Nat : ~ \E f : Runs(f, n)}
  <1>1. \E f : Runs(f, 0)
    <2>1. 0 .. 0 = {0} /\ 1 .. 0 = {}
      OBVIOUS
    <2>2. Runs([n \in 0 .. 0 |-> start], 0)
      BY <2>1
    <2> QED
      BY <2>2
  <1>2. ASSUME NEW n \in Nat \ {0}, NEW f, Runs(f, n - 1)
        PROVE  \E g : Runs(g, n)
    <2> DEFINE g == [i \in 0 .. n |-> IF i = n THEN step[f[n - 1]] ELSE f[i]]
    <2>1. n - 1 \in 0 .. n - 1 /\ \A i \in 0 .. n : i # n => i \in 0 .. n - 1
      OBVIOUS
    <2>2. f \in [0 .. n - 1 -> V] /\ f[0] = start /\ \A i \in 1 .. n - 1 : f[i] = step[f[i - 1]]
      BY <1>2
    <2>3. \A i \in 0 .. n : g[i] = IF i = n THEN step[f[n - 1]] ELSE f[i]
      OBVIOUS
    <2>4. g \in [0 .. n -> V]
      <3>1. \A i \in 0 .. n : (IF i = n THEN step[f[n - 1]] ELSE f[i]) \in V
        BY <2>1, <2>2
      <3> QED
        BY <3>1
    <2> HIDE DEF g
    <2>5. g[0] = start
      BY <2>2, <2>3
    <2>6. ASSUME NEW i \in 1 .. n
          PROVE  g[i] = step[g[i - 1]]
      <3>1. i - 1 \in 0 .. n /\ i - 1 # n /\ i \in 0 .. n
        OBVIOUS
      <3>2. g[i - 1] = f[i - 1]
        BY <2>3, <3>1
      <3>3. CASE i = n
        BY <2>3, <3>1, <3>2, <3>3
      <3>4. CASE i # n
        <4>1. i \in 1 .. n - 1
          BY <3>4
        <4> QED
          BY <2>2, <2>3, <3>1, <3>2, <3>4, <4>1
      <3> QED
        BY <3>3, <3>4
    <2>7. Runs(g, n)
      BY <2>4, <2>5, <2>6
    <2> QED
      BY <2>7
  <1>3. \E f : Runs(f, N)
    <2> SUFFICES ASSUME ~ \E f : Runs(f, N)
                 PROVE  FALSE
      OBVIOUS
    <2>1. Fails # {} /\ Fails \in SUBSET Nat
      OBVIOUS
    <2>2. PICK n \in Fails : \A m \in Fails : n <= m
      BY <2>1, LeastExists
    <2>3. n # 0
      BY <1>1
    <2>4. n \in Nat \ {0} /\ n - 1 \in Nat /\ ~(n <= n - 1)
      BY <2>3
    <2>5. \E f : Runs(f, n - 1)
      BY <2>2, <2>4
    <2>6. ~ \E f : Runs(f, n)
      OBVIOUS
    <2> HIDE DEF Runs
    <2> QED
      BY <1>2, <2>4, <2>5, <2>6
  <1> QED
    BY <1>3 DEF Iterates

=============================================================================
