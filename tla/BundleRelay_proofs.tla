--------------------------- MODULE BundleRelay_proofs ---------------------------
(***************************************************************************)
(* Proofs about BundleRelay, for every set of daemons and bundles, every   *)
(* network between them, any number of faults and any time to live.        *)
(***************************************************************************)
EXTENDS BundleRelay, SequenceTheorems, FiniteSetTheorems, NumberLemmas, TLAPS

-----------------------------------------------------------------------------
(* Sequences *)

\* There are two copies of a bundle in a queue.
Two(q, b) == \E i, j \in DOMAIN q : i # j /\ q[i] = b /\ q[j] = b

\* No element is ahead of one that it does not go before.
Sorted(q) == \A i, j \in DOMAIN q : i < j => Before(q[i], q[j])

LEMMA InsertIs ==
    ASSUME NEW X, NEW q \in Seq(X), NEW b \in X, NEW k \in 0 .. Len(q)
    PROVE  LET s == InsertAt(q, k + 1, b)
           IN  /\ s \in Seq(X) /\ Len(s) = Len(q) + 1 /\ s[k + 1] = b
               /\ \A i \in 1 .. k : s[i] = q[i]
               /\ \A i \in k + 1 .. Len(q) : s[i + 1] = q[i]
  <1> DEFINE left == SubSeq(q, 1, k)
             right == SubSeq(q, k + 1, Len(q))
             s == InsertAt(q, k + 1, b)
  <1>1. Len(q) \in Nat /\ k \in Nat /\ k <= Len(q) /\ \A i \in 1 .. Len(q) : q[i] \in X
    BY ElementOfSeq
  <1>2. left \in Seq(X) /\ Len(left) = k /\ \A i \in 1 .. k : left[i] = q[i]
    <2>1. \A i \in 1 .. k : q[i] \in X
      BY <1>1
    <2>2. /\ left \in Seq(X) /\ Len(left) = IF 1 <= k THEN k - 1 + 1 ELSE 0
          /\ \A i \in 1 .. k - 1 + 1 : left[i] = q[1 + i - 1]
      BY <1>1, <2>1, SubSeqProperties
    <2> QED
      BY <1>1, <2>2
  <1>3. /\ right \in Seq(X) /\ Len(right) = Len(q) - k
        /\ \A i \in 1 .. Len(q) - k : right[i] = q[k + i]
    <2>1. \A i \in k + 1 .. Len(q) : q[i] \in X
      BY <1>1
    <2>2. /\ right \in Seq(X)
          /\ Len(right) = IF k + 1 <= Len(q) THEN Len(q) - (k + 1) + 1 ELSE 0
          /\ \A i \in 1 .. Len(q) - (k + 1) + 1 : right[i] = q[k + 1 + i - 1]
      BY <1>1, <2>1, SubSeqProperties
    <2> QED
      BY <1>1, <2>2
  <1>4. s = left \o <<b>> \o right
    <2>1. ASSUME NEW i, i = k + 1
          PROVE  InsertAt(q, i, b) = SubSeq(q, 1, k) \o <<b>> \o SubSeq(q, i, Len(q))
      <3>1. InsertAt(q, i, b) = SubSeq(q, 1, i - 1) \o <<b>> \o SubSeq(q, i, Len(q))
        BY DEF InsertAt
      <3>2. i - 1 = k
        BY <1>1, <2>1
      <3> QED
        BY <3>1, <3>2, Zenon
    <2> QED
      BY <2>1, Zenon
  <1> HIDE DEF left, right, s
  <1>5. s \in Seq(X) /\ Len(s) = Len(q) + 1
    BY <1>1, <1>2, <1>3, <1>4
  <1>6. s[k + 1] = b
    BY <1>1, <1>2, <1>3, <1>4
  <1>7. \A i \in 1 .. k : s[i] = q[i]
    BY <1>1, <1>2, <1>3, <1>4
  <1>8. ASSUME NEW i \in k + 1 .. Len(q)
        PROVE  s[i + 1] = q[i]
    <2>1. s[i + 1] = right[i - k] /\ i - k \in 1 .. Len(q) - k
      BY <1>1, <1>2, <1>3, <1>4
    <2> QED
      BY <1>1, <1>3, <2>1
  <1> QED
    BY <1>5, <1>6, <1>7, <1>8 DEF s

-----------------------------------------------------------------------------
(* The queue *)

\* Times are numbers.
Dated == now \in Nat /\ \A b \in Bundles : born[b] \in Nat \cup {Nobody}

\* The key of the queue is a total preorder.
LEMMA BeforeIs ==
    ASSUME Dated
    PROVE  /\ \A a \in Bundles, b \in Bundles : Before(a, b) \/ Before(b, a)
           /\ \A a \in Bundles, b \in Bundles, c \in Bundles :
                Before(a, b) /\ Before(b, c) => Before(a, c)
  <1>1. \A b \in Bundles : Created(b) \in Nat
    BY DEF Dated, Created
  <1>2. \A b \in Bundles : Priority(b) \in Nat
    BY DEF Priority
  <1> QED
    BY <1>1, <1>2 DEF Before

\* In a sorted queue the bundles that go before another are the first ones.
LEMMA FirstOnes ==
    ASSUME Dated, NEW q \in Seq(Bundles), Sorted(q), NEW b \in Bundles,
           NEW k, k = Cardinality({i \in DOMAIN q : Before(q[i], b)})
    PROVE  /\ k \in 0 .. Len(q)
           /\ \A i \in 1 .. k : Before(q[i], b)
           /\ \A i \in k + 1 .. Len(q) : ~Before(q[i], b)
  <1> DEFINE P == {i \in DOMAIN q : Before(q[i], b)}
  <1>1. Len(q) \in Nat /\ DOMAIN q = 1 .. Len(q) /\ \A i \in 1 .. Len(q) : q[i] \in Bundles
    BY ElementOfSeq, LenProperties
  <1>2. P \subseteq 1 .. Len(q)
    BY <1>1
  <1>3. \E p \in 0 .. Len(q) : P = 1 .. p
    <2>1. CASE P = {}
      <3>1. P = 1 .. 0 /\ 0 \in 0 .. Len(q)
        BY <1>1, <2>1
      <3> QED
        BY <3>1
    <2>2. CASE P # {}
      <3>1. PICK p \in P : \A j \in P : p >= j
        <4> HIDE DEF P
        <4> QED
          BY <1>1, <1>2, <2>2, LargestExists
      <3>2. p \in 1 .. Len(q) /\ Before(q[p], b)
        BY <1>1
      <3>3. ASSUME NEW i \in 1 .. p
            PROVE  i \in P
        <4>1. i \in 1 .. Len(q) /\ (i = p \/ i < p)
          BY <1>1, <3>2
        <4>2. i = p \/ Before(q[i], q[p])
          BY <1>1, <3>2, <4>1 DEF Sorted
        <4>3. Before(q[i], b)
          BY <1>1, <3>2, <4>1, <4>2, BeforeIs
        <4> QED
          BY <1>1, <4>1, <4>3
      <3>4. \A i \in P : i \in 1 .. p
        BY <1>2, <3>1
      <3>5. P = 1 .. p
        BY <3>3, <3>4
      <3> QED
        BY <3>2, <3>5
    <2> QED
      BY <2>1, <2>2
  <1>4. PICK p \in 0 .. Len(q) : P = 1 .. p
    BY <1>3
  <1>5. k = p
    <2>1. Cardinality(1 .. p) = p
      <3>1. 1 \in Int /\ p \in Int /\ (1 > p => p = 0) /\ p - 1 + 1 = p
        BY <1>1, <1>4
      <3>2. Cardinality(1 .. p) = IF 1 > p THEN 0 ELSE p - 1 + 1
        BY <3>1, FS_Interval
      <3> QED
        BY <3>1, <3>2
    <2> QED
      BY <1>4, <2>1
  <1>6. \A i \in 1 .. p : Before(q[i], b)
    BY <1>4
  <1>7. \A i \in p + 1 .. Len(q) : i \in DOMAIN q /\ i \notin 1 .. p
    BY <1>1, <1>4
  <1>8. \A i \in p + 1 .. Len(q) : ~Before(q[i], b)
    BY <1>4, <1>7
  <1> QED
    BY <1>4, <1>5, <1>6, <1>8

\* What push leaves in a queue: what was there and the bundle, in order, each
\* as often as before, the bundle once more.
Pushed(q, s, b) ==
    /\ s \in Seq(Bundles) /\ Sorted(s)
    /\ b \in ToSet(s)
    /\ \A c \in ToSet(q) : c \in ToSet(s)
    /\ \A c \in ToSet(s) : c = b \/ c \in ToSet(q)
    /\ \A c \in Bundles : Two(q, c) => Two(s, c)
    /\ b \in ToSet(q) => Two(s, b)

LEMMA PushIs ==
    ASSUME Dated, NEW q \in Seq(Bundles), Sorted(q), NEW b \in Bundles
    PROVE  Pushed(q, Push(q, b), b)
  <1> DEFINE k == Cardinality({i \in DOMAIN q : Before(q[i], b)})
             s == Push(q, b)
  <1>1. s = InsertAt(q, k + 1, b)
    BY DEF Push
  <1>2. /\ k \in 0 .. Len(q)
        /\ \A i \in 1 .. k : Before(q[i], b)
        /\ \A i \in k + 1 .. Len(q) : ~Before(q[i], b)
    BY FirstOnes
  <1> HIDE DEF k, s
  <1>3. /\ s \in Seq(Bundles) /\ Len(s) = Len(q) + 1 /\ s[k + 1] = b
        /\ \A i \in 1 .. k : s[i] = q[i]
        /\ \A i \in k + 1 .. Len(q) : s[i + 1] = q[i]
    BY <1>1, <1>2, InsertIs
  <1>4. /\ Len(q) \in Nat /\ k \in Nat /\ k <= Len(q)
        /\ DOMAIN q = 1 .. Len(q) /\ DOMAIN s = 1 .. Len(q) + 1
    BY <1>2, <1>3, LenProperties
  <1>5. \A i \in 1 .. Len(q) : q[i] \in Bundles
    BY ElementOfSeq
  <1> DEFINE At(i) == IF i <= k THEN i ELSE i + 1
  <1>6. \A i \in DOMAIN q : At(i) \in DOMAIN s /\ s[At(i)] = q[i]
    <2>1. ASSUME NEW i \in 1 .. k
          PROVE  i \in DOMAIN s /\ s[i] = q[i] /\ At(i) = i
      BY <1>3, <1>4
    <2>2. ASSUME NEW i \in k + 1 .. Len(q)
          PROVE  i + 1 \in DOMAIN s /\ s[i + 1] = q[i] /\ At(i) = i + 1
      BY <1>3, <1>4
    <2>3. \A i \in DOMAIN q : i \in 1 .. k \/ i \in k + 1 .. Len(q)
      BY <1>4
    <2> QED
      BY <2>1, <2>2, <2>3
  <1>7. ASSUME NEW i \in DOMAIN q, NEW j \in DOMAIN q
        PROVE  (i # j => At(i) # At(j)) /\ At(i) # k + 1
    BY <1>4
  <1>8. ASSUME NEW h \in DOMAIN s
        PROVE  h = k + 1 \/ \E i \in DOMAIN q : h = At(i)
    <2>1. CASE h <= k
      BY <1>4, <2>1
    <2>2. CASE h > k + 1
      <3>1. h - 1 \in DOMAIN q /\ h = At(h - 1)
        BY <1>4, <2>2
      <3> QED
        BY <3>1
    <2> QED
      BY <1>4, <2>1, <2>2
  <1>9. k + 1 \in DOMAIN s
    BY <1>4
  <1>10. Sorted(s)
    <2> SUFFICES ASSUME NEW g \in DOMAIN s, NEW h \in DOMAIN s, g < h
                 PROVE  Before(s[g], s[h])
      BY DEF Sorted
    <2>1. CASE g = k + 1
      <3>1. h - 1 \in k + 1 .. Len(q) /\ h - 1 + 1 = h
        BY <1>4, <2>1
      <3>2. s[h] = q[h - 1] /\ ~Before(q[h - 1], b) /\ q[h - 1] \in Bundles
        BY <1>2, <1>3, <1>4, <1>5, <3>1
      <3> QED
        BY <1>3, <2>1, <3>2, BeforeIs
    <2>2. CASE h = k + 1
      <3>1. g \in 1 .. k
        BY <1>4, <2>2
      <3> QED
        BY <1>2, <1>3, <2>2, <3>1
    <2>3. CASE g # k + 1 /\ h # k + 1
      <3>1. PICK i \in DOMAIN q : g = At(i)
        BY <1>8, <2>3
      <3>2. PICK j \in DOMAIN q : h = At(j)
        BY <1>8, <2>3
      <3>3. i < j
        BY <1>4, <3>1, <3>2
      <3>4. s[g] = q[i] /\ s[h] = q[j]
        BY <1>6, <3>1, <3>2
      <3> QED
        BY <3>3, <3>4 DEF Sorted
    <2> QED
      BY <2>1, <2>2, <2>3
  <1> HIDE DEF At
  <1>11. b \in ToSet(s)
    BY <1>3, <1>9 DEF ToSet
  <1>12. \A c \in ToSet(q) : c \in ToSet(s)
    BY <1>6 DEF ToSet
  <1>13. \A c \in ToSet(s) : c = b \/ c \in ToSet(q)
    BY <1>3, <1>6, <1>8 DEF ToSet
  <1>14. ASSUME NEW c \in Bundles, Two(q, c)
         PROVE  Two(s, c)
    BY <1>6, <1>7, <1>14 DEF Two
  <1>15. b \in ToSet(q) => Two(s, b)
    BY <1>3, <1>6, <1>7, <1>9 DEF Two, ToSet
  <1> QED
    BY <1>3, <1>10, <1>11, <1>12, <1>13, <1>14, <1>15 DEF Pushed, s

\* A queue that lost some of its bundles.
Cut(q, s) == s \in Seq(Bundles) /\ Sorted(s) /\ \A c \in ToSet(s) : c \in ToSet(q)

\* remove_expired takes nothing that has not expired.
LEMMA UnexpiredIs ==
    ASSUME NEW q \in Seq(Bundles), Sorted(q)
    PROVE  /\ Cut(q, Unexpired(q))
           /\ \A c \in ToSet(q) : ~Expired(c) => c \in ToSet(Unexpired(q))
           /\ \A c \in Bundles : Two(q, c) /\ ~Expired(c) => Two(Unexpired(q), c)
  <1> DEFINE kept == {i \in DOMAIN q : ~Expired(q[i])}
             u == Unexpired(q)
             n == Cardinality(kept)
  <1>1. Len(q) \in Nat /\ DOMAIN q = 1 .. Len(q) /\ \A i \in 1 .. Len(q) : q[i] \in Bundles
    BY ElementOfSeq, LenProperties
  <1>2. kept \in SUBSET (1 .. Len(q))
    BY <1>1
  <1>3. u = [k \in 1 .. n |-> q[Nth(kept, k)]]
    BY DEF Unexpired, Selected
  <1>4. \A i \in kept : i \in DOMAIN q /\ ~Expired(q[i])
    OBVIOUS
  <1>5. \A i \in DOMAIN q : ~Expired(q[i]) => i \in kept
    OBVIOUS
  <1> HIDE DEF kept, u
  <1>6. /\ n \in Nat
        /\ \A i \in kept : \E k \in 1 .. n : Nth(kept, k) = i
        /\ \A k \in 1 .. n : \A h \in 1 .. n : k < h => Nth(kept, k) < Nth(kept, h)
    BY <1>1, <1>2, NthLists
  <1>7. \A k \in 1 .. n : Nth(kept, k) \in kept
    BY <1>1, <1>2, NthIs
  <1> HIDE DEF n
  <1>8. DOMAIN u = 1 .. n /\ \A k \in 1 .. n : u[k] = q[Nth(kept, k)]
    BY <1>3
  <1>9. u \in Seq(Bundles)
    <2>1. \A k \in 1 .. n : q[Nth(kept, k)] \in Bundles
      BY <1>1, <1>4, <1>7
    <2> QED
      BY <1>3, <1>6, <2>1
  <1>10. Sorted(u)
    <2> SUFFICES ASSUME NEW g \in 1 .. n, NEW h \in 1 .. n, g < h
                 PROVE  Before(u[g], u[h])
      BY <1>8 DEF Sorted
    <2>1. /\ Nth(kept, g) < Nth(kept, h)
          /\ Nth(kept, g) \in DOMAIN q /\ Nth(kept, h) \in DOMAIN q
      BY <1>4, <1>6, <1>7
    <2> QED
      BY <1>8, <2>1 DEF Sorted
  <1>11. \A c \in ToSet(u) : c \in ToSet(q)
    BY <1>4, <1>7, <1>8 DEF ToSet
  <1>12. ASSUME NEW c \in ToSet(q), ~Expired(c)
         PROVE  c \in ToSet(u)
    <2>1. PICK i \in kept : q[i] = c
      BY <1>5, <1>12 DEF ToSet
    <2>2. PICK k \in 1 .. n : Nth(kept, k) = i
      BY <1>6
    <2> QED
      BY <1>8, <2>1, <2>2 DEF ToSet
  <1>13. ASSUME NEW c \in Bundles, Two(q, c), ~Expired(c)
         PROVE  Two(u, c)
    <2>1. PICK i \in kept, j \in kept : i # j /\ q[i] = c /\ q[j] = c
      BY <1>5, <1>13 DEF Two
    <2>2. PICK k \in 1 .. n : Nth(kept, k) = i
      BY <1>6
    <2>3. PICK h \in 1 .. n : Nth(kept, h) = j
      BY <1>6
    <2>4. k # h /\ u[k] = c /\ u[h] = c
      BY <1>8, <2>1, <2>2, <2>3
    <2> QED
      BY <1>8, <2>4 DEF Two
  <1> QED
    BY <1>9, <1>10, <1>11, <1>12, <1>13 DEF Cut, u

\* pop takes one copy of the first bundle.
LEMMA PopIs ==
    ASSUME NEW q \in Seq(Bundles), Sorted(q), q # << >>
    PROVE  /\ Cut(q, Tail(q)) /\ Head(q) \in ToSet(q) /\ Head(q) \in Bundles
           /\ \A c \in ToSet(q) : c # Head(q) \/ Two(q, c) => c \in ToSet(Tail(q))
           /\ \A c \in Bundles : c # Head(q) /\ Two(q, c) => Two(Tail(q), c)
  <1> DEFINE t == Tail(q)
  <1>1. /\ Len(q) \in Nat /\ Len(q) > 0 /\ DOMAIN q = 1 .. Len(q)
        /\ \A i \in 1 .. Len(q) : q[i] \in Bundles
    BY ElementOfSeq, LenProperties, EmptySeq
  <1>2. /\ t \in Seq(Bundles) /\ Len(t) = Len(q) - 1
        /\ \A i \in 1 .. Len(t) : t[i] = q[i + 1]
    BY HeadTailProperties
  <1>3. Head(q) = q[1]
    BY HeadTailProperties
  <1> HIDE DEF t
  <1>4. DOMAIN t = 1 .. Len(q) - 1
    BY <1>1, <1>2, LenProperties
  <1>5. Sorted(t)
    <2> SUFFICES ASSUME NEW i \in DOMAIN t, NEW j \in DOMAIN t, i < j
                 PROVE  Before(t[i], t[j])
      BY DEF Sorted
    <2>1. /\ i + 1 \in DOMAIN q /\ j + 1 \in DOMAIN q /\ i + 1 < j + 1
          /\ t[i] = q[i + 1] /\ t[j] = q[j + 1]
      BY <1>1, <1>2, <1>4
    <2> QED
      BY <2>1 DEF Sorted
  <1>6. \A c \in ToSet(t) : c \in ToSet(q)
    <2>1. \A i \in DOMAIN t : i + 1 \in DOMAIN q /\ t[i] = q[i + 1]
      BY <1>1, <1>2, <1>4
    <2> QED
      BY <2>1 DEF ToSet
  <1>7. \A i \in DOMAIN q : i # 1 => i - 1 \in DOMAIN t /\ t[i - 1] = q[i]
    <2> SUFFICES ASSUME NEW i \in DOMAIN q, i # 1
                 PROVE  i - 1 \in DOMAIN t /\ t[i - 1] = q[i]
      OBVIOUS
    <2>1. i - 1 \in DOMAIN t /\ i - 1 + 1 = i
      BY <1>1, <1>4
    <2>2. i - 1 \in 1 .. Len(t)
      BY <1>1, <1>2, <1>4, <2>1
    <2>3. t[i - 1] = q[i - 1 + 1]
      BY <1>2, <2>2
    <2> QED
      BY <2>1, <2>3
  <1>8. ASSUME NEW c \in ToSet(q), c # Head(q) \/ Two(q, c)
        PROVE  c \in ToSet(t)
    <2>1. \E i \in DOMAIN q : i # 1 /\ q[i] = c
      BY <1>3, <1>8 DEF ToSet, Two
    <2> QED
      BY <1>7, <2>1 DEF ToSet
  <1>9. ASSUME NEW c \in Bundles, c # Head(q), Two(q, c)
        PROVE  Two(t, c)
    <2>1. PICK i \in DOMAIN q, j \in DOMAIN q : i # j /\ q[i] = c /\ q[j] = c
      BY <1>9 DEF Two
    <2>2. i # 1 /\ j # 1
      BY <1>3, <1>9, <2>1
    <2>3. i - 1 # j - 1
      BY <1>1, <2>1
    <2> QED
      BY <1>7, <2>1, <2>2, <2>3 DEF Two
  <1>10. Head(q) \in ToSet(q) /\ Head(q) \in Bundles
    BY <1>1, <1>3 DEF ToSet
  <1> QED
    BY <1>2, <1>5, <1>6, <1>8, <1>9, <1>10 DEF Cut, t

-----------------------------------------------------------------------------
(* The state between two steps *)

\* A task waits for nothing, or in drain() after it wrote a bundle.
TaskOk(task) == task \in Tasks /\ (task = Idle \/ (task.bundle \in Bundles /\ task.on \in Links))

TasksInv ==
    /\ \A n \in Nodes, l \in Links : TaskOk(loop[n][l])
    /\ \A n \in Nodes, c \in Callers : TaskOk(send[n][c])

\* Where a bundle can be.
InBox(box, b) == \E n \in Nodes, l \in Links : b \in ToSet(box[n][l])
InLoop(loops, b) == \E n \in Nodes, l \in Links : loops[n][l].bundle = b
InSend(sends, b) == \E n \in Nodes, c \in Callers : sends[n][c].bundle = b
InQueue(queues, b) == \E n \in Nodes : b \in ToSet(queues[n])

Held(b) == InQueue(queue, b) \/ InBox(inbox, b) \/ InLoop(loop, b) \/ InSend(send, b)

\* What a daemon holds has been created.
BornInv == \A b \in Bundles : Held(b) => born[b] # Nobody

\* A loop that broadcasts a bundle to its recipient has handled it before.
LoopInv ==
    \A n \in Nodes, l \in Links, b \in Bundles :
        loop[n][l].bundle = b /\ Directed(b) /\ RecipientOf[b] = n => b \in ended

\* The bundle that _process_queue sends is still in the queue.
QueueInv ==
    \A n \in Nodes, b \in Bundles :
        send[n]["queue"].bundle = b /\ ~Expired(b) => b \in ToSet(queue[n])

\* A queue holds a bundle that the send under way will not pop.
Spare(q, task, b) == b \in ToSet(q) /\ (task.bundle = b => Two(q, b))

InSpare(queues, sends, b) == \E n \in Nodes : Spare(queues[n], sends[n]["queue"], b)

\* A directed bundle is ended or stored, or some daemon holds a copy of it that
\* no send under way will take away.
Alive(b) ==
    \/ b \in ended
    \/ RecipientOf[b] \in Nodes /\ b \in saved[RecipientOf[b]]
    \/ InBox(inbox, b) \/ InLoop(loop, b) \/ InSpare(queue, send, b)

AliveInv == \A b \in Bundles : born[b] # Nobody /\ Directed(b) /\ ~Expired(b) => Alive(b)

RelayInv ==
    /\ TypeOK /\ TasksInv /\ BornInv /\ LoopInv /\ QueueInv /\ RevocationsFirst /\ AliveInv

LEMMA RelayFacts ==
    ASSUME RelayInv
    PROVE  /\ Dated /\ Nobody \notin Bundles /\ Nobody \notin Nat
           /\ \A n \in Nodes : queue[n] \in Seq(Bundles) /\ Sorted(queue[n])
           /\ \A n \in Nodes, l \in Links : inbox[n][l] \in Seq(Bundles)
           /\ \A n \in Nodes, l \in Links : TaskOk(loop[n][l])
           /\ \A n \in Nodes, c \in Callers : TaskOk(send[n][c])
  <1>1. Nobody \notin Bundles /\ Nobody \notin Nat
    BY BundleRelayAssumption
  <1>2. Dated
    <2>1. now \in Nat /\ \A b \in Bundles : born[b] \in (0 .. MaxTime) \cup {Nobody}
      BY MaxTimeAssumption DEF RelayInv, TypeOK
    <2> QED
      BY <2>1, MaxTimeAssumption DEF Dated
  <1>3. \A n \in Nodes : queue[n] \in Seq(Bundles) /\ Sorted(queue[n])
    BY DEF RelayInv, TypeOK, RevocationsFirst, Sorted
  <1> QED
    BY <1>1, <1>2, <1>3 DEF RelayInv, TypeOK, TasksInv

\* Time stands still, and a bundle that is created is created now.
Birth ==
    /\ now' = now
    /\ born' \in [Bundles -> (0 .. MaxTime) \cup {Nobody}]
    /\ \A b \in Bundles : born'[b] = born[b] \/ (born[b] = Nobody /\ born'[b] = now)

LEMMA BirthIs ==
    ASSUME RelayInv, Birth
    PROVE  /\ \A b \in Bundles : born[b] # Nobody => born'[b] = born[b] /\ Expired(b)' = Expired(b)
           /\ \A b \in Bundles : Created(b)' = Created(b)
  <1>1. now # Nobody
    BY RelayFacts DEF Dated
  <1>2. \A b \in Bundles : Created(b)' = Created(b)
    BY <1>1 DEF Created, Birth
  <1>3. \A b \in Bundles : born[b] # Nobody => born'[b] = born[b] /\ Expired(b)' = Expired(b)
    BY DEF Birth, Expired
  <1> QED
    BY <1>2, <1>3

\* What a step that does not let time pass has to keep.
Kept ==
    /\ TypeOK' /\ TasksInv' /\ LoopInv' /\ Birth
    /\ \A n \in Nodes : Sorted(queue'[n])
    /\ \A b \in Bundles : Held(b)' => Held(b) \/ born'[b] # Nobody
    /\ \A n \in Nodes, b \in Bundles :
         send'[n]["queue"].bundle = b /\ (born[b] # Nobody => ~Expired(b)) => b \in ToSet(queue'[n])
    /\ \A b \in Bundles :
         born[b] # Nobody /\ Directed(b) /\ ~Expired(b) /\ Alive(b) => Alive(b)'
    /\ \A b \in Bundles : born[b] = Nobody /\ born'[b] # Nobody /\ Directed(b) => Alive(b)'

LEMMA KeptIs ==
    ASSUME RelayInv, Kept
    PROVE  RelayInv'
  <1>1. TypeOK' /\ TasksInv' /\ LoopInv' /\ Birth
    BY DEF Kept
  <1>2. /\ \A b \in Bundles : born[b] # Nobody => born'[b] = born[b] /\ Expired(b)' = Expired(b)
        /\ \A b \in Bundles : Created(b)' = Created(b)
    BY <1>1, BirthIs
  <1>3. BornInv'
    BY <1>2 DEF Kept, RelayInv, BornInv
  <1>4. QueueInv'
    <2> SUFFICES ASSUME NEW n \in Nodes, NEW b \in Bundles,
                        send'[n]["queue"].bundle = b, ~Expired(b)'
                 PROVE  b \in ToSet(queue'[n])
      BY DEF QueueInv
    <2>1. born[b] # Nobody => ~Expired(b)
      BY <1>2
    <2> QED
      BY <2>1 DEF Kept
  <1>5. RevocationsFirst'
    <2> SUFFICES ASSUME NEW n \in Nodes, NEW i \in DOMAIN queue'[n], NEW j \in DOMAIN queue'[n], i < j
                 PROVE  Before(queue[n][i], queue[n][j])'
      BY DEF RevocationsFirst
    <2>1. Before(queue'[n][i], queue'[n][j])
      BY DEF Kept, Sorted
    <2>2. queue'[n][i] \in Bundles /\ queue'[n][j] \in Bundles
      BY <1>1 DEF TypeOK
    <2> QED
      BY <1>2, <2>1, <2>2 DEF Before, Created, Priority
  <1>6. AliveInv'
    <2> SUFFICES ASSUME NEW b \in Bundles, born'[b] # Nobody, Directed(b), ~Expired(b)'
                 PROVE  Alive(b)'
      BY DEF AliveInv, Directed
    <2>1. CASE born[b] = Nobody
      BY <2>1 DEF Kept
    <2>2. CASE born[b] # Nobody
      <3>1. ~Expired(b) /\ Alive(b)
        BY <1>2, <2>2 DEF RelayInv, AliveInv
      <3> QED
        BY <2>2, <3>1 DEF Kept
    <2> QED
      BY <2>1, <2>2
  <1> QED
    BY <1>1, <1>3, <1>4, <1>5, <1>6 DEF RelayInv

-----------------------------------------------------------------------------
(* The parts of a step *)

\* The queues get at most b, and lose nothing.
QueuesKeep(b) ==
    /\ queue' \in [Nodes -> Seq(Bundles)]
    /\ \A n \in Nodes : Sorted(queue'[n])
    /\ \A n \in Nodes : \A c \in ToSet(queue[n]) : c \in ToSet(queue'[n])
    /\ \A n \in Nodes : \A c \in ToSet(queue'[n]) : c = b \/ c \in ToSet(queue[n])
    /\ \A n \in Nodes, c \in Bundles : Two(queue[n], c) => Two(queue'[n], c)

\* n has one more copy of b in its queue.
Queued(n, b) == b \in ToSet(queue'[n]) /\ (b \in ToSet(queue[n]) => Two(queue'[n], b))

LEMMA PushStep ==
    ASSUME RelayInv, NEW n \in Nodes, NEW b \in Bundles,
           queue' = [queue EXCEPT ![n] = Push(@, b)]
    PROVE  QueuesKeep(b) /\ Queued(n, b)
  <1>1. Pushed(queue[n], Push(queue[n], b), b)
    BY RelayFacts, PushIs
  <1>2. queue \in [Nodes -> Seq(Bundles)] /\ \A m \in Nodes : Sorted(queue[m])
    BY RelayFacts DEF RelayInv, TypeOK
  <1>3. queue'[n] = Push(queue[n], b) /\ \A m \in Nodes : m # n => queue'[m] = queue[m]
    BY <1>2
  <1>4. queue' \in [Nodes -> Seq(Bundles)]
    <2> DEFINE s == Push(queue[n], b)
    <2>1. s \in Seq(Bundles) /\ queue' = [queue EXCEPT ![n] = s]
      BY <1>1 DEF Pushed
    <2> HIDE DEF s
    <2> QED
      BY <1>2, <2>1
  <1> QED
    BY <1>1, <1>2, <1>3, <1>4 DEF Pushed, QueuesKeep, Queued

LEMMA QueuesStay ==
    ASSUME RelayInv, queue' = queue, NEW b
    PROVE  QueuesKeep(b)
  BY RelayFacts DEF RelayInv, TypeOK, QueuesKeep

\* The streams of the open connections.
BoxOk(box, open) ==
    /\ box \in [Nodes -> [Links -> Seq(Bundles)]]
    /\ \A n \in Nodes, l \in Links : box[n][l] # << >> => l \in open

LEMMA AppendedIs ==
    ASSUME NEW q \in Seq(Bundles), NEW b \in Bundles
    PROVE  /\ Append(q, b) \in Seq(Bundles) /\ b \in ToSet(Append(q, b))
           /\ \A c \in ToSet(q) : c \in ToSet(Append(q, b))
           /\ \A c \in ToSet(Append(q, b)) : c = b \/ c \in ToSet(q)
  <1> DEFINE s == Append(q, b)
  <1>1. /\ s \in Seq(Bundles) /\ Len(s) = Len(q) + 1 /\ s[Len(q) + 1] = b
        /\ \A i \in 1 .. Len(q) : s[i] = q[i]
    BY AppendProperties
  <1>2. Len(q) \in Nat /\ DOMAIN q = 1 .. Len(q) /\ DOMAIN s = 1 .. Len(q) + 1
    BY <1>1, LenProperties
  <1> HIDE DEF s
  <1>3. Len(q) + 1 \in DOMAIN s /\ \A i \in DOMAIN q : i \in DOMAIN s
    BY <1>2
  <1>4. \A i \in DOMAIN s : i = Len(q) + 1 \/ i \in DOMAIN q
    BY <1>2
  <1>5. b \in ToSet(s)
    BY <1>1, <1>3 DEF ToSet
  <1>6. \A c \in ToSet(q) : c \in ToSet(s)
    BY <1>1, <1>2, <1>3 DEF ToSet
  <1>7. \A c \in ToSet(s) : c = b \/ c \in ToSet(q)
    BY <1>1, <1>2, <1>4 DEF ToSet
  <1> QED
    BY <1>1, <1>5, <1>6, <1>7 DEF s

LEMMA TakenIs ==
    ASSUME NEW q \in Seq(Bundles), q # << >>
    PROVE  /\ Tail(q) \in Seq(Bundles) /\ Head(q) \in Bundles /\ Head(q) \in ToSet(q)
           /\ \A c \in ToSet(q) : c = Head(q) \/ c \in ToSet(Tail(q))
           /\ \A c \in ToSet(Tail(q)) : c \in ToSet(q)
  <1> DEFINE t == Tail(q)
  <1>1. /\ Len(q) \in Nat /\ Len(q) > 0 /\ DOMAIN q = 1 .. Len(q)
        /\ \A i \in 1 .. Len(q) : q[i] \in Bundles
    BY ElementOfSeq, LenProperties, EmptySeq
  <1>2. /\ t \in Seq(Bundles) /\ Len(t) = Len(q) - 1 /\ Head(q) = q[1]
        /\ \A i \in 1 .. Len(t) : t[i] = q[i + 1]
    BY HeadTailProperties
  <1> HIDE DEF t
  <1>3. DOMAIN t = 1 .. Len(q) - 1
    BY <1>1, <1>2, LenProperties
  <1>4. \A i \in DOMAIN t : i + 1 \in DOMAIN q /\ t[i] = q[i + 1]
    BY <1>1, <1>2, <1>3
  <1>5. ASSUME NEW i \in DOMAIN q, i # 1
        PROVE  i - 1 \in DOMAIN t /\ t[i - 1] = q[i]
    <2>1. i - 1 \in DOMAIN t /\ i - 1 + 1 = i
      BY <1>1, <1>3, <1>5
    <2>2. t[i - 1] = q[i - 1 + 1]
      BY <1>4, <2>1
    <2> QED
      BY <2>1, <2>2
  <1>6. \A c \in ToSet(q) : c = Head(q) \/ c \in ToSet(t)
    BY <1>2, <1>5 DEF ToSet
  <1>7. \A c \in ToSet(t) : c \in ToSet(q)
    BY <1>4 DEF ToSet
  <1>8. Head(q) \in Bundles /\ Head(q) \in ToSet(q)
    BY <1>1, <1>2 DEF ToSet
  <1> QED
    BY <1>2, <1>6, <1>7, <1>8 DEF t

\* b is written to the open connections `ls`.
LEMMA WrittenIs ==
    ASSUME NEW box, NEW open, BoxOk(box, open), NEW n \in Nodes, NEW b \in Bundles,
           NEW ls, ls \subseteq open \cap Links
    PROVE  LET w == Written(box, n, b, ls)
           IN  /\ BoxOk(w, open)
               /\ \A c \in Bundles : InBox(box, c) => InBox(w, c)
               /\ \A c \in Bundles : InBox(w, c) => c = b \/ InBox(box, c)
               /\ \A l \in ls : ~Elsewhere(n, l) => InBox(w, b)
  <1> DEFINE w == Written(box, n, b, ls)
  <1>1. \A m \in Nodes, l \in Links : w[m][l] =
            IF l \in ls /\ m = Far(n, l) THEN Append(box[m][l], b) ELSE box[m][l]
    BY DEF Written
  <1>2. \A m \in Nodes, l \in Links : box[m][l] \in Seq(Bundles)
    BY DEF BoxOk
  <1>3. ASSUME NEW m \in Nodes, NEW l \in Links
        PROVE  /\ w[m][l] \in Seq(Bundles)
               /\ \A c \in ToSet(box[m][l]) : c \in ToSet(w[m][l])
               /\ \A c \in ToSet(w[m][l]) : c = b \/ c \in ToSet(box[m][l])
               /\ w[m][l] # << >> => l \in open
    <2>1. CASE l \in ls /\ m = Far(n, l)
      <3>1. w[m][l] = Append(box[m][l], b) /\ box[m][l] \in Seq(Bundles) /\ l \in open
        BY <1>1, <1>2, <2>1
      <3> HIDE DEF w
      <3> QED
        BY <3>1, AppendedIs
    <2>2. CASE ~(l \in ls /\ m = Far(n, l))
      <3>1. w[m][l] = box[m][l] /\ box[m][l] \in Seq(Bundles)
        BY <1>1, <1>2, <2>2
      <3> HIDE DEF w
      <3> QED
        BY <3>1 DEF BoxOk
    <2> QED
      BY <2>1, <2>2
  <1>4. w \in [Nodes -> [Links -> Seq(Bundles)]]
    <2> DEFINE e(m, l) == IF l \in ls /\ m = Far(n, l) THEN Append(box[m][l], b) ELSE box[m][l]
    <2>1. w = [m \in Nodes |-> [l \in Links |-> e(m, l)]]
      BY DEF Written
    <2>2. \A m \in Nodes, l \in Links : e(m, l) \in Seq(Bundles)
      BY <1>2, AppendedIs
    <2> HIDE DEF e, w
    <2> QED
      BY <2>1, <2>2
  <1>5. ASSUME NEW l \in ls, ~Elsewhere(n, l)
        PROVE  InBox(w, b)
    <2>1. Far(n, l) \in Nodes /\ l \in Links
      BY <1>5 DEF Elsewhere
    <2>2. b \in ToSet(w[Far(n, l)][l])
      BY <1>1, <1>2, <2>1, AppendedIs
    <2> QED
      BY <2>1, <2>2 DEF InBox
  <1> HIDE DEF w
  <1>6. /\ \A c \in Bundles : InBox(box, c) => InBox(w, c)
        /\ \A c \in Bundles : InBox(w, c) => c = b \/ InBox(box, c)
    BY <1>3 DEF InBox
  <1>7. BoxOk(w, open)
    BY <1>3, <1>4 DEF BoxOk
  <1> QED
    BY <1>5, <1>6, <1>7 DEF w

LEMMA TaskIs ==
    /\ TaskOk(Idle) /\ Idle.bundle = Nobody /\ Idle.on = Nobody
    /\ \A b \in Bundles, l \in Links, rest \in SUBSET Links :
         TaskOk(Wait(b, l, rest)) /\ Wait(b, l, rest).bundle = b /\ Wait(b, l, rest).on = l
  BY DEF TaskOk, Tasks, Idle, Wait

LEMMA TaskBundle ==
    ASSUME NEW t, TaskOk(t)
    PROVE  /\ t \in Tasks
           /\ t # Idle => t.bundle \in Bundles /\ t.on \in Links /\ t.rest \subseteq Links
           /\ t.bundle \in Bundles => t # Idle
  BY TaskIs, BundleRelayAssumption DEF TaskOk, Tasks

\* Only b is new in the streams, and they lose nothing.
BoxKeeps(box, b) ==
    /\ BoxOk(inbox', up)
    /\ \A c \in Bundles : InBox(box, c) => InBox(inbox', c)
    /\ \A c \in Bundles : InBox(inbox', c) => c = b \/ InBox(box, c)

\* The loop l of n stops or waits with b, no other loop moves.
LoopMoves(n, l, b) ==
    /\ loop' \in [Nodes -> [Links -> Tasks]]
    /\ \A m \in Nodes, k \in Links : TaskOk(loop'[m][k])
    /\ \A m \in Nodes, k \in Links, c \in Bundles :
         loop'[m][k].bundle = c => loop[m][k].bundle = c \/ (m = n /\ c = b)
    /\ \A c \in Bundles : InLoop(loop, c) => c = b \/ InLoop(loop', c)

LEMMA LoopSet ==
    ASSUME RelayInv, NEW n \in Nodes, NEW l \in Links, NEW b \in Bundles, NEW t, TaskOk(t),
           t.bundle \in {b, Nobody}, loop[n][l] = Idle \/ loop[n][l].bundle = b,
           loop' = [loop EXCEPT ![n][l] = t]
    PROVE  LoopMoves(n, l, b) /\ (t.bundle = b => InLoop(loop', b))
  <1>1. loop \in [Nodes -> [Links -> Tasks]] /\ \A m \in Nodes, k \in Links : TaskOk(loop[m][k])
    BY RelayFacts DEF RelayInv, TypeOK
  <1>2. \A m \in Nodes, k \in Links :
            loop'[m][k] = IF m = n /\ k = l THEN t ELSE loop[m][k]
    BY <1>1
  <1>3. t \in Tasks
    BY DEF TaskOk
  <1>4. loop' \in [Nodes -> [Links -> Tasks]]
    BY <1>1, <1>3
  <1>5. \A m \in Nodes, k \in Links : TaskOk(loop'[m][k])
    BY <1>1, <1>2
  <1>6. ASSUME NEW m \in Nodes, NEW k \in Links, NEW c \in Bundles, loop'[m][k].bundle = c
        PROVE  loop[m][k].bundle = c \/ (m = n /\ c = b)
    BY <1>2, <1>6, BundleRelayAssumption
  <1>7. ASSUME NEW c \in Bundles, InLoop(loop, c), c # b
        PROVE  InLoop(loop', c)
    <2>1. PICK m \in Nodes, k \in Links : loop[m][k].bundle = c
      BY <1>7 DEF InLoop
    <2>2. ~(m = n /\ k = l)
      BY <1>7, <2>1, TaskIs, BundleRelayAssumption
    <2> QED
      BY <1>2, <2>1, <2>2 DEF InLoop
  <1>8. t.bundle = b => InLoop(loop', b)
    BY <1>2 DEF InLoop
  <1> QED
    BY <1>4, <1>5, <1>6, <1>7, <1>8 DEF LoopMoves

\* A broadcast ends with a copy for the recipient, if it is not n, in the queue,
\* or waits with the bundle.
LEMMA BroadcastIs ==
    ASSUME RelayInv, NEW n \in Nodes, NEW l \in Links, NEW b \in Bundles,
           NEW todo, todo \subseteq up \cap Links, NEW box, BoxOk(box, up),
           loop[n][l] = Idle \/ loop[n][l].bundle = b,
           Broadcast(n, l, b, todo, box)
    PROVE  /\ QueuesKeep(b) /\ BoxKeeps(box, b) /\ LoopMoves(n, l, b)
           /\ InLoop(loop', b) \/ (ToRelay(n, b) => Queued(n, b))
  <1>1. CASE /\ inbox' = Written(box, n, b, todo)
             /\ loop' = [loop EXCEPT ![n][l] = Idle]
             /\ Relay(n, b)
    <2>1. BoxKeeps(box, b)
      BY <1>1, WrittenIs DEF BoxKeeps
    <2>2. LoopMoves(n, l, b)
      BY <1>1, LoopSet, TaskIs
    <2>3. QueuesKeep(b) /\ (ToRelay(n, b) => Queued(n, b))
      <3>1. CASE ToRelay(n, b)
        <4>1. queue' = [queue EXCEPT ![n] = Push(@, b)]
          BY <1>1, <3>1 DEF Relay
        <4> QED
          BY <4>1, PushStep
      <3>2. CASE ~ToRelay(n, b)
        <4>1. queue' = queue
          BY <1>1, <3>2 DEF Relay
        <4> QED
          BY <3>2, <4>1, QueuesStay
      <3> QED
        BY <3>1, <3>2
    <2> QED
      BY <2>1, <2>2, <2>3
  <1>2. ASSUME NEW stop \in todo, NEW first \in SUBSET todo,
               inbox' = Written(box, n, b, first \cup {stop}),
               loop' = [loop EXCEPT ![n][l] = Wait(b, stop, todo \ (first \cup {stop}))],
               queue' = queue
        PROVE  QueuesKeep(b) /\ BoxKeeps(box, b) /\ LoopMoves(n, l, b) /\ InLoop(loop', b)
    <2>1. first \cup {stop} \subseteq up \cap Links
      OBVIOUS
    <2>2. BoxKeeps(box, b)
      BY <1>2, <2>1, WrittenIs DEF BoxKeeps
    <2>3. stop \in Links /\ todo \ (first \cup {stop}) \in SUBSET Links
      OBVIOUS
    <2> DEFINE t == Wait(b, stop, todo \ (first \cup {stop}))
    <2>4. TaskOk(t) /\ t.bundle = b
      BY <2>3, TaskIs
    <2>5. loop' = [loop EXCEPT ![n][l] = t]
      BY <1>2
    <2> HIDE DEF t
    <2>6. LoopMoves(n, l, b) /\ InLoop(loop', b)
      BY <2>4, <2>5, LoopSet
    <2> QED
      BY <1>2, <2>2, <2>6, QueuesStay
  <1> QED
    BY <1>1, <1>2 DEF Broadcast

\* The task of the caller c of n changes.
SendMoves(n, c, t) ==
    /\ send' \in [Nodes -> [Callers -> Tasks]]
    /\ \A m \in Nodes, d \in Callers : TaskOk(send'[m][d])
    /\ \A m \in Nodes, d \in Callers : send'[m][d] = IF m = n /\ d = c THEN t ELSE send[m][d]

LEMMA SendSet ==
    ASSUME RelayInv, NEW n \in Nodes, NEW c \in Callers, NEW t, TaskOk(t),
           send' = [send EXCEPT ![n][c] = t]
    PROVE  SendMoves(n, c, t)
  <1>1. send \in [Nodes -> [Callers -> Tasks]] /\ \A m \in Nodes, d \in Callers : TaskOk(send[m][d])
    BY RelayFacts DEF RelayInv, TypeOK
  <1>2. \A m \in Nodes, d \in Callers :
            send'[m][d] = IF m = n /\ d = c THEN t ELSE send[m][d]
    BY <1>1
  <1>3. t \in Tasks
    BY DEF TaskOk
  <1>4. send' \in [Nodes -> [Callers -> Tasks]]
    BY <1>1, <1>3
  <1> QED
    BY <1>1, <1>2, <1>4 DEF SendMoves

\* What a send over an open connection does.
LEMMA SendToIs ==
    ASSUME RelayInv, NEW n \in Nodes, NEW c \in Callers, NEW b \in Bundles,
           NEW l \in up \cap Links, NEW rest \in SUBSET Links, NEW waits \in BOOLEAN,
           SendTo(n, c, b, l, rest, waits)
    PROVE  /\ BoxKeeps(inbox, b)
           /\ SendMoves(n, c, IF waits THEN Wait(b, l, rest) ELSE Idle)
           /\ ended \subseteq ended' /\ ended' \subseteq Bundles
           /\ Directed(b) => b \in ended' \/ InBox(inbox', b)
  <1>1. BoxOk(inbox, up)
    BY DEF RelayInv, TypeOK, BoxOk
  <1>2. inbox' = Written(inbox, n, b, {l}) /\ {l} \subseteq up \cap Links
    BY DEF SendTo
  <1>3. BoxKeeps(inbox, b) /\ (~Elsewhere(n, l) => InBox(inbox', b))
    BY <1>1, <1>2, WrittenIs DEF BoxKeeps
  <1>4. SendMoves(n, c, IF waits THEN Wait(b, l, rest) ELSE Idle)
    <2> DEFINE t == IF waits THEN Wait(b, l, rest) ELSE Idle
    <2>1. TaskOk(t) /\ send' = [send EXCEPT ![n][c] = t]
      BY TaskIs DEF SendTo
    <2> HIDE DEF t
    <2>2. SendMoves(n, c, t)
      BY <2>1, SendSet
    <2> QED
      BY <2>2 DEF t
  <1>5. ended' = ended \cup {x \in (IF Elsewhere(n, l) THEN {b} ELSE {}) \cap Bundles : Directed(x)}
    BY DEF SendTo, Ended
  <1>6. ended \subseteq ended' /\ ended' \subseteq Bundles
    BY <1>5 DEF RelayInv, TypeOK
  <1>7. Directed(b) /\ Elsewhere(n, l) => b \in ended'
    BY <1>5
  <1> QED
    BY <1>3, <1>4, <1>6, <1>7

-----------------------------------------------------------------------------
(* Steps that take nothing from a queue *)

\* Spare copies stay spare when nothing leaves a queue, and the copy that a push
\* adds is spare, as the send under way has its own.
LEMMA SpareKeeps ==
    ASSUME RelayInv, NEW b \in Bundles, QueuesKeep(b),
           \A m \in Nodes : send'[m]["queue"] = send[m]["queue"]
    PROVE  /\ \A c \in Bundles : InSpare(queue, send, c) => InSpare(queue', send', c)
           /\ \A m \in Nodes :
                Queued(m, b) /\ (born[b] # Nobody => ~Expired(b)) => InSpare(queue', send', b)
           /\ \A m \in Nodes, c \in Bundles :
                send'[m]["queue"].bundle = c /\ (born[c] # Nobody => ~Expired(c))
                    => c \in ToSet(queue'[m])
  <1>1. ASSUME NEW m \in Nodes, NEW c \in Bundles, send[m]["queue"].bundle = c
        PROVE  born[c] # Nobody
    <2>1. InSend(send, c)
      BY <1>1 DEF InSend, Callers
    <2> QED
      BY <2>1 DEF RelayInv, BornInv, Held
  <1>2. ASSUME NEW m \in Nodes, NEW c \in Bundles,
               send[m]["queue"].bundle = c, born[c] # Nobody => ~Expired(c)
        PROVE  c \in ToSet(queue[m])
    BY <1>1, <1>2 DEF RelayInv, QueueInv
  <1>3. \A c \in Bundles : InSpare(queue, send, c) => InSpare(queue', send', c)
    BY DEF InSpare, Spare, QueuesKeep
  <1>4. ASSUME NEW m \in Nodes, Queued(m, b), born[b] # Nobody => ~Expired(b)
        PROVE  InSpare(queue', send', b)
    BY <1>2, <1>4 DEF InSpare, Spare, Queued
  <1>5. ASSUME NEW m \in Nodes, NEW c \in Bundles,
               send'[m]["queue"].bundle = c, born[c] # Nobody => ~Expired(c)
        PROVE  c \in ToSet(queue'[m])
    BY <1>2, <1>5 DEF QueuesKeep
  <1> QED
    BY <1>3, <1>4, <1>5

\* A step that moves b, and leaves every other bundle where it is.
Moved(b, box) ==
    /\ QueuesKeep(b) /\ BoxKeeps(box, b)
    /\ \A c \in Bundles : InBox(inbox, c) => c = b \/ InBox(box, c)
    /\ \A c \in Bundles : InBox(box, c) => InBox(inbox, c)
    /\ \A c \in Bundles : InLoop(loop, c) => c = b \/ InLoop(loop', c)
    /\ \A c \in Bundles : InLoop(loop', c) => c = b \/ InLoop(loop, c)
    /\ \A c \in Bundles : InSend(send', c) => c = b \/ InSend(send, c)
    /\ \A m \in Nodes : send'[m]["queue"] = send[m]["queue"]
    /\ ended \subseteq ended' /\ ended' \subseteq Bundles
    /\ saved' \in [Nodes -> SUBSET Bundles] /\ \A m \in Nodes : saved[m] \subseteq saved'[m]
    /\ Birth /\ born'[b] # Nobody /\ \A c \in Bundles : c # b => born'[c] = born[c]

LEMMA MovedKeeps ==
    ASSUME RelayInv, NEW b \in Bundles, NEW box, Moved(b, box), TypeOK', TasksInv', LoopInv',
           Directed(b) /\ (born[b] # Nobody => ~Expired(b)) => Alive(b)'
    PROVE  Kept
  <1>1. /\ \A c \in Bundles : InSpare(queue, send, c) => InSpare(queue', send', c)
        /\ \A m \in Nodes, c \in Bundles :
             send'[m]["queue"].bundle = c /\ (born[c] # Nobody => ~Expired(c))
                 => c \in ToSet(queue'[m])
    BY SpareKeeps DEF Moved
  <1>2. Birth /\ \A m \in Nodes : Sorted(queue'[m])
    BY DEF Moved, QueuesKeep
  <1>3. ASSUME NEW c \in Bundles, Held(c)'
        PROVE  Held(c) \/ born'[c] # Nobody
    <2>1. InQueue(queue', c) \/ InBox(inbox', c) \/ InLoop(loop', c) \/ InSend(send', c)
      BY <1>3 DEF Held
    <2>2. InQueue(queue', c) => c = b \/ InQueue(queue, c)
      BY DEF InQueue, Moved, QueuesKeep
    <2>3. InBox(inbox', c) => c = b \/ InBox(inbox, c)
      BY DEF Moved, BoxKeeps
    <2> QED
      BY <2>1, <2>2, <2>3 DEF Held, Moved
  <1>4. ASSUME NEW c \in Bundles, c # b, Alive(c)
        PROVE  Alive(c)'
    <2>1. CASE c \in ended
      <3>1. c \in ended'
        BY <2>1 DEF Moved
      <3> QED
        BY <3>1 DEF Alive
    <2>2. CASE RecipientOf[c] \in Nodes /\ c \in saved[RecipientOf[c]]
      <3>1. c \in saved'[RecipientOf[c]]
        BY <2>2 DEF Moved
      <3> QED
        BY <2>2, <3>1 DEF Alive
    <2>3. CASE InBox(inbox, c)
      <3>1. InBox(inbox', c)
        BY <1>4, <2>3 DEF Moved, BoxKeeps
      <3> QED
        BY <3>1 DEF Alive
    <2>4. CASE InLoop(loop, c)
      <3>1. InLoop(loop', c)
        BY <1>4, <2>4 DEF Moved
      <3> QED
        BY <3>1 DEF Alive
    <2>5. CASE InSpare(queue, send, c)
      <3>1. InSpare(queue', send', c)
        BY <1>1, <2>5
      <3> QED
        BY <3>1 DEF Alive
    <2> QED
      BY <1>4, <2>1, <2>2, <2>3, <2>4, <2>5 DEF Alive
  <1>5. ASSUME NEW c \in Bundles, born[c] # Nobody, Directed(c), ~Expired(c), Alive(c)
        PROVE  Alive(c)'
    BY <1>4, <1>5
  <1>6. ASSUME NEW c \in Bundles, born[c] = Nobody, born'[c] # Nobody, Directed(c)
        PROVE  Alive(c)'
    BY <1>6 DEF Moved
  <1> QED
    BY <1>1, <1>2, <1>3, <1>5, <1>6 DEF Kept

\* Nothing is born.
LEMMA NoBirth ==
    ASSUME RelayInv, now' = now, born' = born
    PROVE  Birth
  BY DEF Birth, RelayInv, TypeOK

LEMMA SavesMore ==
    ASSUME RelayInv, NEW n \in Nodes, NEW b \in Bundles, Keep(n, b)
    PROVE  /\ saved' \in [Nodes -> SUBSET Bundles] /\ \A m \in Nodes : saved[m] \subseteq saved'[m]
           /\ TypeOf[b] = "message" /\ RecipientOf[b] = n => b \in saved'[n]
  <1>1. saved \in [Nodes -> SUBSET Bundles]
    BY DEF RelayInv, TypeOK
  <1>2. CASE saved' = [saved EXCEPT ![n] = @ \cup {b}]
    BY <1>1, <1>2
  <1>3. CASE saved' = saved /\ ~(TypeOf[b] = "message" /\ RecipientOf[b] \in {"*", n})
    BY <1>1, <1>3
  <1> QED
    BY <1>2, <1>3 DEF Keep

LEMMA ReceiveKeeps ==
    ASSUME RelayInv, NEW n \in Nodes, NEW l \in Links, Receive(n, l)
    PROVE  Kept
  <1>0. PICK b : b = Head(inbox[n][l])
    OBVIOUS
  <1> DEFINE box == Taken(n, l)
  <1>1. /\ l \in up /\ loop[n][l] = Idle /\ inbox[n][l] # << >> /\ Learn(n, l, b)
        /\ (~Discards(b) /\ Rebroadcasts(n, b) /\ Broadcast(n, l, b, Peers(n), box))
           \/ (inbox' = box /\ loop' = loop /\ (Discards(b) => queue' = queue)
               /\ (~Discards(b) => Relay(n, b)))
        /\ Discards(b) => saved' = saved /\ ended' = ended
        /\ ~Discards(b) => /\ Keep(n, b)
                           /\ Ended(IF RecipientOf[b] = n /\ TypeOf[b] # "message" THEN {b} ELSE {})
        /\ now' = now /\ born' = born /\ up' = up /\ send' = send
    BY <1>0 DEF Receive
  <1>2. /\ b \in Bundles /\ b \in ToSet(inbox[n][l]) /\ BoxOk(inbox, up) /\ BoxOk(box, up)
        /\ \A c \in Bundles : InBox(inbox, c) => c = b \/ InBox(box, c)
        /\ \A c \in Bundles : InBox(box, c) => InBox(inbox, c)
    <2>1. /\ Tail(inbox[n][l]) \in Seq(Bundles) /\ b \in Bundles /\ b \in ToSet(inbox[n][l])
          /\ \A c \in ToSet(inbox[n][l]) : c = b \/ c \in ToSet(Tail(inbox[n][l]))
          /\ \A c \in ToSet(Tail(inbox[n][l])) : c \in ToSet(inbox[n][l])
      BY <1>0, <1>1, RelayFacts, TakenIs
    <2>2. BoxOk(inbox, up)
      BY DEF RelayInv, TypeOK, BoxOk
    <2>3. \A m \in Nodes, k \in Links :
            box[m][k] = IF m = n /\ k = l THEN Tail(inbox[n][l]) ELSE inbox[m][k]
      BY <2>2 DEF Taken, BoxOk
    <2>4. box \in [Nodes -> [Links -> Seq(Bundles)]]
      <3> DEFINE t == Tail(inbox[n][l])
      <3>1. box = [inbox EXCEPT ![n][l] = t] /\ t \in Seq(Bundles)
        BY <2>1 DEF Taken
      <3> HIDE DEF t, box
      <3> QED
        BY <2>2, <3>1 DEF BoxOk
    <2> HIDE DEF box
    <2>5. BoxOk(box, up)
      BY <1>1, <2>2, <2>3, <2>4 DEF BoxOk
    <2> QED
      BY <2>1, <2>2, <2>3, <2>5 DEF InBox
  <1> HIDE DEF box
  <1>3. born[b] # Nobody
    <2>1. InBox(inbox, b)
      BY <1>2 DEF InBox
    <2> QED
      BY <1>2, <2>1 DEF RelayInv, BornInv, Held
  <1>4. /\ QueuesKeep(b) /\ BoxKeeps(box, b) /\ LoopMoves(n, l, b)
        /\ ~Discards(b) /\ ToRelay(n, b) => InLoop(loop', b) \/ Queued(n, b)
        /\ loop' = loop \/ (~Discards(b) /\ TypeOf[b] = "revocation")
    <2>1. CASE ~Discards(b) /\ Rebroadcasts(n, b) /\ Broadcast(n, l, b, Peers(n), box)
      <3>1. Peers(n) \subseteq up \cap Links
        BY DEF Peers, LinksOf
      <3>2. /\ QueuesKeep(b) /\ BoxKeeps(box, b) /\ LoopMoves(n, l, b)
            /\ InLoop(loop', b) \/ (ToRelay(n, b) => Queued(n, b))
        BY <1>1, <1>2, <2>1, <3>1, BroadcastIs
      <3> QED
        BY <2>1, <3>2 DEF Rebroadcasts
    <2>2. CASE /\ inbox' = box /\ loop' = loop /\ (Discards(b) => queue' = queue)
               /\ (~Discards(b) => Relay(n, b))
      <3>1. BoxKeeps(box, b)
        BY <1>2, <2>2 DEF BoxKeeps
      <3>2. LoopMoves(n, l, b)
        BY <2>2, RelayFacts DEF LoopMoves, RelayInv, TypeOK
      <3>3. QueuesKeep(b) /\ (~Discards(b) /\ ToRelay(n, b) => Queued(n, b))
        <4>1. CASE queue' = [queue EXCEPT ![n] = Push(@, b)]
          BY <1>2, <4>1, PushStep
        <4>2. CASE queue' = queue /\ ~(~Discards(b) /\ ToRelay(n, b))
          BY <4>2, QueuesStay
        <4> QED
          BY <2>2, <4>1, <4>2 DEF Relay
      <3> QED
        BY <2>2, <3>1, <3>2, <3>3
    <2> QED
      BY <1>1, <2>1, <2>2
  <1>5. /\ ended \subseteq ended' /\ ended' \subseteq Bundles
        /\ ~Discards(b) /\ Directed(b) /\ RecipientOf[b] = n /\ TypeOf[b] # "message" => b \in ended'
    <2>1. ended \subseteq Bundles
      BY DEF RelayInv, TypeOK
    <2>2. CASE Discards(b)
      BY <1>1, <2>1, <2>2
    <2>3. CASE ~Discards(b)
      BY <1>1, <1>2, <2>1, <2>3 DEF Ended
    <2> QED
      BY <2>2, <2>3
  <1>6. /\ saved' \in [Nodes -> SUBSET Bundles] /\ \A m \in Nodes : saved[m] \subseteq saved'[m]
        /\ ~Discards(b) /\ TypeOf[b] = "message" /\ RecipientOf[b] = n => b \in saved'[n]
    <2>1. CASE Discards(b)
      BY <1>1, <2>1 DEF RelayInv, TypeOK
    <2>2. CASE ~Discards(b)
      BY <1>1, <1>2, <2>2, SavesMore
    <2> QED
      BY <2>1, <2>2
  <1>7. TypeOK'
    <2>1. DOMAIN label' = Nodes
      BY <1>1 DEF Learn, RelayInv, TypeOK
    <2> QED
      BY <1>1, <1>4, <1>5, <1>6, <2>1
      DEF RelayInv, TypeOK, QueuesKeep, BoxKeeps, BoxOk, LoopMoves
  <1>8. TasksInv'
    BY <1>1, <1>4, RelayFacts DEF TasksInv, LoopMoves
  <1>9. LoopInv'
    <2> SUFFICES ASSUME NEW m \in Nodes, NEW k \in Links, NEW c \in Bundles,
                        loop'[m][k].bundle = c, Directed(c), RecipientOf[c] = m
                 PROVE  c \in ended'
      BY DEF LoopInv, Directed
    <2>1. CASE loop[m][k].bundle = c
      BY <1>5, <2>1 DEF RelayInv, LoopInv
    <2>2. CASE loop[m][k].bundle # c
      <3>1. m = n /\ c = b /\ ~Discards(b) /\ TypeOf[b] = "revocation"
        BY <1>4, <2>2 DEF LoopMoves
      <3> QED
        BY <1>5, <3>1
    <2> QED
      BY <2>1, <2>2
  <1>10. Moved(b, box)
    <2>1. Birth
      BY <1>1, NoBirth
    <2>2. \A c \in Bundles : InLoop(loop', c) => c = b \/ InLoop(loop, c)
      BY <1>4 DEF LoopMoves, InLoop
    <2> QED
      BY <1>1, <1>2, <1>3, <1>4, <1>5, <1>6, <2>1, <2>2 DEF Moved, LoopMoves
  <1>11. ASSUME Directed(b), ~Expired(b)
         PROVE  Alive(b)'
    <2>1. CASE RecipientOf[b] = n
      <3>1. b \in ended' \/ b \in saved'[RecipientOf[b]]
        BY <1>5, <1>6, <1>11, <2>1 DEF Discards
      <3> QED
        BY <2>1, <3>1 DEF Alive
    <2>2. CASE RecipientOf[b] # n
      <3>1. InLoop(loop', b) \/ Queued(n, b)
        BY <1>4, <1>11, <2>2 DEF Discards, ToRelay
      <3>2. Queued(n, b) => InSpare(queue', send', b)
        BY <1>1, <1>2, <1>4, <1>11, SpareKeeps
      <3> QED
        BY <3>1, <3>2 DEF Alive
    <2> QED
      BY <2>1, <2>2
  <1> QED
    BY <1>2, <1>3, <1>7, <1>8, <1>9, <1>10, <1>11, MovedKeeps

LEMMA ResumeKeeps ==
    ASSUME RelayInv, NEW n \in Nodes, NEW l \in Links, ResumeBroadcast(n, l)
    PROVE  Kept
  <1>0. PICK b : b = loop[n][l].bundle
    OBVIOUS
  <1>1. /\ loop[n][l] # Idle
        /\ Broadcast(n, l, b, loop[n][l].rest \cap up, inbox)
        /\ now' = now /\ born' = born /\ up' = up /\ label' = label /\ send' = send
        /\ saved' = saved /\ ended' = ended
    BY <1>0 DEF ResumeBroadcast, Resumes
  <1>2. b \in Bundles /\ loop[n][l].rest \cap up \subseteq up \cap Links
    BY <1>0, <1>1, RelayFacts, TaskBundle
  <1>3. BoxOk(inbox, up)
    BY DEF RelayInv, TypeOK, BoxOk
  <1>4. InLoop(loop, b) /\ born[b] # Nobody
    <2>1. InLoop(loop, b)
      BY <1>0 DEF InLoop
    <2> QED
      BY <1>2, <2>1 DEF RelayInv, BornInv, Held
  <1>5. /\ QueuesKeep(b) /\ BoxKeeps(inbox, b) /\ LoopMoves(n, l, b)
        /\ InLoop(loop', b) \/ (ToRelay(n, b) => Queued(n, b))
    BY <1>0, <1>1, <1>2, <1>3, BroadcastIs
  <1>6. TypeOK'
    BY <1>1, <1>5 DEF RelayInv, TypeOK, QueuesKeep, BoxKeeps, BoxOk, LoopMoves
  <1>7. TasksInv'
    BY <1>1, <1>5, RelayFacts DEF TasksInv, LoopMoves
  <1>8. LoopInv'
    <2> SUFFICES ASSUME NEW m \in Nodes, NEW k \in Links, NEW c \in Bundles,
                        loop'[m][k].bundle = c, Directed(c), RecipientOf[c] = m
                 PROVE  c \in ended
      BY <1>1 DEF LoopInv, Directed
    <2>1. loop[m][k].bundle = c \/ (m = n /\ loop[n][l].bundle = c)
      BY <1>0, <1>5 DEF LoopMoves
    <2> QED
      BY <2>1 DEF RelayInv, LoopInv
  <1>9. Moved(b, inbox)
    <2>1. Birth
      BY <1>1, NoBirth
    <2>2. \A c \in Bundles : InLoop(loop', c) => c = b \/ InLoop(loop, c)
      BY <1>5 DEF LoopMoves, InLoop
    <2>3. saved \in [Nodes -> SUBSET Bundles] /\ ended \subseteq Bundles
      BY DEF RelayInv, TypeOK
    <2> QED
      BY <1>1, <1>4, <1>5, <2>1, <2>2, <2>3 DEF Moved, LoopMoves
  <1>10. ASSUME Directed(b), ~Expired(b)
         PROVE  Alive(b)'
    <2>1. CASE RecipientOf[b] = n
      <3>1. b \in ended'
        BY <1>0, <1>1, <1>2, <1>10, <2>1 DEF RelayInv, LoopInv
      <3> QED
        BY <3>1 DEF Alive
    <2>2. CASE RecipientOf[b] # n
      <3>1. InLoop(loop', b) \/ Queued(n, b)
        BY <1>5, <1>10, <2>2 DEF ToRelay
      <3>2. Queued(n, b) => InSpare(queue', send', b)
        BY <1>1, <1>2, <1>5, <1>10, SpareKeeps
      <3> QED
        BY <3>1, <3>2 DEF Alive
    <2> QED
      BY <2>1, <2>2
  <1> QED
    BY <1>2, <1>4, <1>6, <1>7, <1>8, <1>9, <1>10, MovedKeeps

\* send_message either writes the bundle to a connection or queues it.
LEMMA TryRoutesIs ==
    ASSUME RelayInv, NEW n \in Nodes, NEW b \in Bundles, NEW routes,
           routes \subseteq up \cap Links, TryRoutes(n, b, routes)
    PROVE  /\ QueuesKeep(b) /\ BoxKeeps(inbox, b)
           /\ \E t : t.bundle \in {b, Nobody} /\ SendMoves(n, "api", t)
           /\ ended \subseteq ended' /\ ended' \subseteq Bundles
           /\ Directed(b) => b \in ended' \/ InBox(inbox', b) \/ Queued(n, b)
  <1>1. "api" \in Callers
    BY DEF Callers
  <1>2. CASE /\ queue' = [queue EXCEPT ![n] = Push(@, b)]
             /\ send' = [send EXCEPT ![n]["api"] = Idle]
             /\ inbox' = inbox /\ ended' = ended
    <2>1. QueuesKeep(b) /\ Queued(n, b)
      BY <1>2, PushStep
    <2>2. SendMoves(n, "api", Idle) /\ Idle.bundle \in {b, Nobody}
      BY <1>1, <1>2, TaskIs, SendSet
    <2>3. BoxKeeps(inbox, b) /\ ended \subseteq Bundles
      BY <1>2 DEF BoxKeeps, BoxOk, RelayInv, TypeOK
    <2> QED
      BY <1>2, <2>1, <2>2, <2>3
  <1>3. ASSUME NEW l \in routes, NEW waits \in BOOLEAN,
               SendTo(n, "api", b, l, routes \ {l}, waits), queue' = queue
        PROVE  /\ QueuesKeep(b) /\ BoxKeeps(inbox, b)
               /\ \E t : t.bundle \in {b, Nobody} /\ SendMoves(n, "api", t)
               /\ ended \subseteq ended' /\ ended' \subseteq Bundles
               /\ Directed(b) => b \in ended' \/ InBox(inbox', b)
    <2>1. l \in up \cap Links /\ routes \ {l} \in SUBSET Links
      OBVIOUS
    <2> DEFINE t == IF waits THEN Wait(b, l, routes \ {l}) ELSE Idle
    <2>2. /\ BoxKeeps(inbox, b) /\ SendMoves(n, "api", t)
          /\ ended \subseteq ended' /\ ended' \subseteq Bundles
          /\ Directed(b) => b \in ended' \/ InBox(inbox', b)
      BY <1>1, <1>3, <2>1, SendToIs
    <2>3. t.bundle \in {b, Nobody}
      BY <2>1, TaskIs
    <2> HIDE DEF t
    <2> QED
      BY <1>3, <2>2, <2>3, QueuesStay
  <1> QED
    BY <1>2, <1>3 DEF TryRoutes

\* What the rest of send_message comes to, for a bundle that is or was born.
LEMMA TriedKeeps ==
    ASSUME RelayInv, NEW n \in Nodes, NEW b \in Bundles, NEW routes,
           routes \subseteq up \cap Links, TryRoutes(n, b, routes),
           Birth, born'[b] # Nobody, \A c \in Bundles : c # b => born'[c] = born[c],
           up' = up, label' = label, loop' = loop, saved' = saved
    PROVE  Kept
  <1>1. /\ QueuesKeep(b) /\ BoxKeeps(inbox, b)
        /\ ended \subseteq ended' /\ ended' \subseteq Bundles
        /\ Directed(b) => b \in ended' \/ InBox(inbox', b) \/ Queued(n, b)
    BY TryRoutesIs
  <1>2. PICK t : t.bundle \in {b, Nobody} /\ SendMoves(n, "api", t)
    BY TryRoutesIs
  <1>3. TypeOK'
    BY <1>1, <1>2 DEF Birth, RelayInv, TypeOK, QueuesKeep, BoxKeeps, BoxOk, SendMoves
  <1>4. TasksInv'
    BY <1>2, RelayFacts DEF TasksInv, SendMoves
  <1>5. LoopInv'
    BY <1>1 DEF RelayInv, LoopInv, Directed
  <1>6. \A m \in Nodes : send'[m]["queue"] = send[m]["queue"]
    BY <1>2 DEF SendMoves, Callers
  <1>7. Moved(b, inbox)
    <2>1. ASSUME NEW c \in Bundles, InSend(send', c)
          PROVE  c = b \/ InSend(send, c)
      <3>1. PICK m \in Nodes, d \in Callers : send'[m][d].bundle = c
        BY <2>1 DEF InSend
      <3>2. send'[m][d] = t \/ send'[m][d] = send[m][d]
        BY <1>2 DEF SendMoves
      <3>3. c # Nobody
        BY RelayFacts
      <3> QED
        BY <1>2, <3>1, <3>2, <3>3 DEF InSend
    <2>2. saved \in [Nodes -> SUBSET Bundles]
      BY DEF RelayInv, TypeOK
    <2> QED
      BY <1>1, <1>6, <2>1, <2>2 DEF Moved
  <1>8. ASSUME Directed(b), born[b] # Nobody => ~Expired(b)
        PROVE  Alive(b)'
    <2>1. Queued(n, b) => InSpare(queue', send', b)
      BY <1>1, <1>6, <1>8, SpareKeeps
    <2> QED
      BY <1>1, <1>8, <2>1 DEF Alive
  <1> QED
    BY <1>3, <1>4, <1>5, <1>7, <1>8, MovedKeeps

LEMMA SendMessageKeeps ==
    ASSUME RelayInv, NEW n \in Nodes, NEW b \in Bundles, SendMessage(n, b)
    PROVE  Kept
  <1> DEFINE routes == Routes(n, RecipientOf[b])
  <1>1. /\ born[b] = Nobody /\ born' = [born EXCEPT ![b] = now] /\ TryRoutes(n, b, routes)
        /\ now' = now /\ up' = up /\ label' = label /\ loop' = loop /\ saved' = saved
    BY DEF SendMessage
  <1>2. routes \subseteq up \cap Links
    BY DEF Routes, Peers, LinksOf
  <1> HIDE DEF routes
  <1>3. now \in 0 .. MaxTime /\ now # Nobody /\ born \in [Bundles -> (0 .. MaxTime) \cup {Nobody}]
    BY RelayFacts DEF RelayInv, TypeOK, Dated
  <1>4. Birth /\ born'[b] # Nobody /\ \A c \in Bundles : c # b => born'[c] = born[c]
    BY <1>1, <1>3 DEF Birth
  <1> QED
    BY <1>1, <1>2, <1>4, TriedKeeps

\* The task of send_message, which no property but its type is about, ends.
LEMMA SendMessageGoesOnKeeps ==
    ASSUME RelayInv, NEW n \in Nodes, SendMessageGoesOn(n)
    PROVE  Kept
  <1>0. PICK task : task = send[n]["api"]
    OBVIOUS
  <1>1. /\ task # Idle /\ now' = now /\ born' = born /\ up' = up /\ label' = label
        /\ loop' = loop /\ saved' = saved
        /\ \/ send' = [send EXCEPT ![n]["api"] = Idle] /\ queue' = queue /\ inbox' = inbox
              /\ ended' = ended
           \/ TryRoutes(n, task.bundle, task.rest \cap up)
    BY <1>0 DEF SendMessageGoesOn, Resumes
  <1>2. Birth
    BY <1>1, NoBirth
  <1>3. "api" \in Callers
    BY DEF Callers
  <1>4. task.bundle \in Bundles /\ task.rest \cap up \subseteq up \cap Links
    BY <1>0, <1>1, <1>3, RelayFacts, TaskBundle
  <1>5. born[task.bundle] # Nobody
    <2>1. InSend(send, task.bundle)
      BY <1>0, <1>3 DEF InSend
    <2> QED
      BY <1>4, <2>1 DEF RelayInv, BornInv, Held
  <1>6. CASE TryRoutes(n, task.bundle, task.rest \cap up)
    BY <1>1, <1>2, <1>4, <1>5, <1>6, TriedKeeps
  <1>7. CASE /\ send' = [send EXCEPT ![n]["api"] = Idle] /\ queue' = queue /\ inbox' = inbox
             /\ ended' = ended
    <2> DEFINE b == task.bundle
    <2>1. SendMoves(n, "api", Idle)
      BY <1>3, <1>7, TaskIs, SendSet
    <2>2. TypeOK' /\ TasksInv' /\ LoopInv'
      <3>1. TypeOK'
        BY <1>1, <1>7, <2>1 DEF RelayInv, TypeOK, SendMoves
      <3>2. TasksInv'
        BY <1>1, <2>1, RelayFacts DEF TasksInv, SendMoves
      <3>3. LoopInv'
        BY <1>1, <1>7 DEF RelayInv, LoopInv, Directed
      <3> QED
        BY <3>1, <3>2, <3>3
    <2>3. \A m \in Nodes : send'[m]["queue"] = send[m]["queue"]
      BY <2>1 DEF SendMoves, Callers
    <2>4. \A c \in Bundles : InSend(send', c) => InSend(send, c)
      <3>1. \A m \in Nodes, d \in Callers : send'[m][d] = Idle \/ send'[m][d] = send[m][d]
        BY <2>1 DEF SendMoves
      <3>2. \A c \in Bundles : Idle.bundle # c
        BY RelayFacts, TaskIs
      <3> QED
        BY <3>1, <3>2 DEF InSend
    <2>5. QueuesKeep(b) /\ BoxKeeps(inbox, b)
      BY <1>7, <1>1, QueuesStay DEF BoxKeeps, BoxOk, RelayInv, TypeOK
    <2>6. Moved(b, inbox)
      BY <1>1, <1>2, <1>5, <1>7, <2>3, <2>4, <2>5 DEF Moved, RelayInv, TypeOK
    <2>7. ASSUME Directed(b), ~Expired(b)
          PROVE  Alive(b)'
      <3>1. Alive(b)
        BY <1>4, <1>5, <2>7 DEF RelayInv, AliveInv
      <3>2. InSpare(queue, send, b) => InSpare(queue', send', b)
        BY <1>4, <2>3, <2>5, SpareKeeps
      <3> QED
        BY <1>1, <1>7, <3>1, <3>2 DEF Alive
    <2> HIDE DEF b
    <2> QED
      BY <1>4, <1>5, <2>2, <2>6, <2>7, MovedKeeps DEF b
  <1> QED
    BY <1>1, <1>6, <1>7

LEMMA HandInKeeps ==
    ASSUME RelayInv, NEW l \in Links, NEW b \in Bundles, HandIn(l, b)
    PROVE  Kept
  <1>0. PICK n : n = l[2]
    OBVIOUS
  <1>1. /\ l \in up /\ n \in Nodes
        /\ born' = IF born[b] = Nobody THEN [born EXCEPT ![b] = now] ELSE born
        /\ inbox' = [inbox EXCEPT ![n][l] = Append(@, b)]
        /\ now' = now /\ queue' = queue /\ up' = up /\ label' = label /\ loop' = loop
        /\ send' = send /\ saved' = saved /\ ended' = ended
    BY <1>0, BundleRelayAssumption DEF HandIn
  <1>2. now \in 0 .. MaxTime /\ now # Nobody /\ born \in [Bundles -> (0 .. MaxTime) \cup {Nobody}]
    BY RelayFacts DEF RelayInv, TypeOK, Dated
  <1>3. Birth /\ born'[b] # Nobody /\ \A c \in Bundles : c # b => born'[c] = born[c]
    <2>1. CASE born[b] = Nobody
      BY <1>1, <1>2, <2>1 DEF Birth
    <2>2. CASE born[b] # Nobody
      BY <1>1, <1>2, <2>2 DEF Birth
    <2> QED
      BY <2>1, <2>2
  <1>4. BoxKeeps(inbox, b) /\ InBox(inbox', b)
    <2>1. inbox \in [Nodes -> [Links -> Seq(Bundles)]]
      BY DEF RelayInv, TypeOK
    <2> DEFINE s == Append(inbox[n][l], b)
    <2>2. /\ s \in Seq(Bundles) /\ b \in ToSet(s)
          /\ \A c \in ToSet(inbox[n][l]) : c \in ToSet(s)
          /\ \A c \in ToSet(s) : c = b \/ c \in ToSet(inbox[n][l])
      BY <1>1, <2>1, AppendedIs
    <2>3. inbox' = [inbox EXCEPT ![n][l] = s]
      BY <1>1
    <2> HIDE DEF s
    <2>4. inbox' \in [Nodes -> [Links -> Seq(Bundles)]]
      BY <1>1, <2>1, <2>2, <2>3
    <2>5. \A m \in Nodes, k \in Links :
            inbox'[m][k] = IF m = n /\ k = l THEN s ELSE inbox[m][k]
      BY <2>1, <2>3
    <2>6. BoxOk(inbox', up)
      BY <1>1, <2>4, <2>5 DEF BoxOk, RelayInv, TypeOK
    <2> QED
      BY <1>1, <2>2, <2>5, <2>6 DEF BoxKeeps, InBox
  <1>5. TypeOK' /\ TasksInv' /\ LoopInv'
    <2>1. TypeOK'
      BY <1>1, <1>3, <1>4 DEF Birth, RelayInv, TypeOK, BoxKeeps, BoxOk
    <2>2. TasksInv'
      BY <1>1 DEF RelayInv, TasksInv
    <2>3. LoopInv'
      BY <1>1, <1>4 DEF RelayInv, LoopInv, Directed
    <2> QED
      BY <2>1, <2>2, <2>3
  <1>6. Moved(b, inbox)
    BY <1>1, <1>3, <1>4, QueuesStay DEF Moved, RelayInv, TypeOK
  <1>7. Alive(b)'
    BY <1>4 DEF Alive
  <1> QED
    BY <1>3, <1>5, <1>6, <1>7, MovedKeeps

-----------------------------------------------------------------------------
(* Steps that take bundles from a queue *)

\* A queue is cut, and the task of _process_queue becomes t.  Whatever was spare
\* is ended, on a stream, or still spare.
LEMMA CutKeeps ==
    ASSUME RelayInv, NEW n \in Nodes, NEW s, Cut(queue[n], s), queue' = [queue EXCEPT ![n] = s],
           NEW t, SendMoves(n, "queue", t),
           \A c \in Bundles :
             t.bundle = c => Held(c) /\ (~Expired(c) => c \in ToSet(s)),
           \A c \in Bundles :
             Directed(c) /\ ~Expired(c) /\ Spare(queue[n], send[n]["queue"], c)
                 => c \in ended' \/ InBox(inbox', c) \/ Spare(s, t, c),
           BoxOk(inbox', up),
           \A c \in Bundles : InBox(inbox, c) => InBox(inbox', c),
           \A c \in Bundles : InBox(inbox', c) => Held(c),
           ended \subseteq ended', ended' \subseteq Bundles,
           now' = now, born' = born, up' = up, label' = label, loop' = loop, saved' = saved
    PROVE  Kept
  <1>1. /\ queue \in [Nodes -> Seq(Bundles)] /\ queue' \in [Nodes -> Seq(Bundles)]
        /\ queue'[n] = s /\ \A m \in Nodes : m # n => queue'[m] = queue[m]
    BY DEF RelayInv, TypeOK, Cut
  <1>2. Birth /\ \A m \in Nodes : Sorted(queue'[m])
    BY <1>1, NoBirth, RelayFacts DEF Cut
  <1>3. TypeOK'
    BY <1>1 DEF RelayInv, TypeOK, BoxOk, SendMoves
  <1>4. TasksInv'
    BY RelayFacts DEF TasksInv, SendMoves
  <1>5. LoopInv'
    BY DEF RelayInv, LoopInv, Directed
  <1>6. "queue" \in Callers /\ send'[n]["queue"] = t
    BY DEF SendMoves, Callers
  <1>7. \A m \in Nodes : m # n => send'[m]["queue"] = send[m]["queue"]
    BY <1>6 DEF SendMoves
  <1>8. ASSUME NEW c \in Bundles, Held(c)'
        PROVE  Held(c)
    <2>1. InQueue(queue', c) \/ InBox(inbox', c) \/ InLoop(loop, c) \/ InSend(send', c)
      BY <1>8 DEF Held
    <2>2. InQueue(queue', c) => InQueue(queue, c)
      BY <1>1 DEF InQueue, Cut
    <2>3. InSend(send', c) => t.bundle = c \/ InSend(send, c)
      BY DEF InSend, SendMoves
    <2> QED
      BY <2>1, <2>2, <2>3 DEF Held
  <1>9. ASSUME NEW m \in Nodes, NEW c \in Bundles,
               send'[m]["queue"].bundle = c, born[c] # Nobody => ~Expired(c)
        PROVE  c \in ToSet(queue'[m])
    <2>1. CASE m = n
      <3>1. born[c] # Nobody
        BY <1>6, <1>9, <2>1 DEF RelayInv, BornInv
      <3> QED
        BY <1>1, <1>6, <1>9, <2>1, <3>1
    <2>2. CASE m # n
      <3>1. send[m]["queue"].bundle = c /\ InSend(send, c)
        BY <1>6, <1>7, <1>9, <2>2 DEF InSend
      <3>2. ~Expired(c)
        BY <1>9, <3>1 DEF RelayInv, BornInv, Held
      <3> QED
        BY <1>1, <2>2, <3>1, <3>2 DEF RelayInv, QueueInv
    <2> QED
      BY <2>1, <2>2
  <1>10. ASSUME NEW c \in Bundles, Directed(c), ~Expired(c), Alive(c)
         PROVE  Alive(c)'
    <2>1. CASE InSpare(queue, send, c)
      <3>1. PICK m \in Nodes : Spare(queue[m], send[m]["queue"], c)
        BY <2>1 DEF InSpare
      <3>2. CASE m = n
        <4>1. c \in ended' \/ InBox(inbox', c) \/ Spare(queue'[n], send'[n]["queue"], c)
          BY <1>1, <1>6, <1>10, <3>1, <3>2
        <4> QED
          BY <4>1 DEF Alive, InSpare
      <3>3. CASE m # n
        <4>1. Spare(queue'[m], send'[m]["queue"], c)
          BY <1>1, <1>7, <3>1, <3>3
        <4> QED
          BY <4>1 DEF Alive, InSpare
      <3> QED
        BY <3>2, <3>3
    <2>2. CASE c \in ended \/ (RecipientOf[c] \in Nodes /\ c \in saved[RecipientOf[c]])
               \/ InBox(inbox, c) \/ InLoop(loop, c)
      <3>1. c \in ended' \/ (RecipientOf[c] \in Nodes /\ c \in saved'[RecipientOf[c]])
            \/ InBox(inbox', c) \/ InLoop(loop', c)
        BY <2>2
      <3> QED
        BY <3>1 DEF Alive
    <2> QED
      BY <1>10, <2>1, <2>2 DEF Alive
  <1> QED
    BY <1>2, <1>3, <1>4, <1>5, <1>8, <1>9, <1>10 DEF Kept

\* The expired bundles of a queue go: CleanupExpired, and _process_queue when the
\* first of the others has no route.
LEMMA ExpireKeeps ==
    ASSUME RelayInv, NEW n \in Nodes, queue' = [queue EXCEPT ![n] = Unexpired(queue[n])],
           now' = now, born' = born, up' = up, label' = label, inbox' = inbox, loop' = loop,
           send' = send, saved' = saved, ended' = ended
    PROVE  Kept
  <1> DEFINE s == Unexpired(queue[n])
             t == send[n]["queue"]
  <1>1. /\ Cut(queue[n], s)
        /\ \A c \in ToSet(queue[n]) : ~Expired(c) => c \in ToSet(s)
        /\ \A c \in Bundles : Two(queue[n], c) /\ ~Expired(c) => Two(s, c)
    BY RelayFacts, UnexpiredIs
  <1>2. SendMoves(n, "queue", t)
    BY RelayFacts DEF SendMoves, RelayInv, TypeOK
  <1>3. ASSUME NEW c \in Bundles, t.bundle = c
        PROVE  Held(c) /\ (~Expired(c) => c \in ToSet(s))
    <2>1. Held(c)
      BY <1>3 DEF Held, InSend, Callers
    <2>2. ~Expired(c) => c \in ToSet(queue[n])
      BY <1>3 DEF RelayInv, QueueInv
    <2> QED
      BY <1>1, <2>1, <2>2
  <1>4. \A c \in Bundles :
          Directed(c) /\ ~Expired(c) /\ Spare(queue[n], send[n]["queue"], c) => Spare(s, t, c)
    BY <1>1 DEF Spare
  <1>5. BoxOk(inbox', up) /\ ended \subseteq Bundles
    BY DEF BoxOk, RelayInv, TypeOK
  <1>6. \A c \in Bundles : InBox(inbox', c) => Held(c)
    BY DEF Held
  <1> HIDE DEF s, t
  <1>7. queue' = [queue EXCEPT ![n] = s]
    BY DEF s
  <1> QED
    BY <1>1, <1>2, <1>3, <1>4, <1>5, <1>6, <1>7, CutKeeps

LEMMA ProcessQueueKeeps ==
    ASSUME RelayInv, NEW n \in Nodes, ProcessQueue(n)
    PROVE  Kept
  <1>0. PICK q, routes : /\ q = Unexpired(queue[n])
                         /\ routes = IF q = << >> THEN {} ELSE Routes(n, RecipientOf[Head(q)])
    OBVIOUS
  <1>1. /\ send[n]["queue"] = Idle
        /\ \/ queue' = [queue EXCEPT ![n] = q] /\ inbox' = inbox /\ send' = send /\ ended' = ended
           \/ \E l \in routes, waits \in BOOLEAN :
                /\ SendTo(n, "queue", Head(q), l, {}, waits)
                /\ queue' = [queue EXCEPT ![n] = IF waits THEN q ELSE Tail(q)]
        /\ now' = now /\ born' = born /\ up' = up /\ label' = label /\ loop' = loop /\ saved' = saved
    BY <1>0 DEF ProcessQueue
  <1>2. CASE /\ queue' = [queue EXCEPT ![n] = q] /\ inbox' = inbox /\ send' = send
             /\ ended' = ended
    BY <1>0, <1>1, <1>2, ExpireKeeps
  <1>3. ASSUME NEW l \in routes, NEW waits \in BOOLEAN,
               SendTo(n, "queue", Head(q), l, {}, waits),
               queue' = [queue EXCEPT ![n] = IF waits THEN q ELSE Tail(q)]
        PROVE  Kept
    <2>1. PICK b, s : b = Head(q) /\ s = IF waits THEN q ELSE Tail(q)
      OBVIOUS
    <2>2. /\ Cut(queue[n], q)
          /\ \A c \in ToSet(queue[n]) : ~Expired(c) => c \in ToSet(q)
      BY <1>0, RelayFacts, UnexpiredIs
    <2>3. q # << >> /\ l \in up \cap Links
      BY <1>0 DEF Routes, Peers, LinksOf
    <2>4. /\ Cut(q, Tail(q)) /\ b \in ToSet(q) /\ b \in Bundles
          /\ \A c \in ToSet(q) : c # b => c \in ToSet(Tail(q))
      BY <2>1, <2>2, <2>3, PopIs DEF Cut
    <2>5. /\ Cut(queue[n], s)
          /\ \A c \in ToSet(q) : c # b => c \in ToSet(s)
          /\ waits => b \in ToSet(s)
      BY <2>1, <2>2, <2>4 DEF Cut
    <2>6. "queue" \in Callers /\ {} \in SUBSET Links
      BY DEF Callers
    <2> DEFINE t == IF waits THEN Wait(b, l, {}) ELSE Idle
    <2>7. /\ BoxKeeps(inbox, b) /\ SendMoves(n, "queue", t)
          /\ ended \subseteq ended' /\ ended' \subseteq Bundles
          /\ Directed(b) => b \in ended' \/ InBox(inbox', b)
      BY <1>3, <2>1, <2>3, <2>4, <2>6, SendToIs
    <2>8. (t.bundle = b /\ waits) \/ t.bundle = Nobody
      BY <2>3, <2>4, <2>6, TaskIs
    <2> HIDE DEF t
    <2>9. Held(b)
      BY <2>2, <2>4 DEF Held, InQueue, Cut
    <2>10. ASSUME NEW c \in Bundles, t.bundle = c
           PROVE  Held(c) /\ (~Expired(c) => c \in ToSet(s))
      <3>1. c = b /\ waits
        BY <2>8, <2>10, RelayFacts
      <3> QED
        BY <2>5, <2>9, <3>1
    <2>11. ASSUME NEW c \in Bundles, Directed(c), ~Expired(c), Spare(queue[n], send[n]["queue"], c)
           PROVE  c \in ended' \/ InBox(inbox', c) \/ Spare(s, t, c)
      <3>1. CASE c = b
        BY <2>7, <2>11, <3>1
      <3>2. CASE c # b
        <4>1. c \in ToSet(s)
          BY <2>2, <2>5, <2>11, <3>2 DEF Spare
        <4>2. t.bundle # c
          BY <2>8, <3>2, RelayFacts
        <4> QED
          BY <4>1, <4>2 DEF Spare
      <3> QED
        BY <3>1, <3>2
    <2>12. \A c \in Bundles : InBox(inbox', c) => Held(c)
      BY <2>7, <2>9 DEF BoxKeeps, Held
    <2>13. BoxOk(inbox', up) /\ \A c \in Bundles : InBox(inbox, c) => InBox(inbox', c)
      BY <2>7 DEF BoxKeeps
    <2>14. queue' = [queue EXCEPT ![n] = s]
      BY <1>3, <2>1
    <2> QED
      BY <1>1, <2>5, <2>7, <2>10, <2>11, <2>12, <2>13, <2>14, CutKeeps
  <1> QED
    BY <1>1, <1>2, <1>3

LEMMA SendReturnsKeeps ==
    ASSUME RelayInv, NEW n \in Nodes, SendReturns(n)
    PROVE  Kept
  <1>0. PICK task, popped, q :
            /\ task = send[n]["queue"] /\ q = queue[n]
            /\ popped = (task.on \in up /\ queue[n] # << >>)
    OBVIOUS
  <1>1. /\ send' = [send EXCEPT ![n]["queue"] = Idle]
        /\ queue' = IF popped THEN [queue EXCEPT ![n] = Tail(q)] ELSE queue
        /\ Ended(IF popped THEN {Head(q)} \ {task.bundle} ELSE {})
        /\ now' = now /\ born' = born /\ up' = up /\ label' = label /\ inbox' = inbox
        /\ loop' = loop /\ saved' = saved
    BY <1>0 DEF SendReturns
  <1>2. /\ q \in Seq(Bundles) /\ Sorted(q) /\ ended \subseteq Bundles
        /\ queue \in [Nodes -> Seq(Bundles)]
    BY <1>0, RelayFacts DEF RelayInv, TypeOK
  <1>3. /\ ended \subseteq ended' /\ ended' \subseteq Bundles
        /\ \A c \in Bundles : popped /\ c = Head(q) /\ c # task.bundle /\ Directed(c) => c \in ended'
    BY <1>1, <1>2 DEF Ended
  <1>4. "queue" \in Callers
    BY DEF Callers
  <1>5. SendMoves(n, "queue", Idle) /\ \A c \in Bundles : Idle.bundle # c
    BY <1>1, <1>4, SendSet, TaskIs, RelayFacts
  <1>6. PICK s : s = IF popped THEN Tail(q) ELSE q
    OBVIOUS
  <1>7. queue' = [queue EXCEPT ![n] = s]
    BY <1>0, <1>1, <1>2, <1>6
  <1>8. /\ Cut(q, s)
        /\ \A c \in ToSet(q) : c \in ToSet(s) \/ (popped /\ c = Head(q) /\ ~Two(q, c))
    <2>1. CASE popped
      <3>1. q # << >>
        BY <1>0, <2>1
      <3> QED
        BY <1>2, <1>6, <2>1, <3>1, PopIs
    <2>2. CASE ~popped
      BY <1>2, <1>6, <2>2 DEF Cut
    <2> QED
      BY <2>1, <2>2
  <1>9. ASSUME NEW c \in Bundles, Directed(c), Spare(q, task, c)
        PROVE  c \in ended' \/ Spare(s, Idle, c)
    <2>1. CASE c \in ToSet(s)
      BY <1>5, <2>1 DEF Spare
    <2>2. CASE popped /\ c = Head(q) /\ ~Two(q, c)
      BY <1>3, <1>9, <2>2 DEF Spare
    <2> QED
      BY <1>8, <1>9, <2>1, <2>2 DEF Spare
  <1>10. BoxOk(inbox', up) /\ \A c \in Bundles : InBox(inbox', c) => Held(c)
    BY <1>1 DEF BoxOk, RelayInv, TypeOK, Held
  <1> QED
    BY <1>0, <1>1, <1>3, <1>5, <1>7, <1>8, <1>9, <1>10, CutKeeps

-----------------------------------------------------------------------------
(* Connections, faults and time *)

LEMMA ConnectKeeps ==
    ASSUME RelayInv, NEW l \in Links, Connect(l)
    PROVE  Kept
  <1>1. /\ up' = up \cup {l} /\ now' = now /\ born' = born /\ queue' = queue /\ inbox' = inbox
        /\ loop' = loop /\ send' = send /\ saved' = saved /\ ended' = ended
        /\ DOMAIN label' = Nodes
    BY DEF Connect
  <1>2. TypeOK'
    BY <1>1 DEF RelayInv, TypeOK
  <1>3. TasksInv' /\ LoopInv'
    BY <1>1, RelayFacts DEF RelayInv, TasksInv, LoopInv, Directed
  <1>4. Birth /\ \A n \in Nodes : Sorted(queue'[n])
    BY <1>1, NoBirth, RelayFacts
  <1>5. \A b \in Bundles : Held(b)' => Held(b)
    BY <1>1 DEF Held
  <1>6. ASSUME NEW n \in Nodes, NEW b \in Bundles,
               send'[n]["queue"].bundle = b, born[b] # Nobody => ~Expired(b)
        PROVE  b \in ToSet(queue'[n])
    <2>1. send[n]["queue"].bundle = b /\ InSend(send, b)
      BY <1>1, <1>6 DEF InSend, Callers
    <2>2. ~Expired(b)
      BY <1>6, <2>1 DEF RelayInv, BornInv, Held
    <2> QED
      BY <1>1, <2>1, <2>2 DEF RelayInv, QueueInv
  <1>7. \A b \in Bundles : Alive(b) => Alive(b)'
    BY <1>1 DEF Alive
  <1> QED
    BY <1>1, <1>2, <1>3, <1>4, <1>5, <1>6, <1>7 DEF Kept

\* Of the bundles on the streams those on the closed connections go.
LEMMA ClosedIs ==
    ASSUME RelayInv, NEW ls, Closed(ls)
    PROVE  /\ up' \subseteq Links /\ DOMAIN label' = Nodes /\ BoxOk(inbox', up')
           /\ \A c \in Bundles : InBox(inbox', c) => InBox(inbox, c)
           /\ \A c \in Bundles : InBox(inbox, c) => InBox(inbox', c) \/ c \in UnderWay(ls)
  <1>1. /\ up' = up \ ls /\ DOMAIN label' = Nodes
        /\ inbox' = [n \in Nodes |-> [l \in Links |-> IF l \in ls THEN << >> ELSE inbox[n][l]]]
    BY DEF Closed
  <1>2. /\ up \subseteq Links /\ inbox \in [Nodes -> [Links -> Seq(Bundles)]]
        /\ \A n \in Nodes, l \in Links : inbox[n][l] # << >> => l \in up
    BY DEF RelayInv, TypeOK
  <1>3. << >> \in Seq(Bundles) /\ ToSet(<< >>) = {}
    BY DEF ToSet
  <1>4. \A n \in Nodes, l \in Links :
            inbox'[n][l] = IF l \in ls THEN << >> ELSE inbox[n][l]
    BY <1>1
  <1>5. BoxOk(inbox', up')
    <2>1. inbox' \in [Nodes -> [Links -> Seq(Bundles)]]
      BY <1>1, <1>2, <1>3
    <2> QED
      BY <1>1, <1>2, <1>4, <2>1 DEF BoxOk
  <1>6. ASSUME NEW c \in Bundles, InBox(inbox', c)
        PROVE  InBox(inbox, c)
    BY <1>3, <1>4, <1>6 DEF InBox
  <1>7. ASSUME NEW c \in Bundles, InBox(inbox, c)
        PROVE  InBox(inbox', c) \/ c \in UnderWay(ls)
    <2>1. PICK n \in Nodes, l \in Links : c \in ToSet(inbox[n][l])
      BY <1>7 DEF InBox
    <2>2. CASE l \in ls
      BY <2>1, <2>2 DEF UnderWay
    <2>3. CASE l \notin ls
      BY <1>4, <2>1, <2>3 DEF InBox
    <2> QED
      BY <2>2, <2>3
  <1> QED
    BY <1>1, <1>2, <1>5, <1>6, <1>7

\* Connections close, and perhaps a daemon stops: what was lost is ended.
LEMMA FaultKeeps ==
    ASSUME RelayInv, NEW ls, Closed(ls), NEW gone \in SUBSET Nodes,
           queue' \in [Nodes -> Seq(Bundles)],
           loop' \in [Nodes -> [Links -> Tasks]],
           send' \in [Nodes -> [Callers -> Tasks]],
           \A m \in gone : queue'[m] = << >>,
           \A m \in gone, k \in Links : loop'[m][k] = Idle,
           \A m \in gone, c \in Callers : send'[m][c] = Idle,
           \A m \in Nodes \ gone :
              queue'[m] = queue[m] /\ loop'[m] = loop[m] /\ send'[m] = send[m],
           ended \subseteq ended', ended' \subseteq Bundles,
           \A c \in Bundles : c \in UnderWay(ls) /\ Directed(c) => c \in ended',
           \A m \in gone, c \in Bundles :
              Directed(c) /\ (c \in ToSet(queue[m]) \/ \E k \in Links : loop[m][k].bundle = c)
                  => c \in ended',
           now' = now, born' = born, saved' = saved
    PROVE  Kept
  <1>1. /\ up' \subseteq Links /\ DOMAIN label' = Nodes /\ BoxOk(inbox', up')
        /\ \A c \in Bundles : InBox(inbox', c) => InBox(inbox, c)
        /\ \A c \in Bundles : InBox(inbox, c) => InBox(inbox', c) \/ c \in UnderWay(ls)
    BY ClosedIs
  <1>2. TypeOK'
    BY <1>1 DEF RelayInv, TypeOK, BoxOk
  <1>3. ToSet(<< >>) = {} /\ \A c \in Bundles : Idle.bundle # c
    BY TaskIs, RelayFacts DEF ToSet
  <1>4. TasksInv'
    <2>1. \A m \in Nodes, k \in Links : loop'[m][k] = Idle \/ loop'[m][k] = loop[m][k]
      OBVIOUS
    <2>2. \A m \in Nodes, c \in Callers : send'[m][c] = Idle \/ send'[m][c] = send[m][c]
      OBVIOUS
    <2>3. /\ \A m \in Nodes, k \in Links : TaskOk(loop[m][k])
          /\ \A m \in Nodes, c \in Callers : TaskOk(send[m][c])
      BY RelayFacts
    <2>4. TaskOk(Idle)
      BY TaskIs
    <2>5. \A m \in Nodes, k \in Links : TaskOk(loop'[m][k])
      BY <2>1, <2>3, <2>4
    <2>6. \A m \in Nodes, c \in Callers : TaskOk(send'[m][c])
      BY <2>2, <2>3, <2>4
    <2> QED
      BY <2>5, <2>6 DEF TasksInv, TaskOk
  <1>5. ASSUME NEW m \in Nodes, NEW k \in Links, NEW c \in Bundles, loop'[m][k].bundle = c
        PROVE  m \notin gone /\ loop[m][k].bundle = c
    BY <1>3, <1>5
  <1>6. ASSUME NEW m \in Nodes, NEW d \in Callers, NEW c \in Bundles, send'[m][d].bundle = c
        PROVE  m \notin gone /\ send[m][d].bundle = c
    BY <1>3, <1>6
  <1>7. LoopInv'
    BY <1>5 DEF LoopInv, RelayInv, Directed
  <1>8. Birth /\ \A m \in Nodes : Sorted(queue'[m])
    <2>1. Sorted(<< >>)
      BY DEF Sorted
    <2> QED
      BY <2>1, NoBirth, RelayFacts
  <1>9. ASSUME NEW c \in Bundles, Held(c)'
        PROVE  Held(c)
    <2>1. InQueue(queue', c) \/ InBox(inbox', c) \/ InLoop(loop', c) \/ InSend(send', c)
      BY <1>9 DEF Held
    <2>2. InQueue(queue', c) => InQueue(queue, c)
      BY <1>3 DEF InQueue
    <2>3. InLoop(loop', c) => InLoop(loop, c)
      BY <1>5 DEF InLoop
    <2>4. InSend(send', c) => InSend(send, c)
      BY <1>6 DEF InSend
    <2> QED
      BY <1>1, <2>1, <2>2, <2>3, <2>4 DEF Held
  <1>10. ASSUME NEW m \in Nodes, NEW c \in Bundles,
                send'[m]["queue"].bundle = c, born[c] # Nobody => ~Expired(c)
         PROVE  c \in ToSet(queue'[m])
    <2>1. "queue" \in Callers
      BY DEF Callers
    <2>2. m \notin gone /\ send[m]["queue"].bundle = c /\ InSend(send, c)
      BY <1>6, <1>10, <2>1 DEF InSend
    <2>3. ~Expired(c)
      BY <1>10, <2>2 DEF RelayInv, BornInv, Held
    <2> QED
      BY <2>2, <2>3 DEF RelayInv, QueueInv
  <1>11. ASSUME NEW c \in Bundles, Directed(c), Alive(c)
         PROVE  Alive(c)'
    <2>1. CASE InBox(inbox, c)
      <3>1. InBox(inbox', c) \/ c \in ended'
        BY <1>1, <1>11, <2>1
      <3> QED
        BY <3>1 DEF Alive
    <2>2. CASE InLoop(loop, c)
      <3>1. PICK m \in Nodes, k \in Links : loop[m][k].bundle = c
        BY <2>2 DEF InLoop
      <3>2. CASE m \in gone
        <4>1. c \in ended'
          BY <1>11, <3>1, <3>2
        <4> QED
          BY <4>1 DEF Alive
      <3>3. CASE m \notin gone
        <4>1. InLoop(loop', c)
          BY <3>1, <3>3 DEF InLoop
        <4> QED
          BY <4>1 DEF Alive
      <3> QED
        BY <3>2, <3>3
    <2>3. CASE InSpare(queue, send, c)
      <3>1. PICK m \in Nodes : Spare(queue[m], send[m]["queue"], c)
        BY <2>3 DEF InSpare
      <3>2. CASE m \in gone
        <4>1. c \in ended'
          BY <1>11, <3>1, <3>2 DEF Spare
        <4> QED
          BY <4>1 DEF Alive
      <3>3. CASE m \notin gone
        <4>1. InSpare(queue', send', c)
          BY <3>1, <3>3 DEF InSpare
        <4> QED
          BY <4>1 DEF Alive
      <3> QED
        BY <3>2, <3>3
    <2>4. CASE c \in ended \/ (RecipientOf[c] \in Nodes /\ c \in saved[RecipientOf[c]])
      <3>1. c \in ended' \/ (RecipientOf[c] \in Nodes /\ c \in saved'[RecipientOf[c]])
        BY <2>4
      <3> QED
        BY <3>1 DEF Alive
    <2> QED
      BY <1>11, <2>1, <2>2, <2>3, <2>4 DEF Alive
  <1> QED
    BY <1>2, <1>4, <1>7, <1>8, <1>9, <1>10, <1>11 DEF Kept

LEMMA DisconnectKeeps ==
    ASSUME RelayInv, NEW l \in Links, Disconnect(l)
    PROVE  Kept
  <1>1. /\ Closed({l}) /\ Ended(UnderWay({l})) /\ now' = now /\ born' = born /\ queue' = queue
        /\ loop' = loop /\ send' = send /\ saved' = saved
    BY DEF Disconnect
  <1>2. /\ queue \in [Nodes -> Seq(Bundles)] /\ loop \in [Nodes -> [Links -> Tasks]]
        /\ send \in [Nodes -> [Callers -> Tasks]] /\ ended \subseteq Bundles
    BY DEF RelayInv, TypeOK
  <1>3. /\ ended \subseteq ended' /\ ended' \subseteq Bundles
        /\ \A c \in Bundles : c \in UnderWay({l}) /\ Directed(c) => c \in ended'
    BY <1>1, <1>2 DEF Ended
  <1>4. {} \in SUBSET Nodes
    OBVIOUS
  <1> QED
    BY <1>1, <1>2, <1>3, <1>4, FaultKeeps

LEMMA RestartKeeps ==
    ASSUME RelayInv, NEW n \in Nodes, Restart(n)
    PROVE  Kept
  <1>0. PICK lost : lost = ToSet(queue[n]) \cup {send[n][c].bundle : c \in Callers}
                             \cup {loop[n][l].bundle : l \in Links}
    OBVIOUS
  <1>1. /\ Closed(Peers(n)) /\ now' = now /\ born' = born /\ saved' = saved
        /\ queue' = [queue EXCEPT ![n] = << >>]
        /\ loop' = [loop EXCEPT ![n] = [l \in Links |-> Idle]]
        /\ send' = [send EXCEPT ![n] = [c \in Callers |-> Idle]]
        /\ Ended(UnderWay(Peers(n)) \cup lost)
    <2>1. UnderWay(Peers(n)) \cup lost =
            UnderWay(Peers(n)) \cup ToSet(queue[n])
               \cup {send[n][c].bundle : c \in Callers} \cup {loop[n][l].bundle : l \in Links}
      BY <1>0
    <2> QED
      BY <2>1 DEF Restart
  <1>2. /\ queue \in [Nodes -> Seq(Bundles)] /\ loop \in [Nodes -> [Links -> Tasks]]
        /\ send \in [Nodes -> [Callers -> Tasks]] /\ ended \subseteq Bundles
    BY DEF RelayInv, TypeOK
  <1>3. << >> \in Seq(Bundles) /\ Idle \in Tasks
    BY TaskIs DEF TaskOk
  <1>4. /\ queue' \in [Nodes -> Seq(Bundles)] /\ loop' \in [Nodes -> [Links -> Tasks]]
        /\ send' \in [Nodes -> [Callers -> Tasks]]
    BY <1>1, <1>2, <1>3
  <1>5. /\ ended \subseteq ended' /\ ended' \subseteq Bundles
        /\ \A c \in Bundles : c \in UnderWay(Peers(n)) /\ Directed(c) => c \in ended'
        /\ \A c \in Bundles : c \in lost /\ Directed(c) => c \in ended'
    BY <1>1, <1>2 DEF Ended
  <1>6. \A c \in Bundles :
          c \in ToSet(queue[n]) \/ (\E k \in Links : loop[n][k].bundle = c) => c \in lost
    BY <1>0
  <1>7. {n} \in SUBSET Nodes
    OBVIOUS
  <1>8. /\ queue'[n] = << >> /\ \A k \in Links : loop'[n][k] = Idle
        /\ \A c \in Callers : send'[n][c] = Idle
        /\ \A m \in Nodes \ {n} :
              queue'[m] = queue[m] /\ loop'[m] = loop[m] /\ send'[m] = send[m]
    BY <1>1, <1>2
  <1>9. PICK gone \in SUBSET Nodes : gone = {n}
    BY <1>7
  <1>10. /\ \A m \in gone : queue'[m] = << >>
         /\ \A m \in gone, k \in Links : loop'[m][k] = Idle
         /\ \A m \in gone, c \in Callers : send'[m][c] = Idle
         /\ \A m \in Nodes \ gone :
               queue'[m] = queue[m] /\ loop'[m] = loop[m] /\ send'[m] = send[m]
         /\ \A m \in gone, c \in Bundles :
               Directed(c) /\ (c \in ToSet(queue[m]) \/ \E k \in Links : loop[m][k].bundle = c)
                   => c \in ended'
    BY <1>5, <1>6, <1>8, <1>9
  <1> QED
    BY <1>1, <1>4, <1>5, <1>10, FaultKeeps

\* Nothing comes to life again when time passes, and the order of bundles that
\* exist does not change.
LEMMA TimePassesKeeps ==
    ASSUME RelayInv, TimePasses
    PROVE  RelayInv'
  <1>1. /\ born' = born /\ queue' = queue /\ up' = up /\ label' = label /\ inbox' = inbox
        /\ loop' = loop /\ send' = send /\ saved' = saved /\ ended' = ended
        /\ now \in Nat /\ now' \in 0 .. MaxTime /\ now <= now'
    BY MaxTimeAssumption DEF TimePasses, Tick, RelayInv, TypeOK
  <1>2. \A b \in Bundles : born[b] # Nobody /\ Expired(b) => Expired(b)'
    <2>1. \A b \in Bundles : born[b] # Nobody => born[b] \in Nat
      BY RelayFacts DEF Dated
    <2>2. Ttl \in Nat /\ now' \in Nat
      BY <1>1, BundleRelayAssumption, MaxTimeAssumption
    <2> QED
      BY <1>1, <2>1, <2>2 DEF Expired
  <1>3. TypeOK' /\ TasksInv' /\ LoopInv'
    BY <1>1, RelayFacts DEF RelayInv, TypeOK, TasksInv, LoopInv, Directed
  <1>4. BornInv'
    BY <1>1 DEF RelayInv, BornInv, Held
  <1>5. QueueInv'
    <2> SUFFICES ASSUME NEW n \in Nodes, NEW b \in Bundles,
                        send[n]["queue"].bundle = b, ~Expired(b)'
                 PROVE  b \in ToSet(queue[n])
      BY <1>1 DEF QueueInv
    <2>1. born[b] # Nobody
      <3>1. InSend(send, b)
        BY DEF InSend, Callers
      <3> QED
        BY <3>1 DEF RelayInv, BornInv, Held
    <2> QED
      BY <1>2, <2>1 DEF RelayInv, QueueInv
  <1>6. RevocationsFirst'
    <2> SUFFICES ASSUME NEW n \in Nodes, NEW i \in DOMAIN queue[n], NEW j \in DOMAIN queue[n], i < j
                 PROVE  Before(queue[n][i], queue[n][j])'
      BY <1>1 DEF RevocationsFirst
    <2>1. Before(queue[n][i], queue[n][j])
      BY DEF RelayInv, RevocationsFirst
    <2>2. ASSUME NEW k \in DOMAIN queue[n]
          PROVE  queue[n][k] \in Bundles /\ born[queue[n][k]] # Nobody
      <3>1. queue[n][k] \in Bundles /\ queue[n][k] \in ToSet(queue[n])
        BY RelayFacts DEF ToSet
      <3> QED
        BY <3>1 DEF RelayInv, BornInv, Held, InQueue
    <2> QED
      BY <1>1, <2>1, <2>2 DEF Before, Created, Priority
  <1>7. AliveInv'
    <2>1. ASSUME NEW b \in Bundles, born[b] # Nobody, Directed(b), ~Expired(b)'
          PROVE  Alive(b)'
      <3>1. Alive(b)
        BY <1>2, <2>1 DEF RelayInv, AliveInv
      <3> QED
        BY <1>1, <3>1 DEF Alive
    <2> QED
      BY <1>1, <2>1 DEF AliveInv, Directed
  <1> QED
    BY <1>3, <1>4, <1>5, <1>6, <1>7 DEF RelayInv

-----------------------------------------------------------------------------
(* Theorems *)

LEMMA InitRelay ==
    ASSUME Init
    PROVE  RelayInv
  <1>1. /\ now \in 0 .. MaxTime /\ born = [b \in Bundles |-> Nobody]
        /\ queue = [n \in Nodes |-> << >>] /\ up = {} /\ DOMAIN label = Nodes
        /\ inbox = [n \in Nodes |-> [l \in Links |-> << >>]]
        /\ loop = [n \in Nodes |-> [l \in Links |-> Idle]]
        /\ send = [n \in Nodes |-> [c \in Callers |-> Idle]]
        /\ saved = [n \in Nodes |-> {}] /\ ended = {}
    BY MaxTimeAssumption DEF Init, ClockInit
  <1>2. TaskOk(Idle) /\ Idle \in Tasks /\ \A b \in Bundles : Idle.bundle # b
    BY TaskIs, BundleRelayAssumption DEF TaskOk
  <1>3. TypeOK
    BY <1>1, <1>2 DEF TypeOK
  <1>4. TasksInv /\ LoopInv /\ QueueInv
    <2>1. "queue" \in Callers
      BY DEF Callers
    <2> QED
      BY <1>1, <1>2, <2>1 DEF TasksInv, LoopInv, QueueInv
  <1>5. BornInv
    <2>1. ToSet(<< >>) = {}
      BY DEF ToSet
    <2> QED
      BY <1>1, <1>2, <2>1 DEF BornInv, Held, InQueue, InBox, InLoop, InSend
  <1>6. RevocationsFirst /\ AliveInv
    BY <1>1 DEF RevocationsFirst, AliveInv
  <1> QED
    BY <1>3, <1>4, <1>5, <1>6 DEF RelayInv

LEMMA StepRelay ==
    ASSUME RelayInv, [Next]_vars
    PROVE  RelayInv'
  <1>1. ASSUME NEW n \in Nodes, NEW l \in Links, Receive(n, l) \/ ResumeBroadcast(n, l)
        PROVE  RelayInv'
    BY <1>1, ReceiveKeeps, ResumeKeeps, KeptIs
  <1>2. ASSUME NEW n \in Nodes,
               ProcessQueue(n) \/ SendReturns(n) \/ CleanupExpired(n)
                 \/ SendMessageGoesOn(n) \/ Restart(n)
        PROVE  RelayInv'
    <2>1. CleanupExpired(n) => Kept
      BY ExpireKeeps DEF CleanupExpired
    <2> QED
      BY <1>2, <2>1, ProcessQueueKeeps, SendReturnsKeeps, SendMessageGoesOnKeeps, RestartKeeps,
         KeptIs
  <1>3. ASSUME NEW n \in Nodes, NEW b \in Bundles, SendMessage(n, b)
        PROVE  RelayInv'
    BY <1>3, SendMessageKeeps, KeptIs
  <1>4. ASSUME NEW l \in Links, Connect(l) \/ Disconnect(l) \/ \E b \in Bundles : HandIn(l, b)
        PROVE  RelayInv'
    BY <1>4, ConnectKeeps, DisconnectKeeps, HandInKeeps, KeptIs
  <1>5. CASE TimePasses
    BY <1>5, TimePassesKeeps
  <1>6. CASE UNCHANGED vars
    BY <1>6 DEF vars, RelayInv, TypeOK, TasksInv, BornInv, LoopInv, QueueInv, RevocationsFirst,
       AliveInv, Alive, Held, Expired, Directed, Before, Created, Priority
  <1> QED
    BY <1>1, <1>2, <1>3, <1>4, <1>5, <1>6 DEF Next, Handling, Sending, Surroundings

\* The inductive invariant: shapes, tasks, birth, loops, sorted queues, and
\* that no live directed bundle exists only as the copy about to be popped.
THEOREM RelayInvariant == Spec => []RelayInv
  BY InitRelay, StepRelay, PTL DEF Spec

\* Every variable has its type, and only open connections hold bundles.
THEOREM TypeCorrect == Spec => []TypeOK
  <1>1. RelayInv => TypeOK
    BY DEF RelayInv
  <1> QED
    BY <1>1, RelayInvariant, PTL

\* "Revocation events are top priority": whatever the order bundles come in, are
\* sent and expire, no queue holds one ahead of a bundle of higher priority or of
\* an older one of the same.
THEOREM RevocationsAhead == Spec => []RevocationsFirst
  <1>1. RelayInv => RevocationsFirst
    BY DEF RelayInv
  <1> QED
    BY <1>1, RelayInvariant, PTL

\* A directed bundle that has not expired is somewhere, or was lost to one of the
\* causes that `ended` names, in every network of daemons.
THEOREM NoneVanishes == Spec => []NothingVanishes
  <1>1. ASSUME RelayInv
        PROVE  NothingVanishes
    <2> SUFFICES ASSUME NEW b \in Bundles, born[b] # Nobody, Directed(b), ~Expired(b), b \notin ended
                 PROVE  \E n \in Nodes : Holds(n, b) \/ (RecipientOf[b] = n /\ b \in saved[n])
      BY DEF NothingVanishes
    <2>1. Alive(b)
      BY <1>1 DEF RelayInv, AliveInv
    <2> QED
      BY <2>1 DEF Alive, Holds, InBox, InLoop, InSpare, Spare
  <1> QED
    BY <1>1, RelayInvariant, PTL

=============================================================================
