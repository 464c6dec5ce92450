------------------------ MODULE FreeBlockQueueProofs ------------------------
(***************************************************************************)
(* The linked list of FreeKVCacheBlockQueue stays intact for every number  *)
(* of blocks.  Represents(q), existentially quantified in ListIntact, is   *)
(* the inductive invariant: it says what the pointers look like after any  *)
(* number of iterations of the two loops, so that no induction over the    *)
(* length of the list is needed.                                           *)
(***************************************************************************)
EXTENDS FreeBlockQueue, TLAPS

\* The inductive invariant.
Inv == TypeOK /\ ListIntact /\ NeverRaises

\* The position of the fake tail.
Last == ListLen + Linked + 1

\* The nodes of the represented list, fake ones included, are distinct nodes.
LEMMA AtInjective ==
    ASSUME TypeOK, NEW q \in [1 .. ListLen -> Blocks], Represents(q)
    PROVE  /\ ListLen \in Nat /\ Linked \in Nat
           /\ \A i \in 0 .. Last : At(q, i) \in Nodes
           /\ \A i \in 1 .. ListLen + Linked : At(q, i) \in Blocks
           /\ \A i, j \in 0 .. Last : At(q, i) = At(q, j) => i = j
<1>1. ListLen \in Nat /\ Linked \in Nat
  BY DEF TypeOK, ListLen, Linked, Represents
<1>2. \A i \in 1 .. ListLen : q[i] \in Blocks /\ q[i] \notin held
  BY <1>1 DEF Represents
<1>3. ASSUME NEW i \in 1 .. Linked
      PROVE  i \in DOMAIN arg /\ arg[i] \in Blocks /\ arg[i] \in held /\ pc = "append_n"
  BY <1>1, <1>3 DEF Linked, Represents, TypeOK
<1>4. \A i \in 1 .. ListLen + Linked : At(q, i) \in Blocks
  <2> TAKE i \in 1 .. ListLen + Linked
  <2>1. CASE i <= ListLen
    BY <2>1, <1>1, <1>2 DEF At
  <2>2. CASE ~(i <= ListLen)
    <3>1. i - ListLen \in 1 .. Linked
      BY <2>2, <1>1
    <3> QED
      BY <2>2, <3>1, <1>1, <1>3 DEF At
  <2> QED
    BY <2>1, <2>2
<1>5. At(q, 0) = FakeHead /\ At(q, Last) = FakeTail
  BY <1>1 DEF At, Last
<1>6. \A i \in 0 .. Last : At(q, i) \in Nodes
  BY <1>1, <1>4, <1>5 DEF Last, Nodes
<1>7. \A i, j \in 1 .. ListLen + Linked : At(q, i) = At(q, j) => i = j
  <2> SUFFICES ASSUME NEW i \in 1 .. ListLen + Linked,
                      NEW j \in 1 .. ListLen + Linked, At(q, i) = At(q, j)
               PROVE  i = j
    OBVIOUS
  <2>1. CASE i <= ListLen /\ j <= ListLen
    BY <2>1, <1>1 DEF At, Represents
  <2>2. CASE i <= ListLen /\ ~(j <= ListLen)
    <3>1. j - ListLen \in 1 .. Linked
      BY <2>2, <1>1
    <3> QED
      BY <2>2, <3>1, <1>1, <1>2, <1>3 DEF At
  <2>3. CASE ~(i <= ListLen) /\ j <= ListLen
    <3>1. i - ListLen \in 1 .. Linked
      BY <2>3, <1>1
    <3> QED
      BY <2>3, <3>1, <1>1, <1>2, <1>3 DEF At
  <2>4. CASE ~(i <= ListLen) /\ ~(j <= ListLen)
    <3>1. i - ListLen \in 1 .. Linked /\ j - ListLen \in 1 .. Linked
      BY <2>4, <1>1
    <3>2. arg[i - ListLen] = arg[j - ListLen]
      BY <2>4, <3>1, <1>1 DEF At
    <3>3. i - ListLen = j - ListLen
      BY <3>1, <3>2, <1>3 DEF Represents
    <3> QED
      BY <3>3, <1>1
  <2> QED
    BY <2>1, <2>2, <2>3, <2>4
<1>8. \A i, j \in 0 .. Last : At(q, i) = At(q, j) => i = j
  BY <1>1, <1>4, <1>5, <1>7, QueueAssumption DEF Last
<1> QED
  BY <1>1, <1>4, <1>6, <1>8

\* __init__ links the blocks in the order of their ids: the invariant holds for
\* the identity sequence, the empty list included.
THEOREM InitInv == Init => Inv
<1> SUFFICES ASSUME Init PROVE Inv
  OBVIOUS
<1> USE QueueAssumption DEF Init
<1>0. \A x \in Blocks : x # FakeHead /\ x # FakeTail /\ x \in Nat /\ x < N
  BY DEF Blocks
<1>a. /\ next[FakeHead] = (IF N > 0 THEN 0 ELSE FakeTail) /\ next[FakeTail] = None
      /\ \A x \in Blocks : next[x] = IF x < N - 1 THEN x + 1 ELSE FakeTail
  BY <1>0 DEF Nodes
<1>b. /\ prev[FakeTail] = (IF N > 0 THEN N - 1 ELSE FakeHead) /\ prev[FakeHead] = None
      /\ \A x \in Blocks : prev[x] = IF x > 0 THEN x - 1 ELSE FakeHead
  BY <1>0 DEF Nodes
<1>1. TypeOK
  <2>1. \A x \in Nodes : next[x] \in Nodes \cup {None}
    BY <1>a DEF Nodes, Blocks
  <2>2. \A x \in Nodes : prev[x] \in Nodes \cup {None}
    BY <1>b DEF Nodes, Blocks
  <2>3. next = [x \in Nodes |-> next[x]] /\ prev = [x \in Nodes |-> prev[x]]
    OBVIOUS
  <2>4. next \in [Nodes -> Nodes \cup {None}] /\ prev \in [Nodes -> Nodes \cup {None}]
    BY <2>1, <2>2, <2>3
  <2>5. /\ num_free_blocks \in Nat /\ todo \in Nat
        /\ pc \in {"idle", "popleft_n", "append_n"}
        /\ curr \in Nodes \cup {None}
    OBVIOUS
  <2>6. /\ ret \in Seq(Nodes) /\ arg \in Seq(Blocks) /\ moved \in Seq(Nodes)
        /\ held \subseteq Blocks
    OBVIOUS
  <2>7. raised \in BOOLEAN
    OBVIOUS
  <2> HIDE DEF Init
  <2> QED
    BY <2>4, <2>5, <2>6, <2>7 DEF TypeOK
<1>2. ListLen = N /\ Linked = 0
  BY DEF ListLen, Linked
<1> DEFINE q == [i \in 1 .. N |-> i - 1]
<1>3. q \in [1 .. ListLen -> Blocks]
  BY <1>2 DEF Blocks
<1>4. \A i \in 0 .. N + 1 : At(q, i) = IF i = 0 THEN FakeHead
                                       ELSE IF i <= N THEN i - 1 ELSE FakeTail
  BY <1>2 DEF At
<1>5. \A i \in 0 .. ListLen : Joined(q, i)
  <2> TAKE i \in 0 .. ListLen
  <2>1. At(q, i) \in Blocks \/ At(q, i) = FakeHead
    BY <1>2, <1>4 DEF Blocks
  <2>2. next[At(q, i)] = At(q, i + 1)
    BY <1>2, <1>4, <1>a DEF Blocks
  <2>3. prev[At(q, i + 1)] = At(q, i)
    <3>1. CASE i < N
      <4>1. At(q, i + 1) = i /\ i \in Blocks
        BY <3>1, <1>2, <1>4 DEF Blocks
      <4> QED
        BY <3>1, <4>1, <1>2, <1>4, <1>b
    <3>2. CASE i = N
      <4>1. At(q, i + 1) = FakeTail
        BY <3>2, <1>2, <1>4
      <4> QED
        BY <3>2, <4>1, <1>2, <1>4, <1>b
    <3> QED
      BY <3>1, <3>2, <1>2
  <2> QED
    BY <2>2, <2>3 DEF Joined
<1>6. {q[i] : i \in 1 .. N} = Blocks
  <2>1. \A b \in Blocks : b + 1 \in 1 .. N /\ q[b + 1] = b
    BY DEF Blocks
  <2> QED
    BY <2>1, <1>2, <1>3
<1>7. next[FakeTail] = None /\ prev[FakeHead] = None
  BY DEF Nodes
<1>8. Represents(q)
  <2> HIDE DEF q
  <2>1. \A i, j \in 1 .. ListLen : q[i] = q[j] => i = j
    BY <1>2 DEF q
  <2> QED
    BY <1>2, <1>5, <1>6, <1>7, <2>1 DEF Represents
<1>9. ListIntact
  BY <1>3, <1>8 DEF ListIntact
<1> QED
  BY <1>1, <1>9 DEF Inv, NeverRaises

\* Unlinking the k-th block, as popleft (k = 1) and remove do.
LEMMA Unlink ==
    ASSUME TypeOK, pc = "idle", UNCHANGED loop,
           NEW q \in [1 .. ListLen -> Blocks], Represents(q),
           NEW k \in 1 .. ListLen,
           next' = [next EXCEPT ![At(q, k - 1)] = At(q, k + 1), ![At(q, k)] = None],
           prev' = [prev EXCEPT ![At(q, k + 1)] = At(q, k - 1), ![At(q, k)] = None],
           num_free_blocks' = num_free_blocks - 1,
           held' = held \cup {q[k]}
    PROVE  ListIntact'
<1> DEFINE n == num_free_blocks
<1> SUFFICES ASSUME NEW q2, q2 = [i \in 1 .. n - 1 |-> IF i < k THEN q[i] ELSE q[i + 1]]
             PROVE  ListIntact'
  OBVIOUS
<1>1. /\ n \in Nat /\ ListLen = n /\ Linked = 0 /\ k \in 1 .. n
      /\ ListLen' = n - 1 /\ Linked' = 0 /\ pc' = "idle" /\ n - 1 \in Nat
  BY DEF TypeOK, ListLen, Linked, loop
<1>2. /\ \A i \in 0 .. n + 1 : At(q, i) \in Nodes
      /\ \A i, j \in 0 .. n + 1 : At(q, i) = At(q, j) => i = j
  BY <1>1, AtInjective DEF Last
<1>3. q2 \in [1 .. ListLen' -> Blocks]
  BY <1>1
<1>4. \A i \in 0 .. n : At(q2, i)' = IF i < k THEN At(q, i) ELSE At(q, i + 1)
  <2> TAKE i \in 0 .. n
  <2>1. At(q2, i)' = IF i = 0 THEN FakeHead ELSE IF i <= n - 1 THEN q2[i] ELSE FakeTail
    BY <1>1 DEF At
  <2>2. \A j \in 0 .. n + 1 : At(q, j) = IF j = 0 THEN FakeHead ELSE IF j <= n THEN q[j] ELSE FakeTail
    BY <1>1 DEF At
  <2> QED
    BY <1>1, <2>1, <2>2
<1>5. \A i \in 0 .. n - 1 : Joined(q2, i)'
  <2> TAKE i \in 0 .. n - 1
  <2>0. i \in 0 .. n /\ i + 1 \in 0 .. n /\ (i + 1) + 1 = i + 2
    BY <1>1
  <2>1. /\ At(q2, i)' = IF i < k THEN At(q, i) ELSE At(q, i + 1)
        /\ At(q2, i + 1)' = IF i + 1 < k THEN At(q, i + 1) ELSE At(q, i + 2)
    BY <2>0, <1>4
  <2>2. \A j \in 0 .. n : next[At(q, j)] = At(q, j + 1) /\ prev[At(q, j + 1)] = At(q, j)
    BY <1>1 DEF Represents, Joined
  <2>3. next \in [Nodes -> Nodes \cup {None}] /\ prev \in [Nodes -> Nodes \cup {None}]
    BY DEF TypeOK
  <2>4. CASE i < k - 1
    <3>1. At(q, i) # At(q, k - 1) /\ At(q, i) # At(q, k)
          /\ At(q, i + 1) # At(q, k + 1) /\ At(q, i + 1) # At(q, k)
      BY <2>4, <1>1, <1>2
    <3>2. At(q2, i)' = At(q, i) /\ At(q2, i + 1)' = At(q, i + 1)
      BY <2>1, <2>4, <1>1
    <3>3. At(q, i) \in Nodes /\ At(q, i + 1) \in Nodes
      BY <2>4, <1>1, <1>2
    <3> QED
      BY <3>1, <3>2, <3>3, <2>2, <2>3, <2>4, <1>1 DEF Joined
  <2>5. CASE i = k - 1
    <3>1. At(q, k - 1) # At(q, k) /\ At(q, k + 1) # At(q, k)
      BY <1>1, <1>2
    <3>2. At(q2, i)' = At(q, k - 1) /\ At(q2, i + 1)' = At(q, k + 1)
      BY <2>1, <2>5, <1>1
    <3>3. At(q, k - 1) \in Nodes /\ At(q, k + 1) \in Nodes
      BY <1>1, <1>2
    <3> QED
      BY <3>1, <3>2, <3>3, <2>3 DEF Joined
  <2>6. CASE i > k - 1
    <3>1. At(q, i + 1) # At(q, k - 1) /\ At(q, i + 1) # At(q, k)
          /\ At(q, i + 2) # At(q, k + 1) /\ At(q, i + 2) # At(q, k)
      BY <2>6, <1>1, <1>2
    <3>2. At(q2, i)' = At(q, i + 1) /\ At(q2, i + 1)' = At(q, i + 2)
      BY <2>1, <2>6, <1>1
    <3>3. At(q, i + 1) \in Nodes /\ At(q, i + 2) \in Nodes
      BY <2>6, <1>1, <1>2
    <3>4. next[At(q, i + 1)] = At(q, i + 2) /\ prev[At(q, i + 2)] = At(q, i + 1)
      BY <2>2, <2>6, <1>1
    <3> QED
      BY <3>1, <3>2, <3>3, <3>4, <2>3 DEF Joined
  <2> QED
    BY <2>4, <2>5, <2>6, <1>1
<1>6. {q2[i] : i \in 1 .. n - 1} = Blocks \ held'
  <2>1. {q[i] : i \in 1 .. n} = Blocks \ held /\ \A i, j \in 1 .. n : q[i] = q[j] => i = j
    BY <1>1 DEF Represents
  <2>2. ASSUME NEW b \in Blocks \ held' PROVE \E i \in 1 .. n - 1 : q2[i] = b
    <3>1. PICK j \in 1 .. n : q[j] = b
      BY <2>1
    <3>2. j # k
      BY <3>1
    <3>3. CASE j < k
      BY <3>1, <3>3, <1>1
    <3>4. CASE j > k
      <4>1. j - 1 \in 1 .. n - 1 /\ q2[j - 1] = q[j]
        BY <3>4, <1>1
      <4> QED
        BY <4>1, <3>1
    <3> QED
      BY <3>2, <3>3, <3>4, <1>1
  <2>3. ASSUME NEW i \in 1 .. n - 1 PROVE q2[i] \in Blocks \ held'
    <3>1. CASE i < k
      BY <3>1, <2>1, <1>1
    <3>2. CASE ~(i < k)
      BY <3>2, <2>1, <1>1
    <3> QED
      BY <3>1, <3>2
  <2> QED
    BY <2>2, <2>3
<1>7. \A i, j \in 1 .. n - 1 : q2[i] = q2[j] => i = j
  BY <1>1 DEF Represents
<1>8. next'[FakeTail] = None /\ prev'[FakeHead] = None
  <2>1. At(q, n + 1) = FakeTail /\ At(q, 0) = FakeHead
    BY <1>1 DEF At
  <2>2. At(q, k - 1) # At(q, n + 1) /\ At(q, k) # At(q, n + 1)
        /\ At(q, k + 1) # At(q, 0) /\ At(q, k) # At(q, 0)
    BY <1>1, <1>2
  <2> QED
    BY <2>1, <2>2 DEF Represents, TypeOK, Nodes
<1>9. Represents(q2)'
  BY <1>1, <1>5, <1>6, <1>7, <1>8 DEF Represents
<1> QED
  BY <1>3, <1>9 DEF ListIntact

\* popleft unlinks the first block and counts it.
LEMMA PopleftInv == Inv /\ Popleft => Inv'
<1> SUFFICES ASSUME Inv, Popleft PROVE Inv'
  OBVIOUS
<1> DEFINE n == num_free_blocks
<1>1. TypeOK /\ pc = "idle" /\ UNCHANGED loop /\ ~raised
  BY DEF Inv, Popleft, NeverRaises
<1>2. PICK q \in [1 .. ListLen -> Blocks] : Represents(q)
  BY DEF Inv, ListIntact
<1>3. n \in Nat /\ n > 0 /\ ListLen = n /\ Linked = 0
  BY <1>1 DEF TypeOK, ListLen, Linked, Popleft
<1>4. /\ At(q, 0) = FakeHead /\ At(q, 1) = q[1] /\ q[1] \in Blocks
      /\ At(q, 2) \in Nodes /\ At(q, 2) # None /\ At(q, 0) # At(q, 1)
  <2>1. At(q, 0) = FakeHead /\ At(q, 1) = q[1] /\ q[1] \in Blocks
    BY <1>3 DEF At
  <2>2. At(q, 2) \in Nodes /\ At(q, 0) # At(q, 1)
    BY <1>1, <1>2, <1>3, AtInjective DEF Last
  <2> QED
    BY <2>1, <2>2, QueueAssumption DEF Nodes
<1>5. next[FakeHead] = q[1] /\ next[q[1]] = At(q, 2)
  <2>1. Joined(q, 0) /\ Joined(q, 1)
    BY <1>1, <1>2, <1>3 DEF Represents
  <2> QED
    BY <2>1, <1>4 DEF Joined
<1>6. /\ next' = [next EXCEPT ![At(q, 0)] = At(q, 2), ![At(q, 1)] = None]
      /\ prev' = [prev EXCEPT ![At(q, 2)] = At(q, 0), ![At(q, 1)] = None]
      /\ num_free_blocks' = n - 1 /\ held' = held \cup {q[1]}
      /\ moved' = <<q[1]>> /\ raised' = raised
  BY <1>1, <1>4, <1>5, QueueAssumption DEF Popleft
<1>7. ListIntact'
  <2>1. 1 - 1 = 0 /\ 1 + 1 = 2 /\ 1 \in 1 .. ListLen
    BY <1>3
  <2>2. /\ next' = [next EXCEPT ![At(q, 1 - 1)] = At(q, 1 + 1), ![At(q, 1)] = None]
        /\ prev' = [prev EXCEPT ![At(q, 1 + 1)] = At(q, 1 - 1), ![At(q, 1)] = None]
    BY <2>1, <1>6
  <2> QED
    BY <2>1, <2>2, <1>1, <1>2, <1>6, Unlink
<1>8. TypeOK'
  BY <1>1, <1>3, <1>4, <1>6 DEF TypeOK, loop, Nodes
<1> QED
  BY <1>1, <1>6, <1>7, <1>8 DEF Inv, NeverRaises

\* remove unlinks a block from any place of the list.
LEMMA RemoveInv == ASSUME NEW b \in Blocks, Inv, Remove(b) PROVE Inv'
<1> DEFINE n == num_free_blocks
<1>1. TypeOK /\ pc = "idle" /\ UNCHANGED loop /\ ~raised /\ b \notin held
  BY DEF Inv, Remove, NeverRaises
<1>2. PICK q \in [1 .. ListLen -> Blocks] : Represents(q)
  BY DEF Inv, ListIntact
<1>3. n \in Nat /\ ListLen = n /\ Linked = 0
  BY <1>1 DEF TypeOK, ListLen, Linked
<1>4. PICK k \in 1 .. n : q[k] = b
  BY <1>1, <1>2, <1>3 DEF Represents
<1>5. /\ At(q, k) = b
      /\ At(q, k - 1) \in Nodes /\ At(q, k - 1) # None
      /\ At(q, k + 1) \in Nodes /\ At(q, k + 1) # None
  <2>1. At(q, k - 1) \in Nodes /\ At(q, k + 1) \in Nodes
    BY <1>1, <1>2, <1>3, AtInjective DEF Last
  <2> QED
    BY <2>1, <1>3, <1>4, QueueAssumption DEF Nodes, At
<1>6. prev[b] = At(q, k - 1) /\ next[b] = At(q, k + 1)
  <2>1. Joined(q, k - 1) /\ Joined(q, k)
    BY <1>1, <1>2, <1>3 DEF Represents
  <2> QED
    BY <2>1, <1>3, <1>5 DEF Joined
<1>7. /\ next' = [next EXCEPT ![At(q, k - 1)] = At(q, k + 1), ![At(q, k)] = None]
      /\ prev' = [prev EXCEPT ![At(q, k + 1)] = At(q, k - 1), ![At(q, k)] = None]
      /\ num_free_blocks' = n - 1 /\ held' = held \cup {q[k]}
      /\ moved' = <<b>> /\ raised' = raised
  BY <1>1, <1>4, <1>5, <1>6 DEF Remove
<1>8. ListIntact'
  BY <1>1, <1>2, <1>3, <1>7, Unlink
<1>9. TypeOK'
  <2>1. n - 1 \in Nat /\ b \in Nodes /\ held' \subseteq Blocks
    BY <1>1, <1>3, <1>4, <1>7 DEF Nodes, TypeOK
  <2>2. next' \in [Nodes -> Nodes \cup {None}] /\ prev' \in [Nodes -> Nodes \cup {None}]
    BY <1>1, <1>5, <1>7 DEF TypeOK
  <2>3. moved' \in Seq(Nodes)
    BY <2>1, <1>7
  <2> QED
    BY <2>1, <2>2, <2>3, <1>1, <1>7 DEF TypeOK, loop
<1> QED
  BY <1>1, <1>7, <1>8, <1>9 DEF Inv, NeverRaises

\* popleft_n counts the blocks before it takes them out.
LEMMA PopleftNBeginInv ==
    ASSUME NEW n \in 1 .. N, Inv, PopleftNBegin(n) PROVE Inv'
<1>1. TypeOK /\ pc = "idle" /\ ~raised /\ raised' = raised
  BY DEF Inv, PopleftNBegin, NeverRaises
<1>2. PICK q \in [1 .. ListLen -> Blocks] : Represents(q)
  BY DEF Inv, ListIntact
<1>3. /\ num_free_blocks \in Nat /\ num_free_blocks - n \in Nat
      /\ num_free_blocks' = num_free_blocks - n
      /\ pc' = "popleft_n" /\ ret' = <<>> /\ todo' = n /\ curr' = next[FakeHead]
      /\ UNCHANGED <<prev, next, arg, held, moved>>
  BY <1>1 DEF TypeOK, PopleftNBegin, client
<1>4. Len(ret') = 0
  BY <1>3
<1>5. ListLen = num_free_blocks /\ Linked = 0 /\ ListLen' = ListLen /\ Linked' = 0
  BY <1>1, <1>3, <1>4 DEF ListLen, Linked
<1>6. \A i \in 0 .. ListLen + 1 : At(q, i)' = At(q, i)
  BY <1>3, <1>5 DEF At
<1>7. /\ At(q, 0) = FakeHead /\ At(q, 1) \in Nodes
      /\ \A i \in 0 .. ListLen : Joined(q, i)
  BY <1>1, <1>2, <1>3, <1>5, AtInjective DEF Last, Represents, At
<1>8. curr' = At(q, 1) /\ \A i \in 1 .. ListLen : Joined(q, i)'
  <2>1. Joined(q, 0) /\ 0 + 1 = 1
    BY <1>3, <1>5, <1>7
  <2>2. curr' = At(q, 1)
    BY <2>1, <1>3, <1>7 DEF Joined
  <2>3. ASSUME NEW i \in 1 .. ListLen PROVE Joined(q, i)'
    <3>1. At(q, i)' = At(q, i) /\ At(q, i + 1)' = At(q, i + 1) /\ Joined(q, i)
      BY <1>3, <1>5, <1>6, <1>7
    <3> QED
      BY <3>1, <1>3 DEF Joined
  <2> QED
    BY <2>2, <2>3
<1>9. Represents(q)'
  BY <1>2, <1>3, <1>4, <1>5, <1>6, <1>8 DEF Represents
<1>10. ListIntact'
  BY <1>2, <1>5, <1>9 DEF ListIntact
<1>11. TypeOK'
  BY <1>1, <1>3, <1>6, <1>7, <1>8, <1>5 DEF TypeOK
<1> QED
  BY <1>1, <1>10, <1>11 DEF Inv, NeverRaises

\* An iteration of popleft_n cuts the first block off the rest of the chain.
LEMMA PopleftNStepInv == ASSUME Inv, PopleftNStep PROVE Inv'
<1> DEFINE k == Len(ret)
<1>1. TypeOK /\ pc = "popleft_n" /\ ~raised /\ todo > 0 /\ UNCHANGED client
  BY DEF Inv, PopleftNStep, NeverRaises
<1>2. PICK q \in [1 .. ListLen -> Blocks] : Represents(q)
  BY DEF Inv, ListIntact
<1>3. /\ k \in Nat /\ todo \in Nat /\ num_free_blocks \in Nat
      /\ ListLen = num_free_blocks + (k + todo) /\ Linked = 0 /\ k + 1 \in 1 .. ListLen
  BY <1>1 DEF TypeOK, ListLen, Linked
<1>4. /\ \A i \in 0 .. ListLen + 1 : At(q, i) \in Nodes
      /\ \A i, j \in 0 .. ListLen + 1 : At(q, i) = At(q, j) => i = j
  BY <1>1, <1>2, <1>3, AtInjective DEF Last
<1>5. curr = q[k + 1] /\ At(q, k + 1) = curr /\ curr \in Blocks /\ curr \in Nodes
      /\ curr # None
  BY <1>1, <1>2, <1>3, QueueAssumption DEF Represents, At, Nodes
<1>6. /\ ret' = Append(ret, curr) /\ curr' = next[curr] /\ todo' = todo - 1
      /\ prev' = [prev EXCEPT ![curr] = None] /\ next' = [next EXCEPT ![curr] = None]
      /\ UNCHANGED <<num_free_blocks, pc, arg, raised, held, moved>>
  BY <1>1, <1>5 DEF PopleftNStep, client
<1>7. /\ Len(ret') = k + 1 /\ todo' \in Nat /\ ListLen' = ListLen /\ Linked' = 0
      /\ \A i \in 1 .. k + 1 : ret'[i] = q[i]
  <2>1. ret \in Seq(Nodes) /\ \A i \in 1 .. k : ret[i] = q[i]
    BY <1>1, <1>2 DEF TypeOK, Represents
  <2>2. Len(ret') = k + 1 /\ \A i \in 1 .. k + 1 : ret'[i] = q[i]
    BY <2>1, <1>3, <1>5, <1>6
  <2> QED
    BY <2>2, <1>1, <1>3, <1>6 DEF ListLen, Linked
<1>8. \A i \in 0 .. ListLen + 1 : At(q, i)' = At(q, i)
  BY <1>3, <1>6, <1>7 DEF At
<1>9. \A i \in k + 1 .. ListLen : next[At(q, i)] = At(q, i + 1) /\ prev[At(q, i + 1)] = At(q, i)
  BY <1>1, <1>2 DEF Represents, Joined
<1>10. curr' = At(q, k + 2)
  BY <1>3, <1>5, <1>6, <1>9
<1>11. ASSUME NEW i \in k + 2 .. ListLen PROVE Joined(q, i)'
  <2>1. /\ At(q, i)' = At(q, i) /\ At(q, i + 1)' = At(q, i + 1)
        /\ At(q, i) # At(q, k + 1) /\ At(q, i + 1) # At(q, k + 1)
        /\ At(q, i) \in Nodes /\ At(q, i + 1) \in Nodes
    BY <1>3, <1>4, <1>8
  <2>2. next[At(q, i)] = At(q, i + 1) /\ prev[At(q, i + 1)] = At(q, i)
    BY <1>3, <1>9
  <2> QED
    BY <2>1, <2>2, <1>1, <1>5, <1>6 DEF Joined, TypeOK
<1>12. next'[FakeTail] = None /\ prev'[FakeHead] = None
  BY <1>1, <1>2, <1>5, <1>6, QueueAssumption DEF Represents, TypeOK, Nodes
<1>13. Represents(q)'
  <2>1. (k + 1) + 1 = k + 2 /\ k + 2 \in 0 .. ListLen + 1
    BY <1>3
  <2>2. curr' = At(q, Len(ret) + 1)'
    BY <2>1, <1>7, <1>8, <1>10
  <2> QED
    BY <2>1, <2>2, <1>1, <1>2, <1>6, <1>7, <1>11, <1>12 DEF Represents
<1>14. ListIntact'
  BY <1>2, <1>7, <1>13 DEF ListIntact
<1>15. TypeOK'
  <2>1. At(q, k + 2) \in Nodes
    BY <1>3, <1>4
  <2> QED
    BY <2>1, <1>1, <1>5, <1>6, <1>7, <1>10 DEF TypeOK
<1> QED
  BY <1>1, <1>6, <1>14, <1>15 DEF Inv, NeverRaises

\* The end of popleft_n joins the rest to the fake head, also when the rest is
\* only the fake tail.
LEMMA PopleftNEndInv == ASSUME Inv, PopleftNEnd PROVE Inv'
<1> DEFINE k == Len(ret)
           n == num_free_blocks
<1>1. TypeOK /\ pc = "popleft_n" /\ ~raised /\ todo = 0
  BY DEF Inv, PopleftNEnd, NeverRaises
<1>2. PICK q \in [1 .. ListLen -> Blocks] : Represents(q)
  BY DEF Inv, ListIntact
<1>3. k \in Nat /\ n \in Nat /\ ListLen = n + k /\ Linked = 0
  BY <1>1 DEF TypeOK, ListLen, Linked
<1>4. /\ \A i \in 0 .. n + k + 1 : At(q, i) \in Nodes
      /\ \A i, j \in 0 .. n + k + 1 : At(q, i) = At(q, j) => i = j
      /\ At(q, 0) = FakeHead /\ At(q, n + k + 1) = FakeTail
  BY <1>1, <1>2, <1>3, AtInjective DEF Last, At
<1>5. curr = At(q, k + 1) /\ curr \in Nodes /\ curr # None /\ curr # FakeHead
  <2>1. curr = At(q, k + 1)
    BY <1>1, <1>2 DEF Represents
  <2>2. curr \in Nodes /\ curr # FakeHead
    BY <2>1, <1>3, <1>4
  <2> QED
    BY <2>1, <2>2, QueueAssumption DEF Nodes
<1>6. /\ next' = [next EXCEPT ![FakeHead] = curr] /\ prev' = [prev EXCEPT ![curr] = FakeHead]
      /\ held' = held \cup Elems(ret) /\ moved' = ret /\ pc' = "idle"
      /\ curr' = None /\ ret' = <<>> /\ UNCHANGED <<num_free_blocks, arg, todo, raised>>
  BY <1>5 DEF PopleftNEnd
<1>7. ListLen' = n /\ Linked' = 0
  BY <1>3, <1>6 DEF ListLen, Linked
<1> SUFFICES ASSUME NEW q2, q2 = [i \in 1 .. n |-> q[i + k]] PROVE Inv'
  OBVIOUS
<1>8. q2 \in [1 .. ListLen' -> Blocks]
  BY <1>3, <1>7
<1>9. \A i \in 0 .. n + 1 : At(q2, i)' = IF i = 0 THEN FakeHead ELSE At(q, i + k)
  <2> TAKE i \in 0 .. n + 1
  <2>1. At(q2, i)' = IF i = 0 THEN FakeHead ELSE IF i <= n THEN q2[i] ELSE FakeTail
    BY <1>3, <1>7 DEF At
  <2>2. i # 0 => At(q, i + k) = IF i <= n THEN q[i + k] ELSE FakeTail
    BY <1>3 DEF At
  <2> QED
    BY <2>1, <2>2, <1>3
<1>10. \A i \in k + 1 .. n + k : next[At(q, i)] = At(q, i + 1) /\ prev[At(q, i + 1)] = At(q, i)
  BY <1>1, <1>2, <1>3 DEF Represents, Joined
<1>11. ASSUME NEW i \in 0 .. n PROVE Joined(q2, i)'
  <2>1. CASE i = 0
    <3>1. At(q2, 0)' = FakeHead /\ At(q2, 0 + 1)' = curr
      BY <1>3, <1>5, <1>9
    <3> QED
      BY <2>1, <3>1, <1>1, <1>5, <1>6 DEF Joined, TypeOK, Nodes
  <2>2. CASE i # 0
    <3>1. /\ At(q2, i)' = At(q, i + k) /\ At(q2, i + 1)' = At(q, (i + k) + 1)
          /\ i + k \in k + 1 .. n + k
      BY <2>2, <1>3, <1>9
    <3>2. /\ At(q, i + k) # FakeHead /\ At(q, (i + k) + 1) # curr
          /\ At(q, i + k) \in Nodes /\ At(q, (i + k) + 1) \in Nodes
      BY <2>2, <1>3, <1>4, <1>5
    <3>3. next[At(q, i + k)] = At(q, (i + k) + 1) /\ prev[At(q, (i + k) + 1)] = At(q, i + k)
      BY <3>1, <1>10
    <3> QED
      BY <3>1, <3>2, <3>3, <1>1, <1>6 DEF Joined, TypeOK
  <2> QED
    BY <2>1, <2>2
<1>12. \A i, j \in 1 .. n : q2[i] = q2[j] => i = j
  <2>1. \A i, j \in 1 .. n + k : q[i] = q[j] => i = j
    BY <1>2, <1>3 DEF Represents
  <2> QED
    BY <2>1, <1>3
<1>13. {q2[i] : i \in 1 .. n} = Blocks \ held'
  <2>1. {q[i] : i \in 1 .. n + k} = Blocks \ held /\ \A i, j \in 1 .. n + k : q[i] = q[j] => i = j
    BY <1>2, <1>3 DEF Represents
  <2>2. DOMAIN ret = 1 .. k /\ \A i \in 1 .. k : ret[i] = q[i]
    BY <1>1, <1>2 DEF Represents, TypeOK
  <2>3. ASSUME NEW b \in Blocks \ held' PROVE \E i \in 1 .. n : q2[i] = b
    <3>1. PICK j \in 1 .. n + k : q[j] = b
      BY <2>1, <1>6
    <3>2. ~(j <= k)
      BY <3>1, <2>2, <1>3, <1>6 DEF Elems
    <3>3. j - k \in 1 .. n /\ q2[j - k] = q[j]
      BY <3>2, <1>3
    <3> QED
      BY <3>1, <3>3
  <2>4. ASSUME NEW i \in 1 .. n PROVE q2[i] \in Blocks \ held'
    <3>1. q2[i] = q[i + k] /\ i + k \in 1 .. n + k /\ i + k \notin 1 .. k
      BY <1>3
    <3>2. q2[i] \in Blocks \ held
      BY <3>1, <2>1
    <3>3. q2[i] \notin Elems(ret)
      BY <3>1, <2>1, <2>2, <1>3 DEF Elems
    <3> QED
      BY <3>2, <3>3, <1>6
  <2> QED
    BY <2>3, <2>4
<1>14. next'[FakeTail] = None /\ prev'[FakeHead] = None
  BY <1>1, <1>2, <1>5, <1>6, QueueAssumption DEF Represents, TypeOK, Nodes
<1>15. ListIntact'
  <2>1. Represents(q2)'
    BY <1>6, <1>7, <1>11, <1>12, <1>13, <1>14 DEF Represents
  <2> QED
    BY <2>1, <1>8 DEF ListIntact
<1>16. TypeOK'
  <2>1. next' \in [Nodes -> Nodes \cup {None}] /\ prev' \in [Nodes -> Nodes \cup {None}]
    BY <1>1, <1>5, <1>6 DEF TypeOK, Nodes
  <2>2. Elems(ret) \subseteq Blocks
    <3>1. DOMAIN ret = 1 .. k /\ \A i \in 1 .. k : ret[i] = q[i] /\ q[i] \in Blocks
      BY <1>1, <1>2, <1>3 DEF Represents, TypeOK
    <3> QED
      BY <3>1 DEF Elems
  <2> QED
    BY <2>1, <2>2, <1>1, <1>6 DEF TypeOK
<1> QED
  BY <1>1, <1>6, <1>15, <1>16 DEF Inv, NeverRaises

\* append links a block between the last one and the fake tail.
LEMMA AppendOneInv == ASSUME NEW b \in Blocks, Inv, AppendOne(b) PROVE Inv'
<1> DEFINE n == num_free_blocks
<1>1. TypeOK /\ pc = "idle" /\ ~raised /\ b \in held /\ UNCHANGED loop
  BY DEF Inv, AppendOne, NeverRaises
<1>2. PICK q \in [1 .. ListLen -> Blocks] : Represents(q)
  BY DEF Inv, ListIntact
<1>3. n \in Nat /\ ListLen = n /\ Linked = 0
  BY <1>1 DEF TypeOK, ListLen, Linked
<1>4. /\ \A i \in 0 .. n + 1 : At(q, i) \in Nodes
      /\ \A i, j \in 0 .. n + 1 : At(q, i) = At(q, j) => i = j
      /\ At(q, 0) = FakeHead /\ At(q, n + 1) = FakeTail
  BY <1>1, <1>2, <1>3, AtInjective DEF Last, At
<1>5. \A i \in 0 .. n : next[At(q, i)] = At(q, i + 1) /\ prev[At(q, i + 1)] = At(q, i)
  BY <1>1, <1>2, <1>3 DEF Represents, Joined
<1>6. prev[FakeTail] = At(q, n) /\ At(q, n) \in Nodes /\ At(q, n) # None /\ b \in Nodes
  BY <1>3, <1>4, <1>5, QueueAssumption DEF Nodes
<1>7. /\ next' = [next EXCEPT ![At(q, n)] = b, ![b] = FakeTail]
      /\ prev' = [prev EXCEPT ![b] = At(q, n), ![FakeTail] = b]
      /\ num_free_blocks' = n + 1 /\ held' = held \ {b} /\ moved' = <<b>>
      /\ raised' = raised
  BY <1>6 DEF AppendOne
<1>8. ListLen' = n + 1 /\ Linked' = 0 /\ pc' = "idle"
  BY <1>1, <1>7 DEF ListLen, Linked, loop
<1>9. \A i \in 0 .. n + 1 : At(q, i) # b
  BY <1>1, <1>2, <1>3, QueueAssumption DEF At, Represents
<1> SUFFICES ASSUME NEW q2, q2 = [i \in 1 .. n + 1 |-> IF i <= n THEN q[i] ELSE b] PROVE Inv'
  OBVIOUS
<1>10. q2 \in [1 .. ListLen' -> Blocks]
  BY <1>3, <1>8
<1>11. \A i \in 0 .. n + 2 : At(q2, i)' = IF i <= n THEN At(q, i)
                                           ELSE IF i = n + 1 THEN b ELSE FakeTail
  BY <1>3, <1>8 DEF At
<1>12. ASSUME NEW i \in 0 .. n + 1 PROVE Joined(q2, i)'
  <2>1. CASE i < n
    <3>1. /\ At(q2, i)' = At(q, i) /\ At(q2, i + 1)' = At(q, i + 1)
          /\ At(q, i) # At(q, n) /\ At(q, i + 1) # At(q, n + 1)
          /\ At(q, i) \in Nodes /\ At(q, i + 1) \in Nodes
          /\ At(q, i) # b /\ At(q, i + 1) # b
      BY <2>1, <1>3, <1>4, <1>9, <1>11
    <3>2. next[At(q, i)] = At(q, i + 1) /\ prev[At(q, i + 1)] = At(q, i)
      BY <2>1, <1>3, <1>5
    <3> QED
      BY <3>1, <3>2, <1>1, <1>4, <1>7 DEF Joined, TypeOK
  <2>2. CASE i = n
    <3>1. At(q2, i)' = At(q, n) /\ At(q2, i + 1)' = b /\ At(q, n) # b /\ b # FakeTail
      BY <2>2, <1>3, <1>9, <1>11, QueueAssumption
    <3> QED
      BY <3>1, <1>1, <1>6, <1>7 DEF Joined, TypeOK, Nodes
  <2>3. CASE i = n + 1
    <3>1. At(q2, i)' = b /\ At(q2, i + 1)' = FakeTail
      BY <2>3, <1>3, <1>11
    <3> QED
      BY <3>1, <1>1, <1>6, <1>7 DEF Joined, TypeOK, Nodes
  <2> QED
    BY <2>1, <2>2, <2>3, <1>3
<1>13. \A i, j \in 1 .. n + 1 : q2[i] = q2[j] => i = j
  <2>1. /\ \A i, j \in 1 .. n : q[i] = q[j] => i = j
        /\ \A i \in 1 .. n : q[i] # b
    BY <1>1, <1>2, <1>3 DEF Represents
  <2> QED
    BY <2>1, <1>3
<1>14. {q2[i] : i \in 1 .. n + 1} = Blocks \ held'
  <2>1. {q[i] : i \in 1 .. n} = Blocks \ held
    BY <1>2, <1>3 DEF Represents
  <2>2. \A i \in 1 .. n : q2[i] = q[i] /\ i \in 1 .. n + 1
    BY <1>3
  <2>3. q2[n + 1] = b /\ n + 1 \in 1 .. n + 1 /\ \A i \in 1 .. n + 1 : i \in 1 .. n \/ i = n + 1
    BY <1>3
  <2>4. held' = held \ {b}
    BY <1>7
  <2> QED
    BY <2>1, <2>2, <2>3, <2>4, <1>1
<1>15. next'[FakeTail] = None /\ prev'[FakeHead] = None
  <2>1. At(q, n) # FakeTail /\ b # FakeTail /\ b # FakeHead
    BY <1>3, <1>4, QueueAssumption
  <2> QED
    BY <2>1, <1>1, <1>2, <1>7, QueueAssumption DEF Represents, TypeOK, Nodes
<1>16. ListIntact'
  <2>1. Represents(q2)'
    BY <1>8, <1>12, <1>13, <1>14, <1>15 DEF Represents
  <2> QED
    BY <2>1, <1>10 DEF ListIntact
<1>17. TypeOK'
  <2>1. next' \in [Nodes -> Nodes \cup {None}] /\ prev' \in [Nodes -> Nodes \cup {None}]
    BY <1>1, <1>6, <1>7 DEF TypeOK, Nodes
  <2>2. moved' \in Seq(Nodes)
    BY <1>6, <1>7
  <2>3. num_free_blocks' \in Nat /\ held' \subseteq Blocks /\ raised' \in BOOLEAN
    BY <1>1, <1>3, <1>7 DEF TypeOK
  <2> QED
    BY <2>1, <2>2, <2>3, <1>1 DEF TypeOK, loop
<1> QED
  BY <1>1, <1>7, <1>16, <1>17 DEF Inv, NeverRaises

\* append_n starts from the last node of the list.
LEMMA AppendNBeginInv ==
    ASSUME NEW bs \in Distinct(held), Inv, AppendNBegin(bs) PROVE Inv'
<1> DEFINE n == num_free_blocks
<1>1. TypeOK /\ pc = "idle" /\ ~raised /\ UNCHANGED <<list, client>>
  BY DEF Inv, AppendNBegin, NeverRaises
<1>2. PICK q \in [1 .. ListLen -> Blocks] : Represents(q)
  BY DEF Inv, ListIntact
<1>3. n \in Nat /\ ListLen = n /\ Linked = 0
  BY <1>1 DEF TypeOK, ListLen, Linked
<1>4. /\ \A i \in 0 .. n + 1 : At(q, i) \in Nodes
      /\ At(q, n + 1) = FakeTail
  BY <1>1, <1>2, <1>3, AtInjective DEF Last, At
<1>5. \A i \in 0 .. n : next[At(q, i)] = At(q, i + 1) /\ prev[At(q, i + 1)] = At(q, i)
  BY <1>1, <1>2, <1>3 DEF Represents, Joined
<1>6. prev[FakeTail] = At(q, n) /\ At(q, n) \in Nodes /\ At(q, n) # None
  BY <1>3, <1>4, <1>5, QueueAssumption DEF Nodes
<1>7. /\ pc' = "append_n" /\ curr' = At(q, n) /\ arg' = bs /\ todo' = Len(bs)
      /\ UNCHANGED <<ret, raised, prev, next, num_free_blocks, held, moved>>
  BY <1>1, <1>6 DEF AppendNBegin, list, client
<1>8. /\ bs \in Seq(Blocks) /\ Len(bs) \in Nat /\ \A i \in DOMAIN bs : bs[i] \in held
      /\ \A i, j \in DOMAIN bs : bs[i] = bs[j] => i = j
  <2>1. PICK m : bs \in [1 .. m -> held] /\ m \in 1 .. Cardinality(held)
    BY DEF Distinct
  <2>2. m \in Nat
    BY <2>1
  <2>3. bs \in Seq(Blocks)
    BY <2>1, <2>2, <1>1 DEF TypeOK
  <2> QED
    BY <2>1, <2>3 DEF Distinct
<1>9. ListLen' = n /\ Linked' = 0
  <2>1. Len(arg') - todo' = 0
    BY <1>7, <1>8
  <2> QED
    BY <2>1, <1>3, <1>7 DEF ListLen, Linked
<1>10. \A i \in 0 .. n + 1 : At(q, i)' = At(q, i)
  BY <1>3, <1>9 DEF At
<1>11. ASSUME NEW i \in 0 .. n - 1 PROVE Joined(q, i)'
  <2>1. At(q, i)' = At(q, i) /\ At(q, i + 1)' = At(q, i + 1)
    BY <1>3, <1>10
  <2> QED
    BY <2>1, <1>3, <1>5, <1>7 DEF Joined
<1>12. Represents(q)'
  <2>1. n + 0 = n /\ n \in 0 .. n + 1 /\ (n + 0) - 1 = n - 1
    BY <1>3
  <2>2. curr' = At(q, ListLen + Linked)'
    BY <2>1, <1>7, <1>9, <1>10
  <2>3. \A i \in 0 .. (ListLen + Linked - 1)' : Joined(q, i)'
    BY <2>1, <1>9, <1>11
  <2>4. (todo <= Len(arg))'
    BY <1>7, <1>8
  <2> QED
    BY <2>2, <2>3, <2>4, <1>2, <1>3, <1>7, <1>8, <1>9 DEF Represents
<1>13. ListIntact'
  BY <1>2, <1>3, <1>9, <1>12 DEF ListIntact
<1>14. TypeOK'
  BY <1>1, <1>6, <1>7, <1>8 DEF TypeOK
<1> QED
  BY <1>1, <1>7, <1>13, <1>14 DEF Inv, NeverRaises

\* An iteration of append_n hangs the next block behind the chain.
LEMMA AppendNStepInv == ASSUME Inv, AppendNStep PROVE Inv'
<1> SUFFICES ASSUME NEW n, n = num_free_blocks, NEW k, k = Linked PROVE Inv'
  OBVIOUS
<1>1. TypeOK /\ pc = "append_n" /\ ~raised /\ todo > 0
  BY DEF Inv, AppendNStep, NeverRaises
<1>2. PICK q \in [1 .. ListLen -> Blocks] : Represents(q)
  BY DEF Inv, ListIntact
<1>3. /\ n \in Nat /\ ListLen = n /\ Linked = Len(arg) - todo /\ k \in Nat
      /\ Len(arg) - todo + 1 = k + 1 /\ k + 1 \in DOMAIN arg /\ todo - 1 \in Nat
  BY <1>1, <1>2 DEF TypeOK, ListLen, Linked, Represents
<1>4. /\ \A i \in 0 .. n + k + 1 : At(q, i) \in Nodes
      /\ \A i, j \in 0 .. n + k + 1 : At(q, i) = At(q, j) => i = j
      /\ At(q, n + k + 1) = FakeTail
  <2>1. Last = n + k + 1
    BY <1>3 DEF Last
  <2>2. At(q, n + k + 1) = FakeTail
    BY <1>3 DEF At
  <2> QED
    BY <2>1, <2>2, <1>1, <1>2, <1>3, AtInjective
<1>5. curr = At(q, n + k)
  BY <1>1, <1>2, <1>3 DEF Represents
<1>6. \A i \in 0 .. n + k - 1 : next[At(q, i)] = At(q, i + 1) /\ prev[At(q, i + 1)] = At(q, i)
  BY <1>1, <1>2, <1>3 DEF Represents, Joined
<1> SUFFICES ASSUME NEW b, b = arg[k + 1] PROVE Inv'
  OBVIOUS
<1>7. b \in Blocks /\ b \in Nodes /\ b \in held /\ b # FakeHead /\ b # FakeTail
  BY <1>1, <1>2, <1>3, QueueAssumption DEF TypeOK, Represents, Nodes
<1>8. /\ prev' = [prev EXCEPT ![b] = curr] /\ next' = [next EXCEPT ![curr] = b]
      /\ curr' = b /\ todo' = todo - 1
      /\ UNCHANGED <<num_free_blocks, pc, ret, arg, held, moved, raised>>
  BY <1>3 DEF AppendNStep, client
<1>9. ListLen' = n /\ Linked' = k + 1
  BY <1>1, <1>3, <1>8 DEF ListLen, Linked, TypeOK
<1>10. ASSUME NEW i \in 0 .. n + k PROVE At(q, i)' = At(q, i) /\ At(q, i) # b
  <2>1. At(q, i)' = At(q, i)
    BY <1>3, <1>8, <1>9 DEF At
  <2>2. At(q, i) # b
    <3>1. CASE i = 0
      BY <3>1, <1>7 DEF At
    <3>2. CASE i \in 1 .. n
      BY <3>2, <1>2, <1>3, <1>7 DEF At, Represents
    <3>3. CASE i \in n + 1 .. n + k
      <4>1. i - n \in DOMAIN arg /\ i - n # k + 1 /\ At(q, i) = arg[i - n]
        BY <3>3, <1>1, <1>3 DEF At, TypeOK
      <4> QED
        BY <4>1, <1>1, <1>2, <1>3 DEF Represents
    <3> QED
      BY <3>1, <3>2, <3>3, <1>3
  <2> QED
    BY <2>1, <2>2
<1>11. At(q, n + k + 1)' = b
  <2>1. (n + k + 1) - n = k + 1
    BY <1>3
  <2> QED
    BY <2>1, <1>3, <1>8, <1>9 DEF At
<1>12. ASSUME NEW i \in 0 .. n + k PROVE Joined(q, i)'
  <2>1. CASE i < n + k
    <3>1. /\ At(q, i)' = At(q, i) /\ At(q, i + 1)' = At(q, i + 1)
          /\ At(q, i) # curr /\ At(q, i + 1) # b
          /\ At(q, i) \in Nodes /\ At(q, i + 1) \in Nodes
      BY <2>1, <1>3, <1>4, <1>5, <1>10
    <3>2. next[At(q, i)] = At(q, i + 1) /\ prev[At(q, i + 1)] = At(q, i)
      BY <2>1, <1>3, <1>6
    <3> QED
      BY <3>1, <3>2, <1>1, <1>8 DEF Joined, TypeOK
  <2>2. CASE i = n + k
    <3>1. At(q, i)' = curr /\ At(q, i + 1)' = b /\ curr \in Nodes
      BY <2>2, <1>3, <1>4, <1>5, <1>10, <1>11
    <3> QED
      BY <3>1, <1>1, <1>7, <1>8 DEF Joined, TypeOK
  <2> QED
    BY <2>1, <2>2, <1>3
<1>13. next'[FakeTail] = None /\ prev'[FakeHead] = None
  <2>1. curr # FakeTail
    BY <1>3, <1>4, <1>5
  <2> QED
    BY <2>1, <1>1, <1>2, <1>7, <1>8 DEF Represents, TypeOK, Nodes
<1>14. Represents(q)'
  <2>1. n + (k + 1) = n + k + 1 /\ n + (k + 1) - 1 = n + k
    BY <1>3
  <2>2. curr' = At(q, ListLen + Linked)'
    BY <2>1, <1>8, <1>9, <1>11
  <2>3. \A i \in 0 .. (ListLen + Linked - 1)' : Joined(q, i)'
    BY <2>1, <1>9, <1>12
  <2>4. (todo <= Len(arg))'
    BY <1>1, <1>3, <1>8 DEF TypeOK
  <2> QED
    BY <2>2, <2>3, <2>4, <1>1, <1>2, <1>3, <1>8, <1>9, <1>13 DEF Represents
<1>15. ListIntact'
  BY <1>2, <1>3, <1>9, <1>14 DEF ListIntact
<1>16. TypeOK'
  <2>1. curr \in Nodes
    BY <1>3, <1>4, <1>5
  <2> QED
    BY <2>1, <1>1, <1>3, <1>7, <1>8 DEF TypeOK
<1> QED
  BY <1>1, <1>8, <1>15, <1>16 DEF Inv, NeverRaises

\* The end of append_n joins the chain to the fake tail and counts its blocks.
LEMMA AppendNEndInv == ASSUME Inv, AppendNEnd PROVE Inv'
<1> DEFINE n == num_free_blocks
           m == Len(arg)
<1>1. TypeOK /\ pc = "append_n" /\ ~raised /\ todo = 0
  BY DEF Inv, AppendNEnd, NeverRaises
<1>2. PICK q \in [1 .. ListLen -> Blocks] : Represents(q)
  BY DEF Inv, ListIntact
<1>3. n \in Nat /\ m \in Nat /\ ListLen = n /\ Linked = m /\ DOMAIN arg = 1 .. m
  BY <1>1 DEF TypeOK, ListLen, Linked
<1>4. /\ \A i \in 0 .. n + m + 1 : At(q, i) \in Nodes
      /\ \A i \in 1 .. n + m : At(q, i) \in Blocks
      /\ \A i, j \in 0 .. n + m + 1 : At(q, i) = At(q, j) => i = j
      /\ At(q, 0) = FakeHead /\ At(q, n + m + 1) = FakeTail
  <2>1. Last = n + m + 1
    BY <1>3 DEF Last
  <2> QED
    BY <2>1, <1>1, <1>2, <1>3, AtInjective DEF At
<1>5. curr = At(q, n + m) /\ curr \in Nodes
  BY <1>1, <1>2, <1>3, <1>4 DEF Represents
<1>6. \A i \in 0 .. n + m - 1 : next[At(q, i)] = At(q, i + 1) /\ prev[At(q, i + 1)] = At(q, i)
  BY <1>1, <1>2, <1>3 DEF Represents, Joined
<1>7. /\ next' = [next EXCEPT ![curr] = FakeTail] /\ prev' = [prev EXCEPT ![FakeTail] = curr]
      /\ num_free_blocks' = n + m /\ held' = held \ Elems(arg) /\ moved' = arg
      /\ pc' = "idle" /\ curr' = None /\ arg' = <<>> /\ UNCHANGED <<ret, todo, raised>>
  BY DEF AppendNEnd
<1>8. ListLen' = n + m /\ Linked' = 0
  BY <1>3, <1>7 DEF ListLen, Linked
<1> SUFFICES ASSUME NEW q2, q2 = [i \in 1 .. n + m |-> At(q, i)] PROVE Inv'
  OBVIOUS
<1>9. q2 \in [1 .. ListLen' -> Blocks]
  BY <1>4, <1>8
<1>10. \A i \in 0 .. n + m + 1 : At(q2, i)' = At(q, i)
  <2> TAKE i \in 0 .. n + m + 1
  <2>1. At(q2, i)' = IF i = 0 THEN FakeHead ELSE IF i <= n + m THEN q2[i] ELSE FakeTail
    BY <1>3, <1>8 DEF At
  <2>2. CASE i = 0
    BY <2>1, <2>2, <1>4
  <2>3. CASE i \in 1 .. n + m
    BY <2>1, <2>3, <1>3
  <2>4. CASE i = n + m + 1
    BY <2>1, <2>4, <1>3, <1>4
  <2>5. i = 0 \/ i \in 1 .. n + m \/ i = n + m + 1
    BY <1>3
  <2> QED
    BY <2>2, <2>3, <2>4, <2>5
<1>11. ASSUME NEW i \in 0 .. n + m PROVE Joined(q2, i)'
  <2>1. At(q2, i)' = At(q, i) /\ At(q2, i + 1)' = At(q, i + 1)
        /\ At(q, i) \in Nodes /\ At(q, i + 1) \in Nodes
    BY <1>3, <1>4, <1>10
  <2>2. CASE i < n + m
    <3>1. At(q, i) # curr /\ At(q, i + 1) # FakeTail
      BY <2>2, <1>3, <1>4, <1>5
    <3>2. next[At(q, i)] = At(q, i + 1) /\ prev[At(q, i + 1)] = At(q, i)
      BY <2>2, <1>3, <1>6
    <3> QED
      BY <2>1, <3>1, <3>2, <1>1, <1>7 DEF Joined, TypeOK
  <2>3. CASE i = n + m
    BY <2>1, <2>3, <1>1, <1>4, <1>5, <1>7 DEF Joined, TypeOK
  <2> QED
    BY <2>2, <2>3, <1>3
<1>12. \A i, j \in 1 .. n + m : q2[i] = q2[j] => i = j
  BY <1>3, <1>4
<1>13. {q2[i] : i \in 1 .. n + m} = Blocks \ held'
  <2>1. {q[i] : i \in 1 .. n} = Blocks \ held /\ \A i \in 1 .. m : arg[i] \in held
    BY <1>1, <1>2, <1>3 DEF Represents
  <2>2. /\ \A i \in 1 .. n : At(q, i) = q[i] /\ i \in 1 .. n + m
        /\ \A i \in 1 .. m : At(q, n + i) = arg[i] /\ n + i \in 1 .. n + m
        /\ \A i \in 1 .. n + m : i \in 1 .. n \/ \E j \in 1 .. m : i = n + j
    <3>1. \A i \in 1 .. n : At(q, i) = q[i] /\ i \in 1 .. n + m
      BY <1>3 DEF At
    <3>2. ASSUME NEW i \in 1 .. m PROVE At(q, n + i) = arg[i] /\ n + i \in 1 .. n + m
      <4>1. (n + i) - n = i
        BY <1>3
      <4> QED
        BY <4>1, <1>3 DEF At
    <3>3. ASSUME NEW i \in 1 .. n + m PROVE i \in 1 .. n \/ \E j \in 1 .. m : i = n + j
      <4>1. i \notin 1 .. n => i - n \in 1 .. m /\ i = n + (i - n)
        BY <1>3
      <4> QED
        BY <4>1
    <3> QED
      BY <3>1, <3>2, <3>3
  <2>3. \A b \in Blocks \ held' : \E i \in 1 .. n + m : q2[i] = b
    BY <2>1, <2>2, <1>3, <1>7 DEF Elems
  <2>4. \A i \in 1 .. n + m : q2[i] \in Blocks \ held'
    BY <2>1, <2>2, <1>3, <1>4, <1>7 DEF Elems
  <2> QED
    BY <2>3, <2>4
<1>14. next'[FakeTail] = None /\ prev'[FakeHead] = None
  <2>1. curr # FakeTail
    BY <1>3, <1>4, <1>5
  <2> QED
    BY <2>1, <1>1, <1>2, <1>7, QueueAssumption DEF Represents, TypeOK, Nodes
<1>15. ListIntact'
  <2>1. Represents(q2)'
    BY <1>7, <1>8, <1>11, <1>12, <1>13, <1>14 DEF Represents
  <2> QED
    BY <2>1, <1>9 DEF ListIntact
<1>16. TypeOK'
  <2>1. next' \in [Nodes -> Nodes \cup {None}] /\ prev' \in [Nodes -> Nodes \cup {None}]
    BY <1>1, <1>5, <1>7 DEF TypeOK, Nodes
  <2>2. moved' \in Seq(Nodes)
    BY <1>1, <1>7 DEF TypeOK, Nodes
  <2> QED
    BY <2>1, <2>2, <1>1, <1>3, <1>7 DEF TypeOK
<1> QED
  BY <1>1, <1>7, <1>15, <1>16 DEF Inv, NeverRaises

\* Every step of the queue preserves the invariant.
THEOREM StepInv == Inv /\ [Next]_vars => Inv'
<1> SUFFICES ASSUME Inv, [Next]_vars PROVE Inv'
  OBVIOUS
<1>1. CASE UNCHANGED vars
  <2> USE <1>1 DEF vars
  <2>1. ListLen' = ListLen /\ Linked' = Linked
    BY DEF ListLen, Linked
  <2>2. ASSUME NEW q, NEW i PROVE At(q, i)' = At(q, i)
    BY <2>1 DEF At
  <2>3. ASSUME NEW q, NEW i PROVE Joined(q, i)' = Joined(q, i)
    BY <2>2 DEF Joined
  <2>4. ASSUME NEW q, Represents(q) PROVE Represents(q)'
    BY <2>1, <2>2, <2>3, <2>4 DEF Represents
  <2>5. ListIntact'
    BY <2>1, <2>4 DEF Inv, ListIntact
  <2>6. TypeOK' /\ NeverRaises'
    BY DEF Inv, TypeOK, NeverRaises
  <2> QED
    BY <2>5, <2>6 DEF Inv
<1>2. CASE Next
  BY <1>2, PopleftInv, RemoveInv, PopleftNBeginInv, PopleftNStepInv, PopleftNEndInv,
     AppendOneInv, AppendNBeginInv, AppendNStepInv, AppendNEndInv DEF Next
<1> QED
  BY <1>1, <1>2

\* For any number of blocks the pointers lead to nodes or to None, and the client
\* only ever gets blocks, never a fake node that popleft_n ran into.
THEOREM QueueTypeCorrect == Spec => []TypeOK
<1>1. Inv => TypeOK
  BY DEF Inv
<1> QED
  BY <1>1, InitInv, StepInv, PTL DEF Spec

\* For any number of blocks the free list stays intact and in step with
\* num_free_blocks, also inside popleft_n and append_n, ...
THEOREM ListStaysIntact == Spec => []ListIntact
<1>1. Inv => ListIntact
  BY DEF Inv
<1> QED
  BY <1>1, InitInv, StepInv, PTL DEF Spec

\* ... and no internal check of the queue ever fires.
THEOREM QueueNeverRaises == Spec => []NeverRaises
<1>1. Inv => NeverRaises
  BY DEF Inv
<1> QED
  BY <1>1, InitInv, StepInv, PTL DEF Spec

=============================================================================
