--------------------------- MODULE FreeBlockQueue ---------------------------
(***************************************************************************)
(* FreeKVCacheBlockQueue (vllm/v1/core/kv_cache_utils.py): the free blocks *)
(* as a doubly linked list threaded through the block objects between a    *)
(* fake head and a fake tail.  An operation without a loop is one action;  *)
(* popleft_n and append_n are a begin, one step per loop iteration and an  *)
(* end.  The client (BlockPool) is `held`: it gives back only blocks that  *)
(* it took out, removes only listed blocks, and pops no more blocks than   *)
(* num_free_blocks says there are.                                         *)
(***************************************************************************)
EXTENDS Naturals, Sequences, FiniteSets

CONSTANTS
    N,                          \* number of blocks, numbered from 0
    FakeHead, FakeTail,                 \* the two fake blocks
    None                        \* Python's None

Blocks == 0 .. N - 1
Nodes == Blocks \cup {FakeHead, FakeTail}

ASSUME QueueAssumption ==
    /\ N \in Nat
    /\ FakeHead # FakeTail /\ FakeHead # None /\ FakeTail # None
    /\ FakeHead \notin Blocks /\ FakeTail \notin Blocks /\ None \notin Blocks

VARIABLES
    prev, next,                 \* prev_free_block and next_free_block
    num_free_blocks,
    pc,                         \* "idle", or inside "popleft_n" or "append_n"
    curr,                       \* curr_block of popleft_n, last_block of append_n
    ret,                        \* the blocks popped so far by popleft_n
    arg,                        \* the blocks append_n still has to link
    todo,                       \* loop iterations left
    held,                       \* blocks in the client's hands
    moved,                      \* the blocks the last call took out or put back
    raised                      \* an internal assertion or RuntimeError fired

list == <<prev, next, num_free_blocks>>
loop == <<pc, curr, ret, arg, todo>>
client == <<held, moved>>
vars == <<prev, next, num_free_blocks, pc, curr, ret, arg, todo, held, moved,
          raised>>

Elems(s) == {s[i] : i \in DOMAIN s}

Distinct(S) == {s \in UNION {[1 .. n -> S] : n \in 1 .. Cardinality(S)} :
                    \A i, j \in DOMAIN s : s[i] = s[j] => i = j}

Init ==
    /\ next = [x \in Nodes |->
                 CASE x = FakeHead -> IF N > 0 THEN 0 ELSE FakeTail
                   [] x = FakeTail -> None
                   [] OTHER    -> IF x < N - 1 THEN x + 1 ELSE FakeTail]
    /\ prev = [x \in Nodes |->
                 CASE x = FakeHead -> None
                   [] x = FakeTail -> IF N > 0 THEN N - 1 ELSE FakeHead
                   [] OTHER    -> IF x > 0 THEN x - 1 ELSE FakeHead]
    /\ num_free_blocks = N
    /\ pc = "idle" /\ curr = None /\ ret = <<>> /\ arg = <<>> /\ todo = 0
    /\ held = {} /\ moved = <<>> /\ raised = FALSE

-----------------------------------------------------------------------------
\* popleft on a non-empty list.  BlockPool.__init__ calls it for the null
\* block and SinkFullAttentionManager.__init__ once per sink block.
Popleft ==
    /\ pc = "idle" /\ num_free_blocks > 0
    /\ UNCHANGED loop
    /\ LET first == next[FakeHead] IN
       IF first \in {FakeTail, None} \/ next[first] = None
         THEN raised' = TRUE /\ UNCHANGED <<list, client>>
         ELSE /\ next' = [next EXCEPT ![FakeHead] = next[first], ![first] = None]
              /\ prev' = [prev EXCEPT ![next[first]] = FakeHead, ![first] = None]
              /\ num_free_blocks' = num_free_blocks - 1
              /\ held' = held \cup {first}
              /\ moved' = <<first>>
              /\ UNCHANGED raised

\* Mutation: the caller's capacity check is dropped.
PopleftNBeginUnchecked(n) ==
    /\ pc = "idle"
    /\ num_free_blocks' = num_free_blocks - n
    /\ pc' = "popleft_n" /\ curr' = next[FakeHead] /\ ret' = <<>> /\ todo' = n
    /\ UNCHANGED <<prev, next, arg, client, raised>>

PopleftNBegin(n) ==
    /\ pc = "idle" /\ n <= num_free_blocks
    /\ num_free_blocks' = num_free_blocks - n
    /\ pc' = "popleft_n" /\ curr' = next[FakeHead] /\ ret' = <<>> /\ todo' = n
    /\ UNCHANGED <<prev, next, arg, client, raised>>

PopleftNStep ==
    /\ pc = "popleft_n" /\ todo > 0
    /\ IF curr = None
         THEN raised' = TRUE /\ UNCHANGED <<list, loop>>
         ELSE /\ ret' = Append(ret, curr)
              /\ curr' = next[curr]
              /\ prev' = [prev EXCEPT ![curr] = None]
              /\ next' = [next EXCEPT ![curr] = None]
              /\ todo' = todo - 1
              /\ UNCHANGED <<num_free_blocks, pc, arg, raised>>
    /\ UNCHANGED client

\* Mutation: the new first block keeps its old predecessor.
PopleftNEndNoPrev ==
    /\ pc = "popleft_n" /\ todo = 0
    /\ next' = IF curr # None THEN [next EXCEPT ![FakeHead] = curr] ELSE next
    /\ held' = held \cup Elems(ret)
    /\ moved' = ret
    /\ pc' = "idle" /\ curr' = None /\ ret' = <<>>
    /\ UNCHANGED <<prev, num_free_blocks, arg, todo, raised>>

PopleftNEnd ==
    /\ pc = "popleft_n" /\ todo = 0
    /\ next' = IF curr # None THEN [next EXCEPT ![FakeHead] = curr] ELSE next
    /\ prev' = IF curr # None THEN [prev EXCEPT ![curr] = FakeHead] ELSE prev
    /\ held' = held \cup Elems(ret)
    /\ moved' = ret
    /\ pc' = "idle" /\ curr' = None /\ ret' = <<>>
    /\ UNCHANGED <<num_free_blocks, arg, todo, raised>>

\* Mutation: remove forgets to count.
RemoveUncounted(b) ==
    /\ pc = "idle" /\ b \notin held
    /\ UNCHANGED loop
    /\ IF prev[b] = None \/ next[b] = None
         THEN raised' = TRUE /\ UNCHANGED <<list, client>>
         ELSE /\ next' = [next EXCEPT ![prev[b]] = next[b], ![b] = None]
              /\ prev' = [prev EXCEPT ![next[b]] = prev[b], ![b] = None]
              /\ held' = held \cup {b}
              /\ moved' = <<b>>
              /\ UNCHANGED <<num_free_blocks, raised>>

Remove(b) ==
    /\ pc = "idle" /\ b \notin held
    /\ UNCHANGED loop
    /\ IF prev[b] = None \/ next[b] = None
         THEN raised' = TRUE /\ UNCHANGED <<list, client>>
         ELSE /\ next' = [next EXCEPT ![prev[b]] = next[b], ![b] = None]
              /\ prev' = [prev EXCEPT ![next[b]] = prev[b], ![b] = None]
              /\ num_free_blocks' = num_free_blocks - 1
              /\ held' = held \cup {b}
              /\ moved' = <<b>>
              /\ UNCHANGED raised

\* append; used by tests only, append_n is what BlockPool calls.
AppendOne(b) ==
    /\ pc = "idle" /\ b \in held
    /\ UNCHANGED loop
    /\ LET last == prev[FakeTail] IN
       IF last = None
         THEN raised' = TRUE /\ UNCHANGED <<list, client>>
         ELSE /\ next' = [next EXCEPT ![last] = b, ![b] = FakeTail]
              /\ prev' = [prev EXCEPT ![b] = last, ![FakeTail] = b]
              /\ num_free_blocks' = num_free_blocks + 1
              /\ held' = held \ {b}
              /\ moved' = <<b>>
              /\ UNCHANGED raised

AppendNBegin(bs) ==
    /\ pc = "idle" /\ Elems(bs) \subseteq held
    /\ IF prev[FakeTail] = None
         THEN raised' = TRUE /\ UNCHANGED loop
         ELSE /\ pc' = "append_n" /\ curr' = prev[FakeTail]
              /\ arg' = bs /\ todo' = Len(bs)
              /\ UNCHANGED <<ret, raised>>
    /\ UNCHANGED <<list, client>>

\* Mutation: the blocks are linked from the last one to the first.
AppendNStepReversed ==
    /\ pc = "append_n" /\ todo > 0
    /\ prev' = [prev EXCEPT ![arg[todo]] = curr]
    /\ next' = [next EXCEPT ![curr] = arg[todo]]
    /\ curr' = arg[todo]
    /\ todo' = todo - 1
    /\ UNCHANGED <<num_free_blocks, pc, ret, arg, client, raised>>

AppendNStep ==
    /\ pc = "append_n" /\ todo > 0
    /\ LET block == arg[Len(arg) - todo + 1] IN
          /\ prev' = [prev EXCEPT ![block] = curr]
          /\ next' = [next EXCEPT ![curr] = block]
          /\ curr' = block
    /\ todo' = todo - 1
    /\ UNCHANGED <<num_free_blocks, pc, ret, arg, client, raised>>

AppendNEnd ==
    /\ pc = "append_n" /\ todo = 0
    /\ next' = [next EXCEPT ![curr] = FakeTail]
    /\ prev' = [prev EXCEPT ![FakeTail] = curr]
    /\ num_free_blocks' = num_free_blocks + Len(arg)
    /\ held' = held \ Elems(arg)
    /\ moved' = arg
    /\ pc' = "idle" /\ curr' = None /\ arg' = <<>>
    /\ UNCHANGED <<ret, todo, raised>>

Next ==
    \/ Popleft
    \/ \E n \in 1 .. N : PopleftNBegin(n)
    \/ PopleftNStep
    \/ PopleftNEnd
    \/ \E b \in Blocks : Remove(b)
    \/ \E b \in Blocks : AppendOne(b)
    \/ \E bs \in Distinct(held) : AppendNBegin(bs)
    \/ AppendNStep
    \/ AppendNEnd

Spec == Init /\ [][Next]_vars

-----------------------------------------------------------------------------
(***************************************************************************)
(* Properties.                                                             *)
(***************************************************************************)

\* Pointers lead to nodes or to None, num_free_blocks never becomes negative, and
\* the client only ever holds blocks: no operation hands out a fake node.
TypeOK ==
    /\ prev \in [Nodes -> Nodes \cup {None}]
    /\ next \in [Nodes -> Nodes \cup {None}]
    /\ num_free_blocks \in Nat /\ todo \in Nat
    /\ pc \in {"idle", "popleft_n", "append_n"}
    /\ curr \in Nodes \cup {None}
    /\ ret \in Seq(Nodes) /\ arg \in Seq(Blocks) /\ moved \in Seq(Nodes)
    /\ held \subseteq Blocks
    /\ raised \in BOOLEAN

\* Length of the list when the current call started.
ListLen == num_free_blocks + (IF pc = "popleft_n" THEN Len(ret) + todo ELSE 0)

\* How many blocks of its argument append_n has linked.
Linked == IF pc = "append_n" THEN Len(arg) - todo ELSE 0

\* The i-th node of the list that represents q: 0 is the fake head, and what
\* follows q is first the part of `arg` already linked, then the fake tail.
At(q, i) ==
    IF i = 0 THEN FakeHead
    ELSE IF i <= ListLen THEN q[i]
    ELSE IF i <= ListLen + Linked THEN arg[i - ListLen]
    ELSE FakeTail

\* The pointers that join the i-th and the (i+1)-th node agree.
Joined(q, i) == next[At(q, i)] = At(q, i + 1) /\ prev[At(q, i + 1)] = At(q, i)

\* The pointers represent the queue q, given how far the current loop got:
\* popleft_n has cut off the prefix `ret` and not yet joined the rest to the
\* head, append_n has hung blocks behind the end and not yet joined the tail.
Represents(q) ==
    /\ \A i, j \in 1 .. ListLen : q[i] = q[j] => i = j
    /\ {q[i] : i \in 1 .. ListLen} = Blocks \ held
    /\ next[FakeTail] = None /\ prev[FakeHead] = None
    /\ pc = "idle" => \A i \in 0 .. ListLen : Joined(q, i)
    /\ pc = "popleft_n" =>
         /\ \A i \in 1 .. Len(ret) : ret[i] = q[i]
         /\ curr = At(q, Len(ret) + 1)
         /\ \A i \in Len(ret) + 1 .. ListLen : Joined(q, i)
    /\ pc = "append_n" =>
         /\ todo <= Len(arg)
         /\ \A i, j \in DOMAIN arg : arg[i] = arg[j] => i = j
         /\ \A i \in DOMAIN arg : arg[i] \in held
         /\ curr = At(q, ListLen + Linked)
         /\ \A i \in 0 .. ListLen + Linked - 1 : Joined(q, i)

\* At every point, inside the loops included, the two pointer chains represent
\* one queue: it holds every block the client does not hold exactly once, and
\* it is as long as num_free_blocks says.
ListIntact == \E q \in [1 .. ListLen -> Blocks] : Represents(q)

\* No internal check fires: popleft never finds num_free_blocks "out of sync
\* with the free list", popleft_n never runs off the list, remove never meets
\* an unlinked block, the tail always has a predecessor.
NeverRaises == ~raised

-----------------------------------------------------------------------------
\* What get_all_free_blocks returns between two calls: the walk from the head.
\* Inside popleft_n the blocks already popped come first.
FreeBlocksInOrder ==
    LET done == IF pc = "popleft_n" THEN Len(ret) ELSE 0
        walk[i \in 1 .. ListLen] ==
            IF i <= done THEN ret[i]
            ELSE IF i = done + 1
                   THEN IF pc = "popleft_n" THEN curr ELSE next[FakeHead]
                   ELSE next[walk[i - 1]]
    IN  walk

Abstract == INSTANCE FreeQueue WITH queue <- FreeBlocksInOrder

\* The linked list implements the queue: a pop returns the blocks at the front
\* in order, append_n puts its blocks at the end in the order given, and every
\* call takes effect atomically when it returns.
RefinesQueue == Abstract!Spec

=============================================================================
