----------------------------- MODULE FreeQueue -----------------------------
(***************************************************************************)
(* What FreeKVCacheBlockQueue promises to BlockPool: a queue of distinct   *)
(* blocks in eviction order.  Blocks leave at the front (popleft,          *)
(* popleft_n) or from any place (remove) and come back at the end (append, *)
(* append_n).  The client only returns blocks that it holds.               *)
(***************************************************************************)
EXTENDS Naturals, Sequences, FiniteSets

CONSTANT N                      \* number of blocks, numbered from 0

Blocks == 0 .. N - 1

VARIABLES
    queue,                      \* the free blocks, next to be evicted first
    held,                       \* the blocks the client took out
    moved                       \* the blocks the last call took out or put back

vars == <<queue, held, moved>>

\* Sequences of distinct elements of S.
Distinct(S) == {s \in UNION {[1 .. n -> S] : n \in 0 .. Cardinality(S)} :
                    \A i, j \in DOMAIN s : s[i] = s[j] => i = j}

Elems(s) == {s[i] : i \in DOMAIN s}

\* The sequence s without the element at position k.
DropAt(s, k) == [i \in 1 .. Len(s) - 1 |-> IF i < k THEN s[i] ELSE s[i + 1]]

Init ==
    /\ queue = [i \in 1 .. N |-> i - 1]
    /\ held = {}
    /\ moved = <<>>

\* popleft is Pop(1).
Pop(n) ==
    /\ n <= Len(queue)
    /\ queue' = SubSeq(queue, n + 1, Len(queue))
    /\ moved' = SubSeq(queue, 1, n)
    /\ held' = held \cup Elems(moved')

Remove(b) ==
    \E k \in DOMAIN queue :
        /\ queue[k] = b
        /\ queue' = DropAt(queue, k)
        /\ held' = held \cup {b}
        /\ moved' = <<b>>

Append_n(bs) ==
    /\ Elems(bs) \subseteq held
    /\ queue' = queue \o bs
    /\ held' = held \ Elems(bs)
    /\ moved' = bs

Next ==
    \/ \E n \in 1 .. N : Pop(n)
    \/ \E b \in Blocks : Remove(b)
    \/ \E bs \in Distinct(held) : Append_n(bs)

Spec == Init /\ [][Next]_vars
=============================================================================
