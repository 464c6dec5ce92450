----------------------------- MODULE BlockPool -----------------------------
(***************************************************************************)
(* BlockPool (vllm/v1/core/block_pool.py): reference counts, the eviction  *)
(* queue and the prefix cache of the KV-cache blocks.  A pool is a record  *)
(*                                                                         *)
(*   ref   ref_cnt of every block          free  the free block queue      *)
(*   hash  block_hash of every block       map   cached_block_hash_to_block*)
(*   err   an assertion or a ValueError of the code fired                  *)
(*                                                                         *)
(* and every method is an operator from a pool to a pool, so that a handler*)
(* that makes several calls composes them.  A pool may have further fields.*)
(* The free block queue is the sequence that FreeBlockQueue implements.    *)
(* Null is the null block, whose ref_cnt "is not maintained".              *)
(***************************************************************************)
EXTENDS Integers, Sequences, FiniteSets

CONSTANTS
    Blocks,                     \* the blocks other than the null block
    Null,                       \* null_block
    Hashes,                     \* the block hashes that can occur
    NoHash                      \* block_hash is None

ASSUME PoolAssumption ==
    IsFiniteSet(Blocks) /\ Null \notin Blocks /\ NoHash \notin Hashes

Elems(s) == {s[i] : i \in DOMAIN s}

Count(s, x) == Cardinality({i \in DOMAIN s : s[i] = x})

NoRepeats(s) == \A i, j \in DOMAIN s : s[i] = s[j] => i = j

\* The sequence s without the elements of S, in the order of s.
Without(s, S) ==
    LET keep == {i \in DOMAIN s : s[i] \notin S}
        rank(i) == Cardinality({j \in keep : j <= i})
    IN  [n \in 1 .. Cardinality(keep) |-> s[CHOOSE i \in keep : rank(i) = n]]

-----------------------------------------------------------------------------
NewPool(order) ==
    [ref  |-> [b \in Blocks |-> 0],
     hash |-> [b \in Blocks |-> NoHash],
     map  |-> [h \in Hashes |-> <<>>],
     free |-> order,
     err  |-> FALSE]

\* BlockHashToBlockMap keeps duplicates; get_one_block returns the first one
\* in insertion order.
Cached(p, h) == p.map[h] # <<>>
GetOneBlock(p, h) == p.map[h][1]

NumFree(p) == Len(p.free)

\* Mutation: a block that is handed out stays in the prefix cache.
EvictNothing(p, bs) == p

\* Mutation: pop forgets the duplicates of the evicted block.
EvictAllCopies(p, bs) ==
    LET found == {b \in bs : p.hash[b] # NoHash}
    IN  [p EXCEPT
           !.map  = [h \in Hashes |-> IF \E b \in found : p.hash[b] = h THEN <<>> ELSE @[h]],
           !.hash = [b \in Blocks |-> IF b \in found THEN NoHash ELSE @[b]]]

\* _maybe_evict_cached_block for each block of the set bs: a block that the map
\* does not list under its own hash keeps that hash.
MaybeEvict(p, bs) ==
    LET found == {b \in bs : p.hash[b] # NoHash /\ b \in Elems(p.map[p.hash[b]])}
    IN  [p EXCEPT
           !.map  = [h \in Hashes |-> Without(@[h], {b \in found : p.hash[b] = h})],
           !.hash = [b \in Blocks |-> IF b \in found THEN NoHash ELSE @[b]]]

\* The n blocks that get_new_blocks(n) returns, none if it raises ...
NewBlocks(p, n) == IF n > NumFree(p) THEN <<>> ELSE SubSeq(p.free, 1, n)

\* ... and what it does to the pool.
GetNewBlocks(p, n) ==
    IF n > NumFree(p) THEN [p EXCEPT !.err = TRUE]
    ELSE LET new == Elems(NewBlocks(p, n))
             q == MaybeEvict(p, new)
         IN  [q EXCEPT
                !.free = SubSeq(@, n + 1, Len(@)),
                !.ref  = [b \in Blocks |-> IF b \in new THEN @[b] + 1 ELSE @[b]],
                !.err  = @ \/ \E b \in new : p.ref[b] # 0]

\* Mutation: a touched block stays in the free queue.
TouchKeepsFree(p, bs) ==
    [p EXCEPT !.ref = [b \in Blocks |-> @[b] + Count(bs, b)]]

Touch(p, bs) ==
    [p EXCEPT
       !.free = Without(@, {b \in Elems(bs) \ {Null} : p.ref[b] = 0}),
       !.ref  = [b \in Blocks |-> @[b] + Count(bs, b)]]

\* Mutation: a block goes back to the queue although another request holds it.
FreeBlocksShared(p, bs) ==
    [p EXCEPT !.ref  = [b \in Blocks |-> @[b] - Count(bs, b)],
              !.free = @ \o Without(bs, {Null})]

FreeBlocks(p, bs) ==
    LET ref == [b \in Blocks |-> p.ref[b] - Count(bs, b)]
    IN  [p EXCEPT !.ref  = ref,
                  !.free = @ \o Without(bs, {Null} \cup {b \in Blocks : ref[b] # 0})]

\* cache_full_blocks: the blocks number from + 1 to `to` of the table bs enter
\* the map under the hashes hs.
CacheFullBlocks(p, bs, from, to, hs) ==
    LET new == {i \in from + 1 .. to : bs[i] # Null}
    IN  [p EXCEPT
           !.hash = [b \in Blocks |-> IF \E i \in new : bs[i] = b
                                        THEN hs[CHOOSE i \in new : bs[i] = b] ELSE @[b]],
           !.map  = [h \in Hashes |-> IF \E i \in new : hs[i] = h
                                        THEN Append(@[h], bs[CHOOSE i \in new : hs[i] = h])
                                        ELSE @[h]],
           !.err  = @ \/ \E i \in new : p.hash[bs[i]] # NoHash]

\* reset_prefix_cache succeeds only when no block but the null block is used.
CanReset(p) == NumFree(p) = Cardinality(Blocks)

ResetPrefixCache(p) ==
    IF CanReset(p)
      THEN [p EXCEPT !.map  = [h \in Hashes |-> <<>>],
                     !.hash = [b \in Blocks |-> NoHash]]
      ELSE p
=============================================================================
