----------------------------- MODULE KVCacheOps -----------------------------
(***************************************************************************)
(* KVCacheManager over one KV-cache group (UnitaryKVCacheCoordinator) and  *)
(* its FullAttentionManager or SlidingWindowManager.  The state is a       *)
(* BlockPool record with two more fields:                                  *)
(*                                                                         *)
(*   tbl     req_to_blocks, the block table of every request               *)
(*   cached  num_cached_block, Absent for a request that has no entry      *)
(*                                                                         *)
(* A block hash is the token prefix it is computed from: hash_block_tokens *)
(* chains a block's tokens with the hash of the block before, and is taken *)
(* to be injective.                                                        *)
(***************************************************************************)
EXTENDS BlockPool

CONSTANTS
    Reqs,                       \* request ids
    BlockSize,
    Window,                     \* sliding window; 0 for full attention
    UseEagle,                   \* a draft model needs the last hidden state
    MaxModelLen

ASSUME OpsAssumption ==
    /\ BlockSize \in Nat \ {0} /\ Window \in Nat /\ MaxModelLen \in Nat
    /\ UseEagle \in BOOLEAN
    /\ IsFiniteSet(Reqs)

Absent == -1

AtMost(m, n) == IF m <= n THEN m ELSE n
AtLeast(m, n) == IF m >= n THEN m ELSE n
Cdiv(m, n) == (m + n - 1) \div n

\* request_block_hasher: one hash per full block of the tokens t.
BlockHashes(t) == [i \in 1 .. Len(t) \div BlockSize |-> SubSeq(t, 1, i * BlockSize)]

NewKV(order) ==
    [ref  |-> NewPool(order).ref,  hash |-> NewPool(order).hash,
     map  |-> NewPool(order).map,  free |-> order, err |-> FALSE,
     tbl  |-> [r \in Reqs |-> <<>>],
     cached |-> [r \in Reqs |-> Absent]]

-----------------------------------------------------------------------------
\* get_num_skipped_tokens of the two managers.
SkippedTokens(n) == IF Window = 0 THEN 0 ELSE AtLeast(0, n - Window + 1)

LargestOf(S) == CHOOSE n \in S : \A m \in S : m <= n

\* The number of leading hashes of hs, at most n, that are all cached.
LeadingHits(k, hs, n) ==
    LargestOf({j \in 0 .. n : \A i \in 1 .. j : Cached(k, hs[i])})

\* SlidingWindowManager needs this many contiguous cached blocks.
Contiguous ==
    AtLeast(1, Cdiv(Window - 1, BlockSize) + (IF UseEagle THEN 1 ELSE 0))

\* find_longest_cache_hit before the block that eagle drops: the full prefix,
\* or the longest prefix that ends in a contiguous run wide enough for the
\* window, with null blocks before the run.
LongestHit(k, hs, n) ==
    LET runs == {e \in Contiguous .. n : \A i \in e - Contiguous + 1 .. e : Cached(k, hs[i])}
        end == LargestOf(runs)
    IN  IF Window = 0 \/ runs = {}
          THEN [i \in 1 .. LeadingHits(k, hs, n) |-> GetOneBlock(k, hs[i])]
          ELSE [i \in 1 .. end |-> IF i > end - Contiguous THEN GetOneBlock(k, hs[i]) ELSE Null]

\* get_computed_blocks of a request with numTokens tokens: at least the last
\* token is left to compute.
GetComputedBlocks(k, hs, numTokens) ==
    LET hit == LongestHit(k, hs, (numTokens - 1) \div BlockSize)
    IN  IF UseEagle /\ hit # <<>> THEN SubSeq(hit, 1, Len(hit) - 1) ELSE hit

-----------------------------------------------------------------------------
\* Mutation: removed blocks are not returned to the pool.
RemoveSkippedLeak(k, r, total) ==
    LET n == AtMost(SkippedTokens(total) \div BlockSize, Len(k.tbl[r]))
    IN  [k EXCEPT !.tbl[r] = [i \in DOMAIN @ |-> IF i <= n THEN Null ELSE @[i]]]

\* Mutation: a block that is only partly before the window is removed too.
RemoveSkippedRoundsUp(k, r, total) ==
    LET t == k.tbl[r]
        n == AtMost(Cdiv(SkippedTokens(total), BlockSize), Len(t))
        removed == [i \in 1 .. n |-> t[n + 1 - i]]
    IN  [FreeBlocks(k, removed) EXCEPT
           !.tbl[r] = [i \in DOMAIN @ |-> IF i <= n THEN Null ELSE @[i]]]

\* remove_skipped_blocks: the blocks before the window, back to the last null
\* block, are freed from the tail on and replaced by the null block.
RemoveSkippedBlocks(k, r, total) ==
    LET t == k.tbl[r]
        n == AtMost(SkippedTokens(total) \div BlockSize, Len(t))
        z == LargestOf({0} \cup {i \in 1 .. n : t[i] = Null})
        removed == [i \in 1 .. n - z |-> t[n + 1 - i]]
    IN  [FreeBlocks(k, removed) EXCEPT
           !.tbl[r] = [i \in DOMAIN @ |-> IF i \in z + 1 .. n THEN Null ELSE @[i]]]

\* Mutation: hits that sit in the free queue are not counted as capacity.
NumBlocksToAllocateNoEvictable(k, r, numTokens, hits, total) ==
    AtLeast(Cdiv(numTokens, BlockSize) -
              AtLeast(SkippedTokens(total) \div BlockSize, Len(hits) + Len(k.tbl[r])), 0)

\* get_num_blocks_to_allocate: new blocks, plus the hits that are eviction
\* candidates and will leave the free queue when they are touched.
NumBlocksToAllocate(k, r, numTokens, hits, total) ==
    LET required == Cdiv(numTokens, BlockSize)
        have == Len(k.tbl[r])
        skipped == SkippedTokens(total) \div BlockSize
        evictable == {i \in AtLeast(0, skipped - have) + 1 .. Len(hits) :
                        hits[i] # Null /\ k.ref[hits[i]] = 0}
    IN  IF k.cached[r] # Absent
          THEN AtLeast(required - have, 0)
          ELSE AtLeast(required - AtLeast(skipped, Len(hits) + have), 0)
                 + Cardinality(evictable)

\* allocate_new_computed_blocks: touch the hits inside the window, put null
\* blocks before them, and get blocks for the tokens a connector will load.
AllocateNewComputedBlocks(k, r, hits, local, ext) ==
    IF k.cached[r] # Absent THEN [k EXCEPT !.err = @ \/ hits # <<>>]
    ELSE LET skipTok == SkippedTokens(local + ext)
             skip == skipTok \div BlockSize
             used == SubSeq(hits, skip + 1, Len(hits))
             load == IF skip > 0 THEN AtMost(local + ext - skipTok, ext) ELSE ext
             prefix == [i \in 1 .. skip |-> Null] \o used
             k1 == [Touch(k, used) EXCEPT
                      !.tbl[r] = prefix, !.cached[r] = Len(prefix),
                      !.err = @ \/ k.tbl[r] # <<>>]
             n == Cdiv(local + ext, BlockSize) - Len(prefix)
         IN  IF load > 0
               THEN [GetNewBlocks(k1, n) EXCEPT !.tbl[r] = @ \o NewBlocks(k1, n)]
               ELSE k1

\* Mutation: a partly filled last block is not counted.
AllocateNewBlocksFloor(k, r, numTokens) ==
    LET n == (numTokens \div BlockSize) - Len(k.tbl[r])
    IN  IF n <= 0 THEN k
        ELSE [GetNewBlocks(k, n) EXCEPT !.tbl[r] = @ \o NewBlocks(k, n)]

AllocateNewBlocks(k, r, numTokens) ==
    LET n == Cdiv(numTokens, BlockSize) - Len(k.tbl[r])
    IN  IF n <= 0 THEN k
        ELSE [GetNewBlocks(k, n) EXCEPT !.tbl[r] = @ \o NewBlocks(k, n)]

\* cache_blocks up to numTokens tokens of the request, whose hashes are hs.
CacheBlocks(k, r, hs, numTokens) ==
    LET from == AtLeast(k.cached[r], 0)
        to == numTokens \div BlockSize
    IN  IF from >= to THEN k
        ELSE [CacheFullBlocks(k, k.tbl[r], from, to, hs) EXCEPT !.cached[r] = to]

\* allocate_slots.  a.computed, a.tokens and a.hashes are num_computed_tokens,
\* num_tokens and block_hashes of the request; the others are arguments.  What
\* raises leaves nothing to cache.
AllocateSlots(k, r, a) ==
    LET local == a.computed + Len(a.hits) * BlockSize
        total == AtMost(local + a.ext, MaxModelLen)
        slots == AtMost(total + a.new + a.lookahead, MaxModelLen)
        k1 == RemoveSkippedBlocks(k, r, total)
        fits == NumBlocksToAllocate(k1, r, slots, a.hits, local + a.ext) <= NumFree(k1)
        k2 == IF a.hits # <<>> \/ a.ext > 0
                THEN AllocateNewComputedBlocks(k1, r, a.hits, local, a.ext) ELSE k1
        k3 == AllocateNewBlocks(k2, r, slots)
    IN  IF ~fits THEN [ok |-> FALSE, kv |-> k1]
        ELSE [ok |-> TRUE,
              kv |-> IF a.delay \/ k3.err THEN k3
                     ELSE CacheBlocks(k3, r, a.hashes, AtMost(total + a.new, a.tokens))]

\* can_fit_full_sequence: room for all tokens of the request, not only for the
\* ones scheduled now.
CanFitFullSequence(k, r, a) ==
    LET total == AtMost(a.computed + Len(a.hits) * BlockSize + a.ext, MaxModelLen)
    IN  NumBlocksToAllocate(k, r, AtMost(a.tokens, MaxModelLen), a.hits, total) <= NumFree(k)

\* Mutation: the head of the table is freed first, so it is evicted first.
FreeHeadFirst(k, r) ==
    [FreeBlocks(k, k.tbl[r]) EXCEPT !.tbl[r] = <<>>, !.cached[r] = Absent]

\* Mutation: the block table outlives the request's references.
FreeKeepsTable(k, r) ==
    [FreeBlocks(k, [i \in DOMAIN k.tbl[r] |-> k.tbl[r][Len(k.tbl[r]) + 1 - i]]) EXCEPT
       !.cached[r] = Absent]

\* free: the tail blocks go back first, to be evicted first.
Free(k, r) ==
    LET t == k.tbl[r]
    IN  [FreeBlocks(k, [i \in DOMAIN t |-> t[Len(t) + 1 - i]]) EXCEPT
           !.tbl[r] = <<>>, !.cached[r] = Absent]

\* Mutation: requests without a fully cached block are not counted.
NumCommonPrefixByCached(k, r) ==
    LET tables == Cardinality({s \in Reqs : k.cached[s] # Absent})
    IN  LargestOf({n \in 0 .. Len(k.tbl[r]) : \A i \in 1 .. n : k.ref[k.tbl[r][i]] = tables})

\* get_num_common_prefix_blocks (FullAttentionManager): the leading blocks of r
\* that as many references hold as there are block tables.
NumCommonPrefixBlocks(k, r) ==
    LET tables == Cardinality({s \in Reqs : k.tbl[s] # <<>>})
    IN  LargestOf({n \in 0 .. Len(k.tbl[r]) : \A i \in 1 .. n : k.ref[k.tbl[r][i]] = tables})
=============================================================================
