--------------------------- MODULE KVCacheManager ---------------------------
(***************************************************************************)
(* KVCacheManager as a state machine: the calls the scheduler makes, in    *)
(* any order and with any arguments that the scheduler can choose.  A      *)
(* request waits, may be loading KV data from a connector, or runs.        *)
(***************************************************************************)
EXTENDS KVCacheOps

CONSTANTS
    Token,                      \* token ids
    Prompts,                    \* the token sequences requests start with
    BlockOrder,                 \* the blocks in the order of their ids
    MaxExternal,                \* bound on the tokens a connector offers
    MaxLookahead,               \* bound on num_lookahead_tokens
    WholePromptLoad,            \* an asynchronous load may cover every prompt
                                \* token (NixlConnector) or leaves the last one
                                \* to compute (SimpleCPUOffloadScheduler)
    CanEvict                    \* the connector may report invalid blocks

VARIABLES kv, req

vars == <<kv, req>>

ASSUME ManagerAssumption ==
    /\ \A n \in 1 .. MaxModelLen \div BlockSize : [1 .. n * BlockSize -> Token] \subseteq Hashes
    /\ Prompts \subseteq Seq(Token) \ {<<>>} /\ \A t \in Prompts : Len(t) <= MaxModelLen
    /\ MaxExternal \in Nat /\ MaxLookahead \in Nat /\ CanEvict \in BOOLEAN
    /\ WholePromptLoad \in BOOLEAN
    /\ BlockOrder \in Seq(Blocks) /\ NoRepeats(BlockOrder) /\ Elems(BlockOrder) = Blocks

NoRequest == [st |-> "none", tok |-> <<>>, computed |-> 0]

Init ==
    /\ kv = NewKV(BlockOrder)
    /\ req = [r \in Reqs |-> NoRequest]

Add(r, t) ==
    /\ req[r].st = "none"
    /\ req' = [req EXCEPT ![r] = [st |-> "waiting", tok |-> t, computed |-> 0]]
    /\ UNCHANGED kv

\* The arguments of allocate_slots for request r.
Args(r, new, hits, ext, lookahead, delay) ==
    [computed |-> req[r].computed, tokens |-> Len(req[r].tok),
     hashes |-> BlockHashes(req[r].tok), new |-> new, hits |-> hits, ext |-> ext,
     lookahead |-> lookahead, delay |-> delay]

\* The scheduler admits a waiting request.  On its first try it looks for hits
\* in the prefix cache; ext tokens come from a connector, at once or, when
\* `async`, later, and then nothing is computed yet.
Admit(r, new, ext, lookahead, async) ==
    LET hits == IF req[r].computed = 0
                  THEN GetComputedBlocks(kv, BlockHashes(req[r].tok), Len(req[r].tok))
                  ELSE <<>>
        known == req[r].computed + Len(hits) * BlockSize + ext
        res == AllocateSlots(kv, r, Args(r, new, hits, ext, lookahead, async))
    IN  /\ req[r].st = "waiting"
        /\ ext > 0 => req[r].computed = 0
        /\ known <= Len(req[r].tok)
        /\ IF async THEN /\ ext > 0 /\ new = 0
                         /\ known = Len(req[r].tok) => WholePromptLoad
                    ELSE new \in 1 .. Len(req[r].tok) - known
        /\ kv' = res.kv
        /\ IF res.ok
             THEN req' = [req EXCEPT ![r].st = IF async THEN "loading" ELSE "running",
                                     ![r].computed = known + new]
             ELSE UNCHANGED req

\* The asynchronous load has finished and the scheduler sees it.
Loaded(r) ==
    LET n == req[r].computed
    IN  /\ req[r].st = "loading"
        /\ kv' = CacheBlocks(kv, r, BlockHashes(req[r].tok), n)
        /\ req' = [req EXCEPT ![r].st = "waiting",
                              ![r].computed = IF n = Len(req[r].tok) THEN n - 1 ELSE n]

\* A running request gets slots for its next tokens.
Continue(r, new, lookahead) ==
    LET res == AllocateSlots(kv, r, Args(r, new, <<>>, 0, lookahead, FALSE))
    IN  /\ req[r].st = "running"
        /\ new \in 1 .. Len(req[r].tok) - req[r].computed
        /\ kv' = res.kv
        /\ req' = IF res.ok THEN [req EXCEPT ![r].computed = @ + new] ELSE req

\* The model has produced a token.
Generate(r, t) ==
    /\ req[r].st = "running" /\ req[r].computed = Len(req[r].tok)
    /\ Len(req[r].tok) < MaxModelLen
    /\ req' = [req EXCEPT ![r].tok = Append(@, t)]
    /\ UNCHANGED kv

\* Preemption frees the blocks; the request starts over from its tokens.
Preempt(r) ==
    /\ req[r].st = "running"
    /\ kv' = Free(kv, r)
    /\ req' = [req EXCEPT ![r].st = "waiting", ![r].computed = 0]

\* The request finishes or is aborted.  While its blocks are being loaded they
\* are not freed before the load has finished.
Finish(r) ==
    /\ req[r].st \in {"waiting", "running"}
    /\ kv' = Free(kv, r)
    /\ req' = [req EXCEPT ![r] = NoRequest]

Evict(bs) ==
    /\ CanEvict
    /\ kv' = MaybeEvict(kv, bs)
    /\ UNCHANGED req

Reset ==
    /\ CanReset(kv)
    /\ kv' = ResetPrefixCache(kv)
    /\ UNCHANGED req

Next ==
    \/ \E r \in Reqs, t \in Prompts : Add(r, t)
    \/ \E r \in Reqs, new \in 0 .. MaxModelLen, ext \in 0 .. MaxExternal,
          lookahead \in 0 .. MaxLookahead, async \in BOOLEAN :
            Admit(r, new, ext, lookahead, async)
    \/ \E r \in Reqs : Loaded(r)
    \/ \E r \in Reqs, new \in 1 .. MaxModelLen, lookahead \in 0 .. MaxLookahead :
            Continue(r, new, lookahead)
    \/ \E r \in Reqs, t \in Token : Generate(r, t)
    \/ \E r \in Reqs : Preempt(r)
    \/ \E r \in Reqs : Finish(r)
    \/ \E bs \in SUBSET Blocks : Evict(bs)
    \/ Reset

Spec == Init /\ [][Next]_vars

-----------------------------------------------------------------------------
\* Reference counts and numbers of computed tokens never become negative, and
\* block tables, the free queue and the prefix cache list blocks of the pool.
TypeOK ==
    /\ kv.ref \in [Blocks -> Nat] /\ kv.hash \in [Blocks -> Hashes \cup {NoHash}]
    /\ kv.map \in [Hashes -> Seq(Blocks)] /\ kv.free \in Seq(Blocks)
    /\ kv.tbl \in [Reqs -> Seq(Blocks \cup {Null})]
    /\ kv.cached \in [Reqs -> {Absent} \cup Nat] /\ kv.err \in BOOLEAN
    /\ \A r \in Reqs : /\ req[r].st \in {"none", "waiting", "loading", "running"}
                       /\ req[r].tok \in Seq(Token) /\ req[r].computed \in 0 .. MaxModelLen

Holders(b) == {r \in Reqs : b \in Elems(kv.tbl[r])}

\* ref_cnt counts the block tables that hold a block, and the free queue holds
\* exactly the blocks no table holds, once: nothing leaks, nothing is freed
\* twice, and no block in use is ever handed out.
RefCounts ==
    /\ NoRepeats(kv.free)
    /\ \A b \in Blocks : /\ kv.ref[b] = Cardinality(Holders(b))
                         /\ b \in Elems(kv.free) <=> kv.ref[b] = 0

\* The map and the blocks agree: a block is listed under a hash iff it has it.
CacheConsistent ==
    \A h \in Hashes : /\ NoRepeats(kv.map[h])
                      /\ Elems(kv.map[h]) = {b \in Blocks : kv.hash[b] = h}

\* A hash on a block of a request's table is the hash of the request's own
\* tokens up to that block: sharing never mixes two prefixes.
OwnHashes ==
    \A r \in Reqs : \A i \in DOMAIN kv.tbl[r] :
        LET b == kv.tbl[r][i]
        IN  b # Null /\ kv.hash[b] # NoHash =>
              /\ i <= kv.cached[r]
              /\ kv.hash[b] = SubSeq(req[r].tok, 1, i * BlockSize)

\* No assertion of the block pool and the managers fires: a new block has
\* ref_cnt 0, a block that becomes cached had no hash, get_new_blocks is never
\* asked for more blocks than allocate_slots checked for.
AssertsHold == ~kv.err

\* Every computed token of a running or loading request has a slot.
SlotsCover ==
    \A r \in Reqs : req[r].st \in {"running", "loading"} =>
        Len(kv.tbl[r]) * BlockSize >= req[r].computed

\* FullAttentionManager stops at the first miss because "the following block
\* hashes are not computed yet for sure": freeing a table from its tail keeps
\* the cached prefixes closed.  (Not so for sliding windows, or once single
\* blocks are evicted because a load failed.)
PrefixClosed ==
    \A h \in Hashes : Cached(kv, h) /\ Len(h) > BlockSize =>
        Cached(kv, SubSeq(h, 1, Len(h) - BlockSize))

\* The blocks that cascade attention takes for a common prefix really are the
\* first blocks of every request that has a block table.
CommonPrefixSound ==
    \A r, s \in Reqs : kv.tbl[r] # <<>> /\ kv.tbl[s] # <<>> =>
        \A i \in 1 .. NumCommonPrefixBlocks(kv, r) :
            i \in DOMAIN kv.tbl[s] /\ kv.tbl[s][i] = kv.tbl[r][i]

\* Blocks inside the window of a request's next token are never given up: the
\* null block only stands for tokens that attention skips.
WindowKept ==
    \A r \in Reqs : \A i \in DOMAIN kv.tbl[r] :
        kv.tbl[r][i] = Null => i * BlockSize <= SkippedTokens(req[r].computed)
=============================================================================
