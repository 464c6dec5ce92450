--------------------------- MODULE MCKVCacheModes ---------------------------
(* KVCacheManager for TLC with both kinds of attention.  The constants of  *)
(* the cfg are those of FullAttentionManager; a behaviour with a sliding   *)
(* window runs SlidingWindowManager instead, on longer requests of one     *)
(* text, with a connector that may report blocks it failed to load.        *)
EXTENDS MCKVCacheManager

VARIABLE sliding                \* the kind of attention, fixed at the start

OneToken == {CHOOSE t \in Token : TRUE}
OneText(n) == {t \in [1 .. n -> OneToken] : TRUE}

Sliding == INSTANCE KVCacheManager
             WITH Window <- 3, Token <- OneToken, MaxModelLen <- 6, Prompts <- OneText(5),
                  Hashes <- UNION {OneText(n) : n \in {2, 4, 6}}, MaxExternal <- 3,
                  MaxLookahead <- 0, CanEvict <- TRUE, WholePromptLoad <- FALSE

ModesInit == \/ sliding = FALSE /\ Init
             \/ sliding = TRUE /\ Sliding!Init

ModesNext ==
    /\ UNCHANGED sliding
    /\ \/ ~sliding /\ Next
       \/ sliding /\ Sliding!Next

ModesSpec == ModesInit /\ [][ModesNext]_<<vars, sliding>>

\* Reference counts and numbers of computed tokens are never negative, and
\* tables, free queue and prefix cache list blocks of the pool (KVCacheManager).
ModesTypeOK == IF sliding THEN Sliding!TypeOK ELSE TypeOK

\* BlockHashToBlockMap and the blocks agree, with both kinds of attention.
ModesCacheConsistent == IF sliding THEN Sliding!CacheConsistent ELSE CacheConsistent

\* PrefixClosed of FullAttentionManager, on which its search for hits relies.
FullPrefixClosed == ~sliding => PrefixClosed

\* CommonPrefixSound of FullAttentionManager.get_num_common_prefix_blocks.
FullCommonPrefixSound == ~sliding => CommonPrefixSound

\* WindowKept of SlidingWindowManager.remove_skipped_blocks.
SlidingWindowKept == sliding => Sliding!WindowKept
=============================================================================
