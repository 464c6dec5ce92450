-------------------------- MODULE MCKVCacheManager --------------------------
(* KVCacheManager for TLC: blocks are numbers, hashes are short prefixes. *)
EXTENDS KVCacheManager, TLC

CONSTANTS NumBlocks

MCBlocks == 1 .. NumBlocks
MCBlockOrder == [i \in 1 .. NumBlocks |-> i]
MCHashes == UNION {[1 .. n * BlockSize -> Token] : n \in 1 .. MaxModelLen \div BlockSize}

\* Two prompts that differ in their first block.
TwoPrompts == {t \in [1 .. 3 -> Token] : t[2] = t[3] /\ t[2] = CHOOSE x \in Token : TRUE}

\* A prompt of five equal tokens.
OnePrompt == {t \in [1 .. 5 -> Token] : \A i \in 1 .. 5 : t[i] = t[1]}

Symmetric == Permutations(Reqs)
=============================================================================
