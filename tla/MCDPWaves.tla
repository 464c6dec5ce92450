----------------------------- MODULE MCDPWaves -----------------------------
(* DPWaves for TLC.                                                          *)
EXTENDS DPWaves

TwoRanks == {0, 1}
MCTokens == [r \in Reqs |-> IF r = 1 THEN 1 ELSE 2]
=============================================================================
