---------------------------- MODULE MCScheduler ----------------------------
(* Instances of Scheduler for TLC. *)
EXTENDS Scheduler

CONSTANTS r1, r2, r3, b1, b2, b3, b4, b5, b6, b7

ThreeBlocks == <<b1, b2, b3>>
SevenBlocks == <<b1, b2, b3, b4, b5, b6, b7>>

\* The block hashes of the one text.
TextHashes == {[i \in 1 .. n * BlockSize |-> i] : n \in 1 .. MaxModelLen \div BlockSize}

MCPromptLen == [r \in Reqs |-> CASE r = r1 -> 3 [] r = r2 -> 2 [] OTHER -> 1]
LongPrompt == [r \in Reqs |-> IF r = r1 THEN 6 ELSE 1]
MCRank == [r \in Reqs |-> CASE r = r1 -> 2 [] r = r2 -> 1 [] OTHER -> 3]

Config(async, size, tokens, budget, policy, pauses, resets) ==
    [async |-> async, batchQueueSize |-> size, maxTokens |-> tokens, tokenBudget |-> budget,
     policy |-> policy, pauses |-> pauses, resets |-> resets]

\* EngineCore.step with the priority policy, pauses and resets, and
\* AsyncScheduler with two batches in flight.
BothModes == {Config(FALSE, 1, 2, 3, "priority", TRUE, BOOLEAN),
              Config(TRUE, 2, 3, 2, "fcfs", FALSE, {FALSE})}

OneStep == {Config(FALSE, 1, 1, 6, "fcfs", FALSE, {})}
AsyncResets == {Config(TRUE, 2, 3, 3, "fcfs", FALSE, {TRUE})}
PriorityResets == {Config(FALSE, 1, 2, 3, "priority", FALSE, {FALSE})}
ThreeBatches == {Config(FALSE, 3, 3, 3, "fcfs", FALSE, {})}
=============================================================================
