---------------------------- MODULE ModelRunner ----------------------------
(***************************************************************************)
(* GPUModelRunner as the scheduler sees it: a device that executes the     *)
(* batches in the order in which they are scheduled.  The state is a record*)
(*                                                                         *)
(*   kvc   what each slot of each block holds                              *)
(*   tok   the worker's copy of the tokens of every request, the sampled   *)
(*         ones that the scheduler has not seen yet included               *)
(*   last  the requests of the previous batch (the persistent batch)       *)
(*                                                                         *)
(* All requests continue one text, whose i-th token is the number i: the   *)
(* model samples i + 1 after the tokens 1 .. i, and Garbage when it has    *)
(* read a wrong token or a slot that does not hold what it should.  A slot *)
(* that holds p holds the KV data of token p computed from tokens 1 .. p.  *)
(***************************************************************************)
EXTENDS KVCacheOps, SequencesExt

CONSTANT PromptLen              \* number of prompt tokens of every request

VARIABLE config                 \* the engine's configuration, fixed at the start

Async == config.async           \* asynchronous scheduling

Garbage == 0

Prompt(r) == [i \in 1 .. PromptLen[r] |-> i]

NewDevice ==
    [kvc |-> [b \in Blocks |-> [o \in 1 .. BlockSize |-> Garbage]],
     tok |-> [r \in Reqs |-> <<>>],
     last |-> {}]

BlockOf(p) == Cdiv(p, BlockSize)
OffsetOf(p) == ((p - 1) % BlockSize) + 1

\* What slot p of the block table t holds.
Slot(kvc, t, p) == IF t[BlockOf(p)] = Null THEN Garbage ELSE kvc[t[BlockOf(p)]][OffsetOf(p)]

\* The worker's tokens of request r, whose scheduler state is q, when a batch
\* starts (_update_states).  num_output_tokens counts the placeholders.  A
\* request that stays in the persistent batch keeps the worker's own tokens;
\* one that is added again takes the scheduler's last num_output_tokens tokens
\* for its output, the placeholders counted.
WorkerTokens(d, q, r, fresh) ==
    LET outputs == Len(q.tok) - PromptLen[r] + q.ph
    IN  CASE ~Async -> q.tok
          [] Async /\ r \in d.last \ fresh ->
               SubSeq(d.tok[r], 1, AtMost(Len(d.tok[r]), PromptLen[r] + outputs))
          [] OTHER -> Prompt(r) \o SubSeq(q.tok, Len(q.tok) - outputs + 1, Len(q.tok))

\* Execution of n tokens of request r: they are written to their slots, and a
\* token is sampled unless the worker knows of later tokens.
Execute(d, k, q, r, n, fresh) ==
    LET w == WorkerTokens(d, q, r, fresh)
        t == k.tbl[r]
        end == q.computed + n
        holds(p) == IF p <= q.computed THEN Slot(d.kvc, t, p) = p
                                       ELSE p \in DOMAIN w /\ w[p] = p
        good(p) == \A x \in SkippedTokens(p - 1) + 1 .. p : holds(x)
        written(b, o) == {p \in q.computed + 1 .. end : t[BlockOf(p)] = b /\ OffsetOf(p) = o}
    IN  [d EXCEPT
           !.kvc = [b \in Blocks |-> [o \in 1 .. BlockSize |->
                      IF written(b, o) = {} THEN @[b][o]
                      ELSE LET p == CHOOSE p \in written(b, o) : TRUE
                           IN  IF good(p) THEN p ELSE Garbage]],
           !.tok[r] = IF end < Len(w) THEN w
                      ELSE Append(w, IF good(end) THEN end + 1 ELSE Garbage)]

\* Whether the worker samples a token for the request in this batch.
Samples(d, q, r, n, fresh) == q.computed + n >= Len(WorkerTokens(d, q, r, fresh))

\* What a block holds that nobody uses and nobody can find does not matter.
Forget(d, k) ==
    [d EXCEPT !.kvc = [b \in Blocks |-> IF k.ref[b] = 0 /\ k.hash[b] = NoHash
                                          THEN NewDevice.kvc[b] ELSE @[b]]]

\* A batch: the requests in `order`, n[r] tokens each.  The result is the
\* device after it and, for every request, the tokens sampled.
ExecuteModel(d, k, req, order, n, fresh) ==
    LET step(a, r) ==
          LET e == Execute(a.dev, k, req[r], r, n[r], fresh)
              out == IF Samples(a.dev, req[r], r, n[r], fresh) THEN <<Last(e.tok[r])>> ELSE <<>>
          IN  [dev |-> e, out |-> Append(a.out, [r |-> r, tok |-> out])]
        end == FoldLeft(step, [dev |-> Forget(d, k), out |-> <<>>], order)
    IN  [end EXCEPT !.dev.last = ToSet(order)]
=============================================================================
