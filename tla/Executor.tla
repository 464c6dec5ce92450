------------------------------ MODULE Executor ------------------------------
(* MultiprocExecutor and its worker processes: remote calls that are         *)
(* broadcast to all workers, futures that are answered over one queue per    *)
(* worker, time limits, failing calls, workers that die, and the shutdown    *)
(* that follows.  The message queues are those that ShmBroadcast implements: *)
(* every worker gets every call, in order.                                   *)
EXTENDS Naturals, Sequences, FiniteSets

CONSTANTS
    Workers,        \* the ranks 0 .. world_size - 1
    OutputRank,     \* the rank that answers for the model
    QueueSize,      \* max_concurrent_batches
    AsyncOutput,    \* workers send outputs from a thread (async scheduling)
    UtilTimeout,    \* utility calls have a time limit
    MaxCalls,       \* bound: remote calls
    MaxUtility,     \* bound: utility calls among them
    MaxFaults       \* bound: calls that raise, threads and workers that die

ASSUME ExecutorAssumption ==
    /\ Workers = 0 .. Cardinality(Workers) - 1 /\ OutputRank \in Workers
    /\ {QueueSize, MaxCalls, MaxUtility, MaxFaults} \subseteq Nat
    /\ {AsyncOutput, UtilTimeout} \subseteq BOOLEAN

VARIABLES
    agg,        \* a kv_output_aggregator wants the answers of all ranks
    calls,      \* the remote calls: kind, ranks that answer, outcome, answers
    fut,        \* futures_queue, oldest first
    cur,        \* the future being answered and the ranks it still reads
    eng,        \* the engine's loop and its batch_queue
    wk,         \* the worker processes
    resp,       \* resp[w]: worker_response_mq of worker w
    sup,        \* is_failed, shutting_down, queues shut down, callback called
    faults      \* faults so far

vars == <<agg, calls, fut, cur, eng, wk, resp, sup, faults>>

NoCall == [call |-> 0, todo |-> {}]

Init ==
    /\ agg \in BOOLEAN
    /\ calls = <<>> /\ fut = <<>> /\ cur = NoCall
    /\ eng = [pc |-> "loop", target |-> 0, batch |-> <<>>]
    /\ wk = [w \in Workers |-> [pc |-> "up", got |-> 0, out |-> <<>>, thread |-> TRUE]]
    /\ resp = [w \in Workers |-> <<>>]
    /\ sup = [failed |-> FALSE, stopping |-> FALSE, down |-> FALSE, told |-> FALSE]
    /\ faults = 0

-----------------------------------------------------------------------------
(* collective_rpc, called by the engine's loop.                              *)

Usable == ~sup.failed /\ ~sup.down
Call(kind) == [kind |-> kind, st |-> "pending", ans |-> {},
               ranks |-> IF kind = "util" \/ agg THEN Workers ELSE {OutputRank}]

\* execute_model and sample_tokens of one batch, without waiting.
Step ==
    LET n == Len(calls) IN
    /\ eng.pc = "loop" /\ Len(eng.batch) < QueueSize /\ n + 2 <= MaxCalls
    /\ IF Usable
       THEN /\ calls' = calls \o <<Call("execute"), Call("sample")>>
            /\ fut' = fut \o <<n + 1, n + 2>>
            /\ eng' = [eng EXCEPT !.batch = Append(@, n + 2)]
       ELSE eng' = [eng EXCEPT !.pc = "dead"] /\ UNCHANGED <<calls, fut>>
    /\ UNCHANGED <<agg, cur, wk, resp, sup, faults>>

\* A utility call of a client; what it raises goes back to the client.
Utility ==
    LET n == Len(calls) IN
    /\ eng.pc = "loop" /\ n < MaxCalls /\ Usable
    /\ Cardinality({c \in 1 .. n : calls[c].kind = "util"}) < MaxUtility
    /\ calls' = Append(calls, Call("util"))
    /\ fut' = Append(fut, n + 1)
    /\ eng' = [eng EXCEPT !.pc = "wait", !.target = n + 1]
    /\ UNCHANGED <<agg, cur, wk, resp, sup, faults>>

\* step_with_batch_queue waits for its oldest batch.
AwaitBatch ==
    /\ eng.pc = "loop" /\ eng.batch # <<>>
    /\ eng' = [eng EXCEPT !.pc = "wait", !.target = Head(eng.batch)]
    /\ UNCHANGED <<agg, calls, fut, cur, wk, resp, sup, faults>>

\* Mutant: the newest future is answered first.
PopFutureNewest ==
    /\ eng.pc = "wait" /\ cur = NoCall /\ calls[eng.target].st = "pending"
    /\ cur' = [call |-> fut[Len(fut)], todo |-> calls[fut[Len(fut)]].ranks]
    /\ fut' = SubSeq(fut, 1, Len(fut) - 1)
    /\ UNCHANGED <<agg, calls, eng, wk, resp, sup, faults>>

\* FutureWrapper.result answers the futures ahead of its own first.
PopFuture ==
    /\ eng.pc = "wait" /\ cur = NoCall /\ calls[eng.target].st = "pending"
    /\ cur' = [call |-> Head(fut), todo |-> calls[Head(fut)].ranks]
    /\ fut' = Tail(fut)
    /\ UNCHANGED <<agg, calls, eng, wk, resp, sup, faults>>

\* get_response reads from the lowest rank first.
Reads(w) == cur # NoCall /\ w \in cur.todo /\ \A v \in cur.todo : w <= v

\* get_response dequeues one answer; a FAILURE raises and leaves the rest.
Receive(w) ==
    LET m == Head(resp[w])
        last == cur.todo = {w}
    IN /\ Reads(w) /\ resp[w] # <<>>
       /\ resp' = [resp EXCEPT ![w] = Tail(@)]
       /\ calls' = [calls EXCEPT ![cur.call].ans = @ \union {m.call},
                                 ![cur.call].st = IF ~m.ok THEN "raised" ELSE IF last THEN "ok" ELSE @]
       /\ cur' = IF m.ok /\ ~last THEN [cur EXCEPT !.todo = @ \ {w}] ELSE NoCall
       /\ UNCHANGED <<agg, fut, eng, wk, sup, faults>>

\* The time limit of a call; batches always have one.
Limited(c) == calls[c].kind # "util" \/ UtilTimeout


\* Mutant: shutting the queue down does not cancel a dequeue.
GiveUpTimedOut(w) ==
    /\ Reads(w) /\ resp[w] = <<>>
    /\ Limited(cur.call)
    /\ calls' = [calls EXCEPT ![cur.call].st = "raised"]
    /\ cur' = NoCall
    /\ UNCHANGED <<agg, fut, eng, wk, resp, sup, faults>>

\* dequeue times out, or is cancelled because the queue was shut down.
GiveUp(w) ==
    /\ Reads(w) /\ resp[w] = <<>>
    /\ Limited(cur.call) \/ sup.down
    /\ calls' = [calls EXCEPT ![cur.call].st = "raised"]
    /\ cur' = NoCall
    /\ UNCHANGED <<agg, fut, eng, wk, resp, sup, faults>>

\* The engine has its result.  An exception of a batch ends the engine, one of
\* a utility call does not.
Return ==
    LET c == eng.target IN
    /\ eng.pc = "wait" /\ calls[c].st # "pending"
    /\ eng' = IF calls[c].kind = "util" THEN [eng EXCEPT !.pc = "loop"]
              ELSE [eng EXCEPT !.batch = Tail(@),
                               !.pc = IF "raised" \in {calls[c].st, calls[c - 1].st} THEN "dead" ELSE "loop"]
    /\ UNCHANGED <<agg, calls, fut, cur, wk, resp, sup, faults>>

\* EXECUTOR_FAILED arrives in the engine's input queue.
ExecutorFailed ==
    /\ eng.pc = "loop" /\ sup.told
    /\ eng' = [eng EXCEPT !.pc = "dead"]
    /\ UNCHANGED <<agg, calls, fut, cur, wk, resp, sup, faults>>

-----------------------------------------------------------------------------
(* The workers.                                                              *)

\* worker_busy_loop dequeues a call and runs it.  execute_model returns when all
\* workers have reached it and take part in its collective operations.  A rank
\* that has to answer does so, with FAILURE if the call raised, or leaves it to
\* its thread.
Run(w, ok) ==
    LET c == wk[w].got + 1
        answer == IF w \in calls[c].ranks THEN <<[call |-> c, ok |-> ok]>> ELSE <<>>
    IN /\ wk[w].pc = "up" /\ c <= Len(calls)
       /\ calls[c].kind = "execute" =>
            \A v \in Workers : wk[v].got >= c \/ (wk[v].got = c - 1 /\ wk[v].pc = "up")
       /\ ok \/ faults < MaxFaults
       /\ faults' = IF ok THEN faults ELSE faults + 1
       /\ wk' = [wk EXCEPT ![w].got = c, ![w].out = IF AsyncOutput THEN @ \o answer ELSE @]
       /\ resp' = IF AsyncOutput THEN resp ELSE [resp EXCEPT ![w] = @ \o answer]
       /\ UNCHANGED <<agg, calls, fut, cur, eng, sup>>

\* async_output_busy_loop.
Output(w) ==
    /\ wk[w].pc # "dead" /\ wk[w].thread /\ wk[w].out # <<>>
    /\ resp' = [resp EXCEPT ![w] = Append(@, Head(wk[w].out))]
    /\ wk' = [wk EXCEPT ![w].out = Tail(@)]
    /\ UNCHANGED <<agg, calls, fut, cur, eng, sup, faults>>

\* get_output raises in the thread, which nothing catches.
ThreadDies(w) ==
    /\ wk[w].pc # "dead" /\ wk[w].thread /\ wk[w].out # <<>> /\ faults < MaxFaults
    /\ wk' = [wk EXCEPT ![w].thread = FALSE, ![w].out = Tail(@)]
    /\ faults' = faults + 1
    /\ UNCHANGED <<agg, calls, fut, cur, eng, resp, sup>>

Killed(w) ==
    /\ wk[w].pc # "dead" /\ faults < MaxFaults
    /\ wk' = [wk EXCEPT ![w].pc = "dead", ![w].out = <<>>]
    /\ faults' = faults + 1
    /\ UNCHANGED <<agg, calls, fut, cur, eng, resp, sup>>

-----------------------------------------------------------------------------
(* Supervision.                                                              *)

AllDead == \A w \in Workers : wk[w].pc = "dead"

\* monitor_workers sees that a worker has died.
Notice ==
    /\ ~sup.stopping /\ ~sup.failed /\ \E w \in Workers : wk[w].pc = "dead"
    /\ sup' = [sup EXCEPT !.failed = TRUE]
    /\ UNCHANGED <<agg, calls, fut, cur, eng, wk, resp, faults>>

\* shutdown closes the death pipes: called by the monitor, or by an engine that
\* ends.
Shutdown ==
    /\ ~sup.stopping /\ (sup.failed \/ eng.pc = "dead")
    /\ sup' = [sup EXCEPT !.stopping = TRUE]
    /\ UNCHANGED <<agg, calls, fut, cur, eng, wk, resp, faults>>

\* shutdown waits until the workers have ended, terminates those that have not,
\* and shuts the queues down.
Terminate ==
    /\ sup.stopping /\ ~sup.down
    /\ wk' = [w \in Workers |-> [wk[w] EXCEPT !.pc = "dead", !.out = <<>>]]
    /\ sup' = [sup EXCEPT !.down = TRUE]
    /\ UNCHANGED <<agg, calls, fut, cur, eng, resp, faults>>

\* The monitor calls failure_callback.
Tell ==
    /\ sup.failed /\ sup.down /\ ~sup.told
    /\ sup' = [sup EXCEPT !.told = TRUE]
    /\ UNCHANGED <<agg, calls, fut, cur, eng, wk, resp, faults>>

-----------------------------------------------------------------------------
Engine ==
    \/ AwaitBatch \/ PopFuture \/ Return \/ ExecutorFailed
    \/ \E w \in Workers : Receive(w) \/ GiveUp(w)

Worker(w) == Run(w, TRUE) \/ Output(w)

Supervision == Notice \/ Shutdown \/ Terminate \/ Tell

Faults(w) == Run(w, FALSE) \/ ThreadDies(w) \/ Killed(w)

Next ==
    \/ Step \/ Utility \/ Engine \/ Supervision
    \/ \E w \in Workers : Worker(w) \/ Faults(w)

Spec == Init /\ [][Next]_vars

\* Every process and the monitor thread keep running; a wait for a batch ends
\* at the latest with its time limit.
Fairness ==
    /\ WF_vars(Engine) /\ WF_vars(Supervision)
    /\ \A w \in Workers : WF_vars(Worker(w))

FairSpec == Spec /\ Fairness

-----------------------------------------------------------------------------
(* Properties.                                                               *)

Raised == \E c \in DOMAIN calls : calls[c].st = "raised"
Awaited(w) == SelectSeq(<<cur.call>> \o fut, LAMBDA c : c # 0 /\ w \in calls[c].ranks
                                                        /\ (c = cur.call => w \in cur.todo))

\* Until a call raises, every future gets the answers to its own call, and the
\* answers in a worker's queue are those that the pending futures will read, in
\* this order, although the queues do not say which call an answer is for.
AnswersMatch ==
    ~Raised =>
        /\ \A c \in DOMAIN calls : calls[c].ans \subseteq {c}
        /\ \A w \in Workers : Len(resp[w]) <= Len(Awaited(w)) /\
                              \A i \in DOMAIN resp[w] : resp[w][i].call = Awaited(w)[i]

Pending(c) == c \in DOMAIN calls /\ calls[c].st = "pending"
Hangs(c) == Pending(c) /\ ~Limited(c) /\ \E w \in Workers : ~wk[w].thread


\* A worker that dies takes the engine down, also when it waits for the answer of
\* that worker, and an engine that ends leaves no worker behind.
FailureStopsAll ==
    (eng.pc = "dead" \/ \E w \in Workers : wk[w].pc = "dead") ~> (eng.pc = "dead" /\ AllDead)
=============================================================================
