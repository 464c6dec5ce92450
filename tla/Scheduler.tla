----------------------------- MODULE Scheduler -----------------------------
(***************************************************************************)
(* Scheduler and AsyncScheduler (vllm/v1/core/sched), driven by the loop of*)
(* EngineCore.step and step_with_batch_queue.  schedule() and              *)
(* update_from_output() are split at their loops: one action per iteration,*)
(* one per preemption.  Nothing else of the engine runs between these,     *)
(* but the worker does, and so do its KV transfers.                        *)
(*                                                                         *)
(* Requests are text-only, without draft tokens, LoRA, structured output   *)
(* or streaming input, and chunked prefill is enabled.                     *)
(***************************************************************************)
EXTENDS ModelRunner

CONSTANTS
    BlockOrder,                 \* the blocks in the order of their ids
    MaxRunning,                 \* max_num_running_reqs
    LongPrefill,                \* long_prefill_token_threshold; 0 for none
    Rank,                       \* (priority, arrival_time): smaller is served first
    ReserveFullISL,             \* scheduler_reserve_full_isl
    Connector,                  \* a KV connector loads and sends blocks
    MaxExternal,                \* bound on the tokens it offers
    FailurePolicies,            \* values of kv_load_failure_policy that it explores
    AbortAllowed,               \* clients abort requests
    Configs                     \* the configurations that are explored

VARIABLES
    pc,                         \* where the engine loop is
    kv, req,                    \* KVCacheManager, self.requests
    running, waiting, skipped,  \* the three queues
    pass,                       \* the local variables of schedule()
    upd,                        \* the local variables of update_from_output()
    batches,                    \* batch_queue: outputs not yet seen, oldest first
    prev,                       \* prev_step_scheduled_req_ids
    dev,                        \* the device
    pause,                      \* _pause_state
    fin,                        \* finished_req_ids is not empty
    xfer,                       \* the worker's transfers, by request
    recvd, failed,              \* finished_ and failed_recving_kv_req_ids
    raised                      \* an assertion of the code failed

queues == <<running, waiting, skipped>>
transfers == <<xfer, recvd, failed>>
vars ==
    <<config, pc, kv, req, queues, pass, upd, batches, prev, dev, pause, fin, transfers, raised>>

MaxTokens == config.maxTokens               \* max_tokens of every request
TokenBudget == config.tokenBudget           \* max_num_scheduled_tokens
BatchQueueSize == config.batchQueueSize     \* batches in flight; 1 for EngineCore.step
Policy == config.policy                     \* "fcfs" or "priority"
PauseAllowed == config.pauses               \* clients pause and resume the scheduler
ResetCalls == config.resets                 \* values of reset_running_requests

ASSUME SchedulerAssumption ==
    /\ BlockOrder \in Seq(Blocks) /\ NoRepeats(BlockOrder) /\ Elems(BlockOrder) = Blocks
    /\ Configs \subseteq [async : BOOLEAN, batchQueueSize : Nat \ {0}, maxTokens : Nat \ {0},
                         tokenBudget : Nat \ {0}, policy : {"fcfs", "priority"},
                         pauses : BOOLEAN, resets : SUBSET BOOLEAN]
    /\ \A c \in Configs : c.async => c.batchQueueSize > 1
    /\ MaxRunning \in Nat \ {0} /\ LongPrefill \in Nat
    /\ MaxExternal \in Nat /\ (MaxExternal > 0 => Connector)
    /\ {ReserveFullISL, Connector, AbortAllowed} \subseteq BOOLEAN
    /\ FailurePolicies \subseteq {"recompute", "fail"}
    /\ \A r \in Reqs : PromptLen[r] \in 1 .. MaxModelLen - 1
    /\ \A r, s \in Reqs : Rank[r] = Rank[s] => r = s
    \* KV-cache initialisation refuses a cache that one request could outgrow.
    /\ Cardinality(Blocks) * BlockSize >= MaxModelLen

-----------------------------------------------------------------------------
NoRequest ==
    [st |-> "none", tok |-> <<>>, computed |-> 0, ph |-> 0, discard |-> FALSE, again |-> FALSE]

NewRequest(r) == [NoRequest EXCEPT !.st = "WAITING", !.tok = Prompt(r)]

NoPass == [idx |-> 1, budget |-> 0, cur |-> <<>>, n |-> 0, new |-> [r \in Reqs |-> 0],
           order |-> <<>>, fresh |-> {}, preempted |-> FALSE, skip |-> <<>>]

NoUpdate == [todo |-> <<>>, stopped |-> {}, late |-> {}, recv |-> {}, bad |-> {}]

\* A transfer: its target blocks, the tokens it loads, the block that failed.
NoTransfer == [st |-> "none", tbl |-> <<>>, lo |-> 1, hi |-> 0, bad |-> 0]

Init ==
    /\ config \in Configs
    /\ pc = "idle" /\ kv = NewKV(BlockOrder) /\ req = [r \in Reqs |-> NoRequest]
    /\ running = <<>> /\ waiting = <<>> /\ skipped = <<>>
    /\ pass = NoPass /\ upd = NoUpdate /\ batches = <<>> /\ prev = {} /\ dev = NewDevice
    /\ pause = "UNPAUSED" /\ fin = FALSE
    /\ xfer = [r \in Reqs |-> NoTransfer] /\ recvd = {} /\ failed = {} /\ raised = FALSE

\* FCFSRequestQueue and PriorityRequestQueue, the heap as a sorted sequence.
Sorted(q, r) ==
    SelectSeq(q, LAMBDA x : Rank[x] < Rank[r]) \o <<r>> \o SelectSeq(q, LAMBDA x : Rank[x] > Rank[r])
AddTo(q, r) == IF Policy = "fcfs" THEN Append(q, r) ELSE Sorted(q, r)
Prepend(q, r) == IF Policy = "fcfs" THEN <<r>> \o q ELSE Sorted(q, r)
PrependAll(q, s) == IF Policy = "fcfs" THEN Reverse(s) \o q ELSE FoldLeft(Sorted, q, s)

\* get_num_unfinished_requests, has_requests.
NumUnfinished ==
    CASE pause = "PAUSED_ALL" -> 0
      [] pause = "PAUSED_NEW" -> Len(running)
      [] OTHER -> Len(running) + Len(waiting) + Len(skipped)
HasRequests == NumUnfinished > 0 \/ fin

\* The arguments of allocate_slots for a request with state q.
Args(q, new, hits, ext, delay) ==
    [computed |-> q.computed, tokens |-> Len(q.tok), hashes |-> BlockHashes(q.tok),
     new |-> new, hits |-> hits, ext |-> ext, lookahead |-> 0, delay |-> delay]

-----------------------------------------------------------------------------
(* Calls from the client, handled between two steps of the engine. *)

\* add_request.  Request ids are not used twice: a model id is free again once
\* no batch and no transfer knows it.
AddRequest(r) ==
    /\ pc = "idle" /\ req[r].st = "none" /\ xfer[r] = NoTransfer
    /\ \A i \in DOMAIN batches : \A j \in DOMAIN batches[i] : batches[i][j].r # r
    /\ req' = [req EXCEPT ![r] = NewRequest(r)]
    /\ waiting' = AddTo(waiting, r)
    /\ dev' = [dev EXCEPT !.tok[r] = <<>>]
    /\ UNCHANGED <<config, pc, kv, running, skipped, pass, upd, batches, prev, pause, fin, transfers, raised>>

\* Mutation: the blocks are never given back.
FreeRequestLeaks(k, r, q, keep) == k

\* _free_request and _connector_finished of request r, whose state is q, on the
\* pool k: blocks before the window are freed, the others unless they are kept.
FreeRequest(k, r, q, keep) ==
    LET k1 == IF Connector THEN RemoveSkippedBlocks(k, r, Len(q.tok)) ELSE k
    IN  IF keep THEN k1 ELSE Free(k1, r)

\* What remains of the request, of which only the status matters, and of its transfer.
Freed(keep) == IF keep THEN [NoRequest EXCEPT !.st = "FINISHED"] ELSE NoRequest
Sending == [NoTransfer EXCEPT !.st = "sending"]

\* A connector may ask to keep a finished request's blocks until it has sent
\* them; a request that is still being loaded has nothing to send.
SendChoices(r) ==
    IF Connector /\ xfer[r].st = "none" /\ kv.tbl[r] # <<>> THEN BOOLEAN ELSE {FALSE}

\* Mutation: the blocks of a request are freed while they are being loaded.
NeverLoading(r) == FALSE

Loading(r) == req[r].st = "WAITING_FOR_REMOTE_KVS" /\ r \notin recvd

\* Mutation: a request that was preempted is looked for where it ran.
RemoveFromRunning(r) == running' = Without(running, {r}) /\ UNCHANGED <<waiting, skipped>>

RemoveFromQueues(r) ==
    /\ running' = Without(running, {r})
    /\ waiting' = Without(waiting, {r})
    /\ skipped' = Without(skipped, {r})

\* finish_requests of one request, from the input queue or the aborts queue.
FinishRequest(r, send) ==
    LET keep == Loading(r) \/ send
    IN  /\ kv' = FreeRequest(kv, r, req[r], keep)
        /\ req' = [req EXCEPT ![r] = Freed(keep)]
        /\ RemoveFromQueues(r)
        /\ xfer' = IF send THEN [xfer EXCEPT ![r] = Sending] ELSE xfer
        /\ recvd' = recvd \ {r} /\ failed' = failed \ {r}
        /\ fin' = TRUE

AbortRequest(r, send) ==
    /\ AbortAllowed /\ pc \in {"idle", "wait"}
    /\ req[r].st \notin {"none", "FINISHED"}
    /\ send \in SendChoices(r)
    /\ FinishRequest(r, send)
    /\ UNCHANGED <<config, pc, pass, upd, batches, prev, dev, pause, raised>>

\* Mutation: a preempted request goes on where it was.
PreemptedKeepsComputed(q) == [q EXCEPT !.st = "PREEMPTED", !.again = TRUE]

\* Mutation: preemption forgets that a token is in flight.
PreemptedForgetsToken(q) == [q EXCEPT !.st = "PREEMPTED", !.computed = 0, !.again = TRUE, !.ph = 0]

\* _preempt_request; num_output_placeholders stays, the token still arrives.
Preempted(q) == [q EXCEPT !.st = "PREEMPTED", !.computed = 0, !.again = TRUE]

\* reset_prefix_cache(reset_running_requests): all running requests are
\* preempted, the last one first; their tokens in flight are to be discarded.
ResetPrefixCacheCall(preempt) ==
    LET back == IF preempt THEN Reverse(running) ELSE <<>>
    IN  /\ preempt \in ResetCalls /\ pc = "idle"
        /\ kv' = ResetPrefixCache(FoldLeft(Free, kv, back))
        /\ req' = [r \in Reqs |->
                     IF r \in Elems(back)
                       THEN [Preempted(req[r]) EXCEPT !.ph = 0, !.discard = TRUE]
                       ELSE req[r]]
        /\ waiting' = FoldLeft(Prepend, waiting, back)
        /\ running' = IF preempt THEN <<>> ELSE running
        /\ prev' = IF preempt THEN {} ELSE prev
        /\ UNCHANGED <<config, pc, skipped, pass, upd, batches, dev, pause, fin, transfers, raised>>

SetPauseState(p) ==
    /\ PauseAllowed /\ pc = "idle" /\ p # pause
    /\ pause' = p
    /\ UNCHANGED <<config, pc, kv, req, queues, pass, upd, batches, prev, dev, fin, transfers, raised>>

-----------------------------------------------------------------------------
(* schedule(): the running requests. *)

ScheduleBegin ==
    /\ pc = "idle" /\ HasRequests /\ Len(batches) < BatchQueueSize
    /\ pc' = "running"
    /\ pass' = [NoPass EXCEPT !.budget = IF pause = "PAUSED_ALL" THEN 0 ELSE TokenBudget]
    /\ UNCHANGED <<config, kv, req, queues, upd, batches, prev, dev, pause, fin, transfers, raised>>

\* The request at req_index, kept in `cur` while others are preempted for it.
Current == IF pass.cur # <<>> THEN pass.cur[1] ELSE running[pass.idx]
InRunningLoop ==
    pc = "running" /\ (pass.cur # <<>> \/ (pass.idx <= Len(running) /\ pass.budget > 0))

\* All tokens up to max_tokens are computed or in flight.
ReachesMaxTokens(r) ==
    req[r].ph > 0 /\ req[r].computed + 2 - req[r].ph >= PromptLen[r] + MaxTokens

\* Mutation: tokens that exceed the budget are put off together.
ChunkWhole(n) == IF n > pass.budget THEN 0 ELSE n

\* Of n new tokens, those that the threshold and the budget allow.
Chunk(n) == AtMost(IF LongPrefill > 0 THEN AtMost(n, LongPrefill) ELSE n, pass.budget)

\* num_new_tokens, not recomputed after a preemption.
NumNew(r) ==
    IF pass.cur # <<>> THEN pass.n
    ELSE AtMost(Chunk(Len(req[r].tok) + req[r].ph - req[r].computed),
                MaxModelLen - 1 - req[r].computed)

NothingToSchedule == pass.cur = <<>> /\ (ReachesMaxTokens(Current) \/ NumNew(Current) = 0)

SkipRunning ==
    /\ InRunningLoop /\ NothingToSchedule
    /\ pass' = [pass EXCEPT !.idx = @ + 1]
    /\ UNCHANGED <<config, pc, kv, req, queues, upd, batches, prev, dev, pause, fin, transfers, raised>>

Needed == AllocateSlots(kv, Current, Args(req[Current], NumNew(Current), <<>>, 0, FALSE))

ScheduleRunning ==
    LET r == Current
        n == NumNew(r)
    IN  /\ InRunningLoop /\ ~NothingToSchedule /\ Needed.ok
        /\ kv' = Needed.kv
        /\ pass' = [pass EXCEPT !.order = Append(@, r), !.new[r] = n, !.budget = @ - n,
                                !.idx = @ + 1, !.cur = <<>>, !.n = 0]
        /\ UNCHANGED <<config, pc, req, queues, upd, batches, prev, dev, pause, fin, transfers, raised>>

\* The request that is preempted for the current one.
Victim ==
    IF Policy = "fcfs" THEN Last(running)
    ELSE CHOOSE r \in Elems(running) : \A s \in Elems(running) : Rank[s] <= Rank[r]

\* allocate_slots failed: _preempt_request.  Under the priority policy the
\* victim may have been scheduled in this pass; then it is taken out of the batch.
PreemptRunning ==
    LET v == Victim
        r == Current
        drop == Policy = "priority" /\ v \in Elems(pass.order)
    IN  /\ InRunningLoop /\ ~NothingToSchedule /\ ~Needed.ok
        /\ kv' = Free(Needed.kv, v)
        /\ req' = [req EXCEPT ![v] = Preempted(@)]
        /\ running' = Without(running, {v})
        /\ waiting' = Prepend(waiting, v)
        /\ pass' = [pass EXCEPT !.order = IF drop THEN Without(@, {v}) ELSE @,
                                !.budget = IF drop THEN @ + pass.new[v] ELSE @,
                                !.new[v] = 0,
                                !.idx = IF drop THEN @ - 1 ELSE @,
                                !.cur = IF v = r THEN <<>> ELSE <<r>>,
                                !.n = IF v = r THEN 0 ELSE NumNew(r),
                                !.preempted = TRUE]
        /\ pc' = IF v = r THEN "dispatch" ELSE pc
        /\ raised' = (raised \/ req[v].st # "RUNNING")
        /\ UNCHANGED <<config, skipped, upd, batches, prev, dev, pause, fin, transfers>>

RunningDone ==
    /\ pc = "running" /\ ~InRunningLoop
    /\ pc' = IF ~pass.preempted /\ pause = "UNPAUSED" THEN "waiting" ELSE "dispatch"
    /\ UNCHANGED <<config, kv, req, queues, pass, upd, batches, prev, dev, pause, fin, transfers, raised>>

-----------------------------------------------------------------------------
(* schedule(): the waiting requests. *)

InWaitingLoop ==
    /\ pc = "waiting" /\ pass.budget > 0 /\ Len(running) # MaxRunning
    /\ waiting # <<>> \/ skipped # <<>>

\* _select_waiting_queue_for_scheduling.
FromSkipped ==
    /\ skipped # <<>>
    /\ Policy = "fcfs" \/ waiting = <<>> \/ Rank[skipped[1]] < Rank[waiting[1]]
Candidate == IF FromSkipped THEN skipped[1] ELSE waiting[1]
PopCandidate ==
    IF FromSkipped THEN skipped' = Tail(skipped) /\ UNCHANGED waiting
                   ELSE waiting' = Tail(waiting) /\ UNCHANGED skipped

\* _try_promote_blocked_waiting_request fails.
Blocked(r) == req[r].st = "WAITING_FOR_REMOTE_KVS" /\ r \notin recvd

\* A request that cannot be promoted is set aside for this pass.
SkipBlocked ==
    /\ InWaitingLoop /\ Blocked(Candidate)
    /\ PopCandidate
    /\ pass' = [pass EXCEPT !.skip = Prepend(@, Candidate)]
    /\ UNCHANGED <<config, pc, kv, req, running, upd, batches, prev, dev, pause, fin, transfers, raised>>

\* _update_waiting_for_remote_kv: the pool ...
PromotedKV(r) ==
    IF req[r].st # "WAITING_FOR_REMOTE_KVS" THEN kv
    ELSE IF r \in failed /\ req[r].computed = 0 THEN Free(kv, r)
    ELSE CacheBlocks(kv, r, BlockHashes(req[r].tok), req[r].computed)

\* ... and the request after the promotion.
PromotedRequest(r) ==
    LET q == req[r]
        whole == r \notin failed /\ q.computed = Len(q.tok)
    IN  IF q.st # "WAITING_FOR_REMOTE_KVS" THEN q
        ELSE [q EXCEPT !.st = IF q.again THEN "PREEMPTED" ELSE "WAITING",
                       !.computed = IF whole THEN @ - 1 ELSE @]

\* So is one for which the connector does not know the matched tokens yet.
SkipUnknown ==
    LET r == Candidate
    IN  /\ InWaitingLoop /\ ~Blocked(r)
        /\ Connector /\ PromotedRequest(r).computed = 0
        /\ PopCandidate
        /\ kv' = PromotedKV(r)
        /\ req' = [req EXCEPT ![r] = PromotedRequest(r)]
        /\ recvd' = recvd \ {r} /\ failed' = failed \ {r}
        /\ pass' = [pass EXCEPT !.skip = Prepend(@, r)]
        /\ UNCHANGED <<config, pc, running, upd, batches, prev, dev, pause, fin, xfer, raised>>

\* The head of the queue is admitted, put to loading, or ends the loop when it
\* does not fit.  ext tokens are loaded by the connector.
ScheduleWaiting(ext) ==
    LET r == Candidate
        k == PromotedKV(r)
        q == PromotedRequest(r)
        hits == IF q.computed = 0 THEN GetComputedBlocks(k, BlockHashes(q.tok), Len(q.tok)) ELSE <<>>
        local == q.computed + Len(hits) * BlockSize
        load == ext > 0
        n == IF load THEN 0 ELSE Chunk(Len(q.tok) - local)
        args == Args(q, n, hits, ext, load)
        res == AllocateSlots(k, r, args)
        fits == ReserveFullISL => CanFitFullSequence(k, r, args)
    IN  /\ InWaitingLoop /\ ~Blocked(r)
        /\ load => Connector /\ q.computed = 0 /\ local + ext <= Len(q.tok)
        /\ recvd' = recvd \ {r} /\ failed' = failed \ {r}
        /\ raised' = (raised \/ (~load /\ n <= 0))
        /\ kv' = IF fits THEN res.kv ELSE k
        /\ \/ /\ ~(fits /\ res.ok)
              /\ req' = [req EXCEPT ![r] = q]
              /\ pc' = "dispatch"
              /\ UNCHANGED <<queues, pass, xfer>>
           \/ /\ fits /\ res.ok /\ load
              /\ req' = [req EXCEPT ![r] = [q EXCEPT !.st = "WAITING_FOR_REMOTE_KVS",
                                                     !.computed = local + ext]]
              /\ PopCandidate
              /\ pass' = [pass EXCEPT !.skip = Prepend(@, r)]
              /\ xfer' = [xfer EXCEPT ![r] = [st |-> "loading", tbl |-> res.kv.tbl[r],
                                              lo |-> local + 1, hi |-> local + ext, bad |-> 0]]
              /\ UNCHANGED <<pc, running>>
           \/ /\ fits /\ res.ok /\ ~load
              /\ req' = [req EXCEPT ![r] = [q EXCEPT !.st = "RUNNING", !.computed = local]]
              /\ PopCandidate
              /\ running' = Append(running, r)
              /\ pass' = [pass EXCEPT !.order = Append(@, r), !.new[r] = n, !.budget = @ - n,
                                      !.fresh = @ \cup {r}]
              /\ UNCHANGED <<pc, xfer>>
        /\ UNCHANGED <<config, upd, batches, prev, dev, pause, fin>>

WaitingDone ==
    /\ pc = "waiting" /\ ~InWaitingLoop
    /\ pc' = "dispatch"
    /\ UNCHANGED <<config, kv, req, queues, pass, upd, batches, prev, dev, pause, fin, transfers, raised>>

\* The end of schedule(), _update_after_schedule, and execute_model.  The engine
\* then waits for the oldest batch, or schedules another one first.
Dispatch ==
    LET x == ExecuteModel(dev, kv, req, pass.order, pass.new, pass.fresh)
        inBatch == Elems(pass.order)
        end(r) == req[r].computed + pass.new[r]
        samples(r) == Async /\ end(r) >= Len(req[r].tok) + req[r].ph
    IN  /\ pc = "dispatch"
        /\ raised' = (raised \/ pass.budget < 0 \/ Len(running) > MaxRunning
                             \/ Len(pass.order) > Len(running)
                             \/ \E r \in pass.fresh \cap prev : req[r].again)
        /\ dev' = x.dev
        /\ batches' = Append(batches, x.out)
        /\ req' = [r \in Reqs |-> IF r \in inBatch
                                    THEN [req[r] EXCEPT !.computed = end(r),
                                                        !.ph = IF samples(r) THEN @ + 1 ELSE @]
                                    ELSE req[r]]
        /\ skipped' = PrependAll(skipped, pass.skip)
        /\ prev' = inBatch /\ fin' = FALSE /\ pass' = NoPass
        /\ \/ pc' = "wait"
           \/ pc' = "idle" /\ inBatch # {} /\ Len(batches') < BatchQueueSize
        /\ UNCHANGED <<config, kv, running, waiting, upd, pause, transfers>>

-----------------------------------------------------------------------------
(* update_from_output() of the oldest batch. *)

\* Mutation: blocks that could not be loaded still count as computed.
ValidTokensAll(r) == req[r].computed

\* The tokens before the first invalid block.
ValidTokens(r) == (xfer[r].bad - 1) * BlockSize

\* The worker reports the loads `recv` as finished, with the blocks that could
\* not be loaded: _handle_invalid_blocks.  All loads are asynchronous, so only
\* requests that wait for them are affected.
UpdateBegin(recv, policy) ==
    LET bad == {r \in recv : xfer[r].bad > 0 /\ req[r].st = "WAITING_FOR_REMOTE_KVS"}
    IN  /\ batches # <<>>
        /\ pc = "wait" \/ (pc = "idle" /\ ~HasRequests)
        /\ recv \subseteq {r \in Reqs : xfer[r].st \in {"loaded", "sent"}}
        /\ pc' = "update"
        /\ upd' = [NoUpdate EXCEPT !.todo = batches[1], !.recv = recv,
                                   !.bad = IF policy = "fail" THEN bad ELSE {}]
        /\ batches' = Tail(batches)
        /\ req' = [r \in Reqs |-> IF r \in bad
                                    THEN [req[r] EXCEPT !.computed = ValidTokens(r)]
                                    ELSE req[r]]
        /\ failed' = IF policy = "fail" THEN failed ELSE failed \cup bad
        /\ UNCHANGED <<config, kv, queues, pass, prev, dev, pause, fin, xfer, recvd, raised>>

InUpdateLoop == pc = "update" /\ upd.todo # <<>>
Output == upd.todo[1]
Gone(r) == req[r].st \in {"none", "FINISHED"}

\* The output is a token for a request that is still there and wants it.
Delivers ==
    /\ InUpdateLoop /\ ~Gone(Output.r) /\ Output.tok # <<>>
    /\ ~(Async /\ req[Output.r].discard)

\* A request that has finished meanwhile, or sampled nothing; a token that
\* reset_prefix_cache asked to discard.
UpdateSkip ==
    LET r == Output.r
    IN  /\ InUpdateLoop /\ ~Delivers
        /\ req' = IF Gone(r) \/ Output.tok = <<>> THEN req
                  ELSE [req EXCEPT ![r].discard = FALSE]
        /\ upd' = [upd EXCEPT !.todo = Tail(@)]
        /\ UNCHANGED <<config, pc, kv, queues, pass, batches, prev, dev, pause, fin, transfers, raised>>

\* The token is appended, and check_stop may stop the request: always at the
\* length limits, at any token that may be an end-of-sequence token.
UpdateToken(stop, send) ==
    LET r == Output.r
        q == [req[r] EXCEPT !.tok = Append(@, Output.tok[1]),
                            !.ph = IF Async THEN @ - 1 ELSE @]
        atLimit == Len(q.tok) >= MaxModelLen \/ Len(q.tok) - PromptLen[r] >= MaxTokens
        k == IF Async /\ q.st = "RUNNING"
               THEN CacheBlocks(kv, r, BlockHashes(q.tok), q.computed - q.ph) ELSE kv
    IN  /\ Delivers
        /\ atLimit => stop
        /\ send \in (IF stop THEN SendChoices(r) ELSE {FALSE})
        /\ raised' = (raised \/ q.ph < 0)
        /\ kv' = IF stop THEN FreeRequest(k, r, q, send) ELSE k
        /\ req' = [req EXCEPT ![r] = IF stop THEN Freed(send) ELSE q]
        /\ fin' = (fin \/ stop)
        /\ xfer' = IF send THEN [xfer EXCEPT ![r] = Sending] ELSE xfer
        /\ upd' = [upd EXCEPT !.todo = Tail(@),
                     !.stopped = IF stop /\ q.st = "RUNNING" THEN @ \cup {r} ELSE @,
                     !.late = IF stop /\ q.st # "RUNNING" THEN @ \cup {r} ELSE @]
        /\ UNCHANGED <<config, pc, queues, pass, batches, prev, dev, pause, recvd, failed>>

\* The stopped requests leave the queues, the requests whose load failed are
\* finished, and _update_from_kv_xfer_finished takes the finished transfers:
\* the blocks of finished requests are freed.
UpdateEnd ==
    LET bad == upd.bad
        freed == {r \in upd.recv : req[r].st = "FINISHED"} \cup bad
        k1 == FoldSet(LAMBDA r, k : FreeRequest(k, r, req[r], TRUE), kv, bad)
    IN  /\ pc = "update" /\ upd.todo = <<>>
        /\ pc' = "idle" /\ upd' = NoUpdate
        /\ running' = Without(running, upd.stopped)
        /\ waiting' = Without(waiting, upd.late \cup bad)
        /\ skipped' = Without(skipped, bad)
        /\ kv' = FoldSet(LAMBDA r, k : Free(k, r), k1, freed)
        /\ req' = [r \in Reqs |-> IF r \in freed THEN NoRequest ELSE req[r]]
        /\ recvd' = recvd \cup (upd.recv \ freed)
        /\ xfer' = [r \in Reqs |-> IF r \in upd.recv THEN NoTransfer ELSE xfer[r]]
        /\ fin' = (fin \/ bad # {})
        /\ raised' = (raised \/ \E r \in upd.recv : req[r].st = "none")
        /\ UNCHANGED <<config, pass, batches, prev, dev, pause, failed>>

-----------------------------------------------------------------------------
(* The worker's side of the connector. *)

\* A load ends: all of its tokens are in their blocks, or those before the
\* block number `bad` of the table, which is reported as invalid.
WorkerLoad(r, bad) ==
    LET x == xfer[r]
        hit(b, o) == {p \in x.lo .. x.hi : x.tbl[BlockOf(p)] = b /\ OffsetOf(p) = o
                                             /\ (bad > 0 => BlockOf(p) < bad)}
    IN  /\ x.st = "loading"
        /\ bad = 0 \/ bad \in BlockOf(x.lo) .. BlockOf(x.hi)
        /\ xfer' = [xfer EXCEPT ![r].st = "loaded", ![r].bad = bad]
        /\ dev' = [dev EXCEPT !.kvc = [b \in Blocks |-> [o \in 1 .. BlockSize |->
                     IF hit(b, o) = {} THEN @[b][o] ELSE CHOOSE p \in hit(b, o) : TRUE]]]
        /\ UNCHANGED <<config, pc, kv, req, queues, pass, upd, batches, prev, pause, fin, recvd, failed, raised>>

WorkerSend(r) ==
    /\ xfer[r].st = "sending"
    /\ xfer' = [xfer EXCEPT ![r].st = "sent"]
    /\ UNCHANGED <<config, pc, kv, req, queues, pass, upd, batches, prev, dev, pause, fin, recvd, failed, raised>>

Client ==
    \/ \E r \in Reqs : AddRequest(r)
    \/ \E r \in Reqs, send \in BOOLEAN : AbortRequest(r, send)
    \/ \E preempt \in BOOLEAN : ResetPrefixCacheCall(preempt)
    \/ \E p \in {"UNPAUSED", "PAUSED_NEW", "PAUSED_ALL"} : SetPauseState(p)

Engine ==
    \/ ScheduleBegin \/ SkipRunning \/ ScheduleRunning \/ PreemptRunning \/ RunningDone
    \/ SkipBlocked \/ SkipUnknown
    \/ \E ext \in 0 .. MaxExternal : ScheduleWaiting(ext)
    \/ WaitingDone \/ Dispatch
    \/ \E recv \in SUBSET Reqs, policy \in FailurePolicies : UpdateBegin(recv, policy)
    \/ UpdateSkip
    \/ \E stop, send \in BOOLEAN : UpdateToken(stop, send)
    \/ UpdateEnd

Worker ==
    \/ \E r \in Reqs, bad \in 0 .. MaxModelLen : WorkerLoad(r, bad)
    \/ \E r \in Reqs : WorkerSend(r)

Next == Client \/ Engine \/ Worker

Spec == Init /\ [][Next]_vars

-----------------------------------------------------------------------------
Statuses == {"none", "WAITING", "WAITING_FOR_REMOTE_KVS", "RUNNING", "PREEMPTED", "FINISHED"}

\* The state has the shape that the code gives it; in particular the number of
\* computed tokens and of output placeholders never becomes negative.
TypeOK ==
    /\ pc \in {"idle", "running", "waiting", "dispatch", "wait", "update"}
    /\ \A r \in Reqs : /\ req[r].st \in Statuses /\ req[r].tok \in Seq(Nat)
                       /\ req[r].computed \in 0 .. MaxModelLen /\ req[r].ph \in 0 .. BatchQueueSize
    /\ {running, waiting, skipped} \subseteq Seq(Reqs)
    /\ Len(batches) <= BatchQueueSize
    /\ pause \in {"UNPAUSED", "PAUSED_NEW", "PAUSED_ALL"} /\ fin \in BOOLEAN
    /\ recvd \subseteq Reqs /\ failed \subseteq Reqs

\* Between two steps every request of self.requests that has not finished is in
\* exactly one of the three queues, once, and its status says in which: schedule,
\* preemption, late outputs, aborts and resets never lose or duplicate a request.
QueuesAgree ==
    pc \in {"idle", "wait"} =>
      LET all == running \o waiting \o skipped
      IN  /\ NoRepeats(all)
          /\ \A r \in Reqs : /\ r \in Elems(all) <=> ~Gone(r)
                             /\ r \in Elems(running) <=> req[r].st = "RUNNING"
                             /\ req[r].st = "WAITING_FOR_REMOTE_KVS" => r \in Elems(skipped)

\* The tokens of every request are the text that the model continues: whatever is
\* preempted, resumed, aborted or in flight, no sampled token is lost, repeated,
\* or computed from KV data that is not the request's own prefix.  This includes
\* the token being delivered, which may be the last one of its request.
OutputsInOrder ==
    /\ \A r \in Reqs : \A i \in DOMAIN req[r].tok : req[r].tok[i] = i
    /\ Delivers => Output.tok[1] = Len(req[Output.r].tok) + 1

\* Once a batch is dispatched, every block that the prefix cache offers under a
\* hash holds (or will hold when the batch has run) the tokens of that hash.
CacheHolds ==
    pc \in {"idle", "wait", "update"} =>
      \A b \in Blocks : kv.hash[b] # NoHash =>
        \A o \in 1 .. BlockSize : dev.kvc[b][o] = Len(kv.hash[b]) - BlockSize + o

\* ref_cnt counts the tables that hold a block, the free queue holds the others,
\* and only requests that run, load, have loaded or are being sent hold blocks.
NoBlockLeaks ==
    /\ \A b \in Blocks : /\ kv.ref[b] = Cardinality({r \in Reqs : b \in Elems(kv.tbl[r])})
                         /\ b \in Elems(kv.free) <=> kv.ref[b] = 0
    /\ \A r \in Reqs : kv.tbl[r] # <<>> =>
         \/ req[r].st \in {"RUNNING", "WAITING_FOR_REMOTE_KVS"}
         \/ req[r].st = "FINISHED" /\ xfer[r] # NoTransfer
         \/ req[r].st \in {"WAITING", "PREEMPTED"} /\ Connector /\ req[r].computed > 0

\* num_output_placeholders is the number of tokens that the batches in flight
\* will deliver: the scheduler's guess of what the worker samples is exact.
PlaceholdersExact ==
    Async => \A r \in Reqs : ~Gone(r) =>
      LET samples(o) == {j \in DOMAIN o : o[j].r = r /\ o[j].tok # <<>>}
      IN  req[r].ph = Cardinality(UNION {{<<i, j>> : j \in samples(batches[i])} : i \in DOMAIN batches})
                        + Cardinality(samples(upd.todo))

\* The blocks that a worker is writing to belong to the request it loads.
LoadTargetsHeld ==
    \A r \in Reqs : xfer[r].st = "loading" =>
      \A b \in Elems(xfer[r].tbl) \ {Null} : b \in Elems(kv.tbl[r])

\* No assertion of schedule, update_from_output or the block pool fails.
NeverRaises == ~raised /\ ~kv.err

\* The busy loop steps the engine as long as has_work: weak fairness of Engine,
\* whose steps are those that move pc, pass or upd.
HasWork == pc # "idle" \/ HasRequests \/ batches # <<>>
EngineMoves == <<pc, pass, upd>>' # <<pc, pass, upd>>
FairSpec == Spec /\ ([]<>~HasWork \/ []<><<EngineMoves>>_vars)

\* First come, first served, and with nobody pausing the scheduler, every request
\* finishes: preemption and late outputs never starve one for ever.
EveryRequestFinishes ==
    \A r \in Reqs :
        Policy = "fcfs" /\ ~PauseAllowed /\ req[r].st # "none" ~> req[r].st = "none"
=============================================================================
