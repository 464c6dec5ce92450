------------------------------ MODULE DPWaves ------------------------------
(* Request waves of data-parallel engines (DPEngineCoreProc), the            *)
(* coordinator (DPCoordinatorProc) and the front ends (DPAsyncMPClient).     *)
(* Every forward pass is a collective operation of all engines, and so is    *)
(* the all-reduce that decides whether a wave is over.                       *)
EXTENDS Naturals, Sequences, FiniteSets, SequencesExt

CONSTANTS
    Engines,        \* the ranks, 0 .. n - 1
    Clients,        \* front-end processes
    Reqs,           \* requests, each sent once
    Tokens,         \* Tokens[r]: forward passes that request r needs
    SyncEvery,      \* steps between two all-reduces (32 in the code)
    Abortable,      \* the requests that may be aborted
    PauseModes,     \* modes of pause_scheduler that are called
    MaxPauses,      \* bound: calls of pause_scheduler
    MaxPublished,   \* bound: publications in flight to one front end
    CalmAbort,      \* aborts only for requests that have been scheduled
    CalmPause,      \* pauses, and requests, only when they cannot meet
    PromptFirst     \* a front end forwards FIRST_REQ before it reads stats

ASSUME EnginesAssumption == Engines = 0 .. Cardinality(Engines) - 1
ASSUME IntervalAssumption == SyncEvery \in Nat \ {0}

NoEngine == Cardinality(Engines)      \* exclude_engine_index = None

VARIABLES
    eng,        \* the engine processes
    coord,      \* the coordinator's current_wave and engines_running
    fe,         \* the front ends' copies of them, and FIRST_REQ messages
    input,      \* input[c][e]: front end c to engine e
    start,      \* start[e]: START_DP_WAVE, coordinator to engine e
    front,      \* front[c]: front end c to coordinator
    back,       \* back[e]: engine e to coordinator
    pub,        \* pub[c]: coordinator to front end c
    req,        \* where each request is, and the tokens it still needs
    admin       \* the pause or resume call in progress

vars == <<eng, coord, fe, input, start, front, back, pub, req, admin>>

Init ==
    /\ eng = [e \in Engines |-> [wave |-> 0, on |-> FALSE, ctr |-> 0, pc |-> "top",
                                 waiting |-> {}, running |-> {}, fin |-> FALSE,
                                 unfinished |-> FALSE, pause |-> "unpaused", idleCb |-> FALSE]]
    /\ coord = [wave |-> 0, on |-> FALSE]
    /\ fe = [c \in Clients |-> [wave |-> 0, on |-> FALSE, first |-> <<>>]]
    /\ input = [c \in Clients |-> [e \in Engines |-> <<>>]]
    /\ start = [e \in Engines |-> <<>>]
    /\ front = [c \in Clients |-> <<>>]
    /\ back = [e \in Engines |-> <<>>]
    /\ pub = [c \in Clients |-> <<>>]
    /\ req = [r \in Reqs |-> [at |-> NoEngine, by |-> CHOOSE c \in Clients : TRUE,
                              left |-> Tokens[r], aborted |-> FALSE]]
    /\ admin = [call |-> "none", pending |-> {}, paused |-> FALSE, used |-> 0]

-----------------------------------------------------------------------------
(* What the scheduler of an engine reports.                                  *)

\* get_num_unfinished_requests() > 0, by the set it counts.
Unfinished(s) ==
    CASE s.pause = "paused_all" -> {}
      [] s.pause = "paused_new" -> s.running
      [] s.pause = "unpaused"   -> s.waiting \union s.running

HasRequests(s) == Unfinished(s) # {} \/ s.fin
HasWork(s) == s.on \/ HasRequests(s)

\* Nothing of a new wave is on its way and the engines agree on running.
Settled ==
    /\ \A e \in Engines : start[e] = <<>> /\ back[e] = <<>>
    /\ \A c \in Clients : front[c] = <<>> /\ fe[c].first = <<>> /\ \A e \in Engines : input[c][e] = <<>>
    /\ \/ \A e \in Engines : eng[e].on
       \/ \A e \in Engines : ~eng[e].on /\ eng[e].waiting \union eng[e].running = {}

-----------------------------------------------------------------------------
(* The front ends.                                                           *)

\* add_request_async: the request carries the wave the front end knows.
AddRequestAsync(c, r, e) ==
    /\ req[r].at = NoEngine
    /\ CalmPause => admin.call = "none" /\ ~admin.paused
    /\ req' = [req EXCEPT ![r].at = e, ![r].by = c]
    /\ input' = [input EXCEPT ![c][e] = Append(@, [kind |-> "add", r |-> r, wave |-> fe[c].wave])]
    /\ fe' = IF fe[c].on THEN fe ELSE [fe EXCEPT ![c].first = Append(@, e)]
    /\ UNCHANGED <<eng, coord, start, front, back, pub, admin>>

\* _abort_requests: sent to the engine recorded in reqs_in_flight.
AbortAsync(r) ==
    LET e == req[r].at IN
    /\ e # NoEngine /\ req[r].left > 0 /\ ~req[r].aborted
    /\ CalmAbort => r \in eng[e].running
    /\ req' = [req EXCEPT ![r].aborted = TRUE]
    /\ input' = [input EXCEPT ![req[r].by][e] = Append(@, [kind |-> "abort", r |-> r, wave |-> 0])]
    /\ UNCHANGED <<eng, coord, fe, start, front, back, pub, admin>>

\* The stats task forwards a FIRST_REQ with the wave it knows by now.
ForwardFirst(c) ==
    /\ fe[c].first # <<>>
    /\ front' = [front EXCEPT ![c] = Append(@, [exclude |-> Head(fe[c].first), wave |-> fe[c].wave])]
    /\ fe' = [fe EXCEPT ![c].on = TRUE, ![c].first = Tail(@)]
    /\ UNCHANGED <<eng, coord, input, start, back, pub, req, admin>>

\* The stats task drains what has arrived and keeps the latest.
TakeStats(c, n) ==
    /\ n \in 1 .. Len(pub[c])
    /\ fe[c].first = <<>> \/ (fe[c].on /\ ~PromptFirst)
    /\ fe' = [fe EXCEPT ![c].wave = pub[c][n].wave, ![c].on = pub[c][n].on]
    /\ pub' = [pub EXCEPT ![c] = SubSeq(@, n + 1, Len(@))]
    /\ UNCHANGED <<eng, coord, input, start, front, back, req, admin>>

\* call_utility_async: the call goes to every engine, all answers are awaited.
Call(c, name) ==
    /\ admin.call = "none"
    /\ CalmPause => Settled
    /\ \/ name \in PauseModes /\ ~admin.paused /\ admin.used < MaxPauses
       \/ name = "resume" /\ admin.paused
    /\ admin' = [call |-> name, pending |-> Engines, paused |-> name # "resume",
                 used |-> IF name = "resume" THEN admin.used ELSE admin.used + 1]
    /\ input' = [input EXCEPT ![c] = [e \in Engines |-> Append(@[e], [kind |-> name, r |-> 0, wave |-> 0])]]
    /\ UNCHANGED <<eng, coord, fe, start, front, back, pub, req>>

-----------------------------------------------------------------------------
(* The coordinator.                                                          *)

Publish(p, c0) == [c \in Clients |-> Append(p[c], c0)]

\* _send_start_wave: every engine receives it, one of them ignores it.
SendStartWave(wave, exclude) ==
    start' = [e \in Engines |-> Append(start[e], [wave |-> wave, exclude |-> exclude])]


\* A front end sent a request while it believed the engines paused.
CoordFront(c) ==
    /\ front[c] # <<>>
    /\ front' = [front EXCEPT ![c] = Tail(@)]
    /\ LET m == Head(front[c]) IN
       IF coord.on
       THEN UNCHANGED <<coord, start, pub>>
       ELSE /\ coord' = [coord EXCEPT !.on = TRUE]
            /\ SendStartWave(coord.wave, IF m.wave < coord.wave THEN NoEngine ELSE m.exclude)
            /\ pub' = Publish(pub, coord')
    /\ UNCHANGED <<eng, fe, input, back, req, admin>>

\* Mutant: the end of the current wave is taken for an old one.
CoordBackLate(e) ==
    /\ back[e] # <<>>
    /\ back' = [back EXCEPT ![e] = Tail(@)]
    /\ LET m == Head(back[e]) IN
       IF m.kind = "wave_complete" /\ coord.wave < m.wave
       THEN coord' = [wave |-> m.wave + 1, on |-> FALSE] /\ pub' = Publish(pub, coord') /\ UNCHANGED start
       ELSE IF m.kind = "start_wave"
       THEN coord' = [wave |-> m.wave, on |-> TRUE] /\ SendStartWave(m.wave, e) /\ pub' = Publish(pub, coord')
       ELSE UNCHANGED <<coord, start, pub>>
    /\ UNCHANGED <<eng, fe, input, front, req, admin>>

\* An engine reports the end of a wave, or a request for a finished one.
CoordBack(e) ==
    /\ back[e] # <<>>
    /\ back' = [back EXCEPT ![e] = Tail(@)]
    /\ LET m == Head(back[e]) IN
       \/ /\ m.kind = "wave_complete" /\ coord.wave <= m.wave
          /\ coord' = [wave |-> m.wave + 1, on |-> FALSE]
          /\ pub' = Publish(pub, coord')
          /\ UNCHANGED start
       \/ /\ m.kind = "start_wave" /\ (m.wave > coord.wave \/ (m.wave = coord.wave /\ ~coord.on))
          /\ coord' = [wave |-> m.wave, on |-> TRUE]
          /\ SendStartWave(m.wave, e)
          /\ pub' = Publish(pub, coord')
       \/ /\ IF m.kind = "wave_complete" THEN coord.wave > m.wave
             ELSE m.wave < coord.wave \/ (m.wave = coord.wave /\ coord.on)
          /\ UNCHANGED <<coord, start, pub>>
    /\ UNCHANGED <<eng, fe, input, front, req, admin>>

\* The poll timed out: the coordinator publishes its state again (left out when
\* it tells every front end what that knows already).
PublishStats ==
    /\ \E c \in Clients : fe[c].wave # coord.wave \/ fe[c].on # coord.on
    /\ \A c \in Clients : Len(pub[c]) < MaxPublished
    /\ pub' = Publish(pub, coord)
    /\ UNCHANGED <<eng, coord, fe, input, start, front, back, req, admin>>

-----------------------------------------------------------------------------
(* The engines.                                                              *)

Notify(e, kind, wave) == back' = [back EXCEPT ![e] = Append(@, [kind |-> kind, wave |-> wave])]

\* Mutant: a request of a finished wave does not start the next one.
AddRequestStale(e, m) ==
    /\ eng' = [eng EXCEPT ![e].waiting = @ \union {m.r}, ![e].wave = IF m.wave > @ THEN m.wave ELSE @]
    /\ UNCHANGED <<back, admin>>

\* add_request: a request of a finished wave starts the next one.
AddRequest(e, m) ==
    LET s == [eng[e] EXCEPT !.waiting = @ \union {m.r}]
        stale == m.wave < s.wave /\ ~s.on /\ s.pause = "unpaused"
    IN /\ eng' = [eng EXCEPT ![e] = [s EXCEPT !.wave = IF m.wave > @ THEN m.wave ELSE @,
                                              !.on = @ \/ stale]]
       /\ IF stale THEN Notify(e, "start_wave", s.wave) ELSE UNCHANGED back
       /\ UNCHANGED admin

\* The scheduler forgets requests; it reports them in the next step.
Dropped(s, rs) ==
    [s EXCEPT !.waiting = @ \ rs, !.running = @ \ rs,
              !.fin = @ \/ rs \intersect (s.waiting \union s.running) # {}]

AbortRequests(e, m) ==
    /\ eng' = [eng EXCEPT ![e] = Dropped(@, {m.r})]
    /\ UNCHANGED <<back, admin>>

\* Mutant: the answer waits for an idle engine, the callback is not registered.
PauseSchedulerLost(e, m) ==
    LET s0 == IF m.kind = "abort_all" THEN Dropped(eng[e], eng[e].waiting \union eng[e].running) ELSE eng[e]
        s  == [s0 EXCEPT !.pause = IF m.kind = "keep" THEN "paused_all" ELSE "paused_new"]
    IN /\ eng' = [eng EXCEPT ![e] = s]
       /\ admin' = IF HasWork(s) THEN admin ELSE [admin EXCEPT !.pending = @ \ {e}]
       /\ UNCHANGED back

\* pause_scheduler: answered now, or when the engine has no more work.
PauseScheduler(e, m) ==
    LET s0 == IF m.kind = "abort_all" THEN Dropped(eng[e], eng[e].waiting \union eng[e].running) ELSE eng[e]
        s  == [s0 EXCEPT !.pause = IF m.kind = "keep" THEN "paused_all" ELSE "paused_new"]
    IN /\ eng' = [eng EXCEPT ![e] = [s EXCEPT !.idleCb = @ \/ HasWork(s)]]
       /\ admin' = IF HasWork(s) THEN admin ELSE [admin EXCEPT !.pending = @ \ {e}]
       /\ UNCHANGED back

\* resume_scheduler wakes the other engines.
ResumeScheduler(e) ==
    LET s == [eng[e] EXCEPT !.pause = "unpaused"] IN
    /\ eng' = [eng EXCEPT ![e] = s]
    /\ admin' = [admin EXCEPT !.pending = @ \ {e}]
    /\ IF ~s.on /\ Unfinished(s) # {} THEN Notify(e, "start_wave", s.wave) ELSE UNCHANGED back

\* process_engine_outputs: the front end forgets requests that are over.
Over == [at |-> 0, by |-> CHOOSE c \in Clients : TRUE, left |-> 0, aborted |-> FALSE]
Finished(rs) == [r \in Reqs |-> IF r \in rs THEN Over ELSE req[r]]

\* _handle_client_request, from a front end.
HandleClient(e, c) ==
    /\ eng[e].pc = "top" /\ input[c][e] # <<>>
    /\ input' = [input EXCEPT ![c][e] = Tail(@)]
    /\ LET m == Head(input[c][e]) IN
       \/ m.kind = "add" /\ AddRequest(e, m) /\ UNCHANGED req
       \/ m.kind = "abort" /\ AbortRequests(e, m) /\ req' = Finished({m.r})
       \/ m.kind = "abort_all" /\ PauseScheduler(e, m) /\ req' = Finished(eng[e].waiting \union eng[e].running)
       \/ m.kind \in {"keep", "wait"} /\ PauseScheduler(e, m) /\ UNCHANGED req
       \/ m.kind = "resume" /\ ResumeScheduler(e) /\ UNCHANGED req
    /\ UNCHANGED <<coord, fe, start, front, pub>>

\* START_DP_WAVE.
StartWave(e) ==
    /\ eng[e].pc = "top" /\ start[e] # <<>>
    /\ start' = [start EXCEPT ![e] = Tail(@)]
    /\ LET m == Head(start[e]) IN
       eng' = IF m.exclude # e /\ m.wave >= eng[e].wave
              THEN [eng EXCEPT ![e].wave = m.wave, ![e].on = TRUE]
              ELSE eng
    /\ UNCHANGED <<coord, fe, input, front, back, pub, req, admin>>

\* _notify_idle_state_callbacks: an engine without work completes the pause.
NotifyIdle(e) ==
    /\ eng[e].pc = "top" /\ ~HasWork(eng[e]) /\ eng[e].idleCb
    /\ eng' = [eng EXCEPT ![e].idleCb = FALSE]
    /\ admin' = [admin EXCEPT !.pending = @ \ {e}]
    /\ UNCHANGED <<coord, fe, input, start, front, back, pub, req>>

\* step: schedule, then the forward pass, a dummy one if nothing is scheduled.
BeginStep(e) ==
    /\ eng[e].pc = "top" /\ HasWork(eng[e])
    /\ LET s == eng[e] IN
       eng' = [eng EXCEPT ![e] =
                 [s EXCEPT !.fin = FALSE,
                           !.waiting = @ \ Unfinished(s), !.running = @ \union Unfinished(s),
                           !.pc = IF s.on \/ Unfinished(s) # {} THEN "forward" ELSE "top"]]
    /\ UNCHANGED <<coord, fe, input, start, front, back, pub, req, admin>>

\* Mutant: dummy passes are not counted.
StepDoneRealOnly(s) ==
    LET done == {r \in Unfinished(s) : req[r].left = 1}
        rest == Dropped(s, done)
        inc  == IF Unfinished(s) # {} THEN 1 ELSE 0
        sync == s.ctr + inc = SyncEvery
    IN [rest EXCEPT !.ctr = (@ + inc) % SyncEvery, !.unfinished = Unfinished(rest) # {},
                    !.pc = IF sync THEN "allreduce" ELSE "top",
                    !.on = @ \/ ~sync]

\* update_from_output, then the step counter, of which the code uses only the
\* remainder: every SyncEvery steps the engine goes on to the all-reduce.
StepDone(s) ==
    LET done == {r \in Unfinished(s) : req[r].left = 1}
        rest == Dropped(s, done)
        sync == s.ctr + 1 = SyncEvery
    IN [rest EXCEPT !.ctr = (@ + 1) % SyncEvery, !.unfinished = Unfinished(rest) # {},
                    !.pc = IF sync THEN "allreduce" ELSE "top",
                    !.on = @ \/ ~sync]

\* The collectives of a forward pass return when every engine takes part; each
\* engine then processes its own output.
Forward ==
    /\ \A e \in Engines : eng[e].pc = "forward"
    /\ eng' = [e \in Engines |-> StepDone(eng[e])]
    /\ LET ran == UNION {Unfinished(eng[e]) : e \in Engines} IN
       req' = [r \in Reqs |-> IF r \notin ran THEN req[r]
                              ELSE IF req[r].left = 1 THEN Over
                              ELSE [req[r] EXCEPT !.left = @ - 1]]
    /\ UNCHANGED <<coord, fe, input, start, front, back, pub, admin>>

\* Mutant: a running engine keeps running whatever the all-reduce says.
AllReduceKeepsRunning ==
    /\ \A e \in Engines : eng[e].pc = "allreduce"
    /\ eng' = [e \in Engines |-> [eng[e] EXCEPT !.pc = "top", !.unfinished = FALSE]]
    /\ UNCHANGED <<coord, fe, input, start, front, back, pub, req, admin>>

\* has_unfinished_dp; without unfinished requests the wave is over.
AllReduce ==
    /\ \A e \in Engines : eng[e].pc = "allreduce"
    /\ LET any == \E e \in Engines : eng[e].unfinished IN
       /\ eng' = [e \in Engines |->
                    [eng[e] EXCEPT !.pc = "top", !.on = any, !.unfinished = FALSE,
                                   !.wave = IF any THEN @ ELSE @ + 1,
                                   !.ctr = IF any THEN @ ELSE 0]]
       /\ IF any THEN UNCHANGED back ELSE Notify(0, "wave_complete", eng[0].wave)
    /\ UNCHANGED <<coord, fe, input, start, front, pub, req, admin>>

\* All engines have answered.
Answered ==
    /\ admin.call # "none" /\ admin.pending = {}
    /\ admin' = [admin EXCEPT !.call = "none"]
    /\ UNCHANGED <<eng, coord, fe, input, start, front, back, pub, req>>

-----------------------------------------------------------------------------
StatsTask(c) == ForwardFirst(c) \/ \E n \in 1 .. Len(pub[c]) : TakeStats(c, n)

FrontEnd(c) ==
    \/ \E r \in Reqs, e \in Engines : AddRequestAsync(c, r, e)
    \/ \E name \in PauseModes \union {"resume"} : Call(c, name)
    \/ StatsTask(c)

Coordinator == (\E c \in Clients : CoordFront(c)) \/ (\E e \in Engines : CoordBack(e))

Engine(e) ==
    \/ \E c \in Clients : HandleClient(e, c)
    \/ StartWave(e)
    \/ NotifyIdle(e)
    \/ BeginStep(e)

Next ==
    \/ \E c \in Clients : FrontEnd(c)
    \/ \E r \in Abortable : AbortAsync(r)
    \/ Coordinator
    \/ PublishStats
    \/ \E e \in Engines : Engine(e)
    \/ Forward
    \/ AllReduce
    \/ Answered

Spec == Init /\ [][Next]_vars

\* Every process keeps running, and a collective operation that every engine has
\* joined returns.  An engine empties its input queue between two steps, so a
\* message is handled although a step is always possible too.
Fairness ==
    /\ \A e \in Engines : /\ \A c \in Clients : SF_vars(HandleClient(e, c))
                          /\ SF_vars(StartWave(e))
                          /\ WF_vars(NotifyIdle(e) \/ BeginStep(e))
    /\ \A c \in Clients : WF_vars(StatsTask(c))
    /\ WF_vars(Coordinator)
    /\ WF_vars(Forward \/ AllReduce)
    /\ WF_vars(Answered)

FairSpec == Spec /\ Fairness

-----------------------------------------------------------------------------
(* Properties.                                                               *)

\* Two engines never wait in different collective operations, one in a forward
\* pass and one in the all-reduce: neither would ever return.
CollectivesMatch ==
    ~ \E e, f \in Engines : eng[e].pc = "forward" /\ eng[f].pc = "allreduce"

Blocked(e) == eng[e].pc \in {"forward", "allreduce"}
Idle(e) == eng[e].pc = "top" /\ ~HasWork(eng[e])

\* When an engine is blocked in a collective operation, every other engine takes
\* part, has work, or has a message on its way: no engine is left out of a wave
\* with nothing that would still wake it.
NobodyLeftOut ==
    (\E e \in Engines : Blocked(e)) /\ (\E e \in Engines : Idle(e)) =>
        \/ \E e \in Engines : ~Blocked(e) /\ ~Idle(e)
        \/ \E e \in Engines : Idle(e) /\ (start[e] # <<>> \/ \E c \in Clients : input[c][e] # <<>>)
        \/ \E c \in Clients : front[c] # <<>> \/ fe[c].first # <<>>
        \/ \E e \in Engines : back[e] # <<>>

\* When nothing is in flight and no engine runs, engines, coordinator and front
\* ends agree on the wave and on the engines being paused.
QuietAgreement ==
    Settled /\ (\A e \in Engines : eng[e].pc = "top" /\ ~eng[e].on) /\ (\A c \in Clients : pub[c] = <<>>) =>
        /\ ~coord.on /\ \A e \in Engines : eng[e].wave = coord.wave
        /\ \A c \in Clients : fe[c].wave = coord.wave /\ ~fe[c].on

\* Every request is answered, unless the engines are paused.
EveryRequestServed ==
    \A r \in Reqs : req[r].at # NoEngine ~> (req[r].left = 0 \/ admin.paused)

\* Every call of pause_scheduler and resume_scheduler is answered.
CallsAnswered == admin.call # "none" ~> admin.call = "none"

\* After the last request the engines stop running dummy passes.
EnginesComeToRest == <>[](\A e \in Engines : eng[e].pc = "top" /\ ~eng[e].on)
=============================================================================
