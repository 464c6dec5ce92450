---------------------------- MODULE ShmBroadcast ----------------------------
(* MessageQueue with local readers: a ring buffer in shared memory, written  *)
(* by one process and read by several without locks (ShmRingBuffer), a       *)
(* socket for messages that do not fit into a chunk, and a socket that wakes *)
(* readers which have gone to sleep (SpinCondition).                         *)
(*                                                                           *)
(* An action is one access to shared memory or one socket operation.  The    *)
(* stores between two memory fences become visible in any order, except that *)
(* ClearFirst assumes what no fence enforces: a chunk is seen as not written *)
(* before its reader flags are seen reset.  Loads happen in program order.   *)
EXTENDS Naturals, Sequences, FiniteSets

CONSTANTS
    Readers,        \* the local readers
    MaxChunks,      \* chunks of the ring buffer
    MaxMessages,    \* bound: messages that the writer enqueues
    Large,          \* the messages that do not fit into a chunk
    ClearFirst,     \* stores to the flags of a chunk are seen in order
    WriterMayDie,   \* the writer's process may be killed
    Stoppable       \* the readers that may be shut down

ASSUME RingAssumption ==
    /\ Readers # {} /\ IsFiniteSet(Readers)
    /\ MaxChunks \in Nat \ {0} /\ MaxMessages \in Nat
    /\ Large \subseteq 1 .. MaxMessages
    /\ ClearFirst \in BOOLEAN /\ WriterMayDie \in BOOLEAN /\ Stoppable \subseteq Readers

Chunks == 0 .. MaxChunks - 1
Ready == 0                      \* the message of wait_until_ready

VARIABLES
    chunk,      \* metadata and contents of each chunk
    w,          \* the writer: pc, current_idx, messages written, stores not yet visible
    rd,         \* the readers: pc, current_idx, flag loaded, message dequeued last
    subs,       \* readers whose subscription has reached the writer
    sock,       \* sock[r]: local_socket, from the writer to reader r
    ping,       \* ping[r]: a notification waits (zmq.CONFLATE keeps one)
    stop        \* stop[r]: "no", "flag" (shutting_down), "cancel" (cancel() sent)

vars == <<chunk, w, rd, subs, sock, ping, stop>>

Init ==
    /\ chunk = [i \in Chunks |-> [written |-> FALSE, read |-> {}, msg |-> 0]]
    /\ w = [pc |-> "connect", idx |-> 0, n |-> 0, todo |-> {}]
    /\ rd = [r \in Readers |-> [pc |-> "connect", idx |-> 0, flag |-> FALSE, got |-> 0]]
    /\ subs = {}
    /\ sock = [r \in Readers |-> <<>>]
    /\ ping = [r \in Readers |-> FALSE]
    /\ stop = [r \in Readers |-> "no"]

NextIdx(i) == (i + 1) % MaxChunks

-----------------------------------------------------------------------------
(* The writer.                                                               *)

\* A published message reaches the readers that have subscribed.
Broadcast(m) == sock' = [r \in Readers |-> IF r \in subs THEN Append(sock[r], m) ELSE sock[r]]

\* wait_until_ready: one subscription per reader, then READY to all of them.
ReadyWriter ==
    /\ w.pc = "connect" /\ subs = Readers
    /\ Broadcast(Ready)
    /\ w' = [w EXCEPT !.pc = "idle"]
    /\ UNCHANGED <<chunk, rd, subs, ping, stop>>

\* enqueue is called.
Enqueue ==
    /\ w.pc = "idle" /\ w.n < MaxMessages
    /\ w' = [w EXCEPT !.pc = "acquire"]
    /\ UNCHANGED <<chunk, rd, subs, sock, ping, stop>>


\* Mutant: one reader is enough.
AcquireWriteAny ==
    LET c == chunk[w.idx] IN
    /\ w.pc = "acquire" /\ ~(c.written /\ c.read = {})
    /\ w' = [w EXCEPT !.pc = "fill", !.todo = {"clear", "msg"} \union Readers]
    /\ UNCHANGED <<chunk, rd, subs, sock, ping, stop>>

\* acquire_write finds a chunk that is not written, or read by all readers; the
\* stores that follow are those before the next memory fence.
AcquireWrite ==
    LET c == chunk[w.idx] IN
    /\ w.pc = "acquire" /\ ~(c.written /\ c.read # Readers)
    /\ w' = [w EXCEPT !.pc = "fill", !.todo = {"clear", "msg"} \union Readers]
    /\ UNCHANGED <<chunk, rd, subs, sock, ping, stop>>

\* enqueue gives up after its timeout, with nothing written.
WriteTimeout ==
    LET c == chunk[w.idx] IN
    /\ w.pc = "acquire" /\ c.written /\ c.read # Readers
    /\ w' = [w EXCEPT !.pc = "idle"]
    /\ UNCHANGED <<chunk, rd, subs, sock, ping, stop>>

Clear ==
    /\ "clear" \in w.todo
    /\ chunk' = [chunk EXCEPT ![w.idx].written = FALSE]
    /\ w' = [w EXCEPT !.todo = @ \ {"clear"}]

WriteMessage ==
    /\ "msg" \in w.todo
    /\ chunk' = [chunk EXCEPT ![w.idx].msg = w.n + 1]
    /\ w' = [w EXCEPT !.todo = @ \ {"msg"}]

ResetFlag(r) ==
    /\ r \in w.todo
    /\ ClearFirst => "clear" \notin w.todo
    /\ chunk' = [chunk EXCEPT ![w.idx].read = @ \ {r}]
    /\ w' = [w EXCEPT !.todo = @ \ {r}]

\* One store of acquire_write becomes visible.
Store ==
    /\ w.pc = "fill"
    /\ Clear \/ WriteMessage \/ \E r \in Readers : ResetFlag(r)
    /\ UNCHANGED <<rd, subs, sock, ping, stop>>

\* After the fence the chunk is marked as written.
Publish ==
    /\ w.pc = "fill" /\ w.todo = {}
    /\ chunk' = [chunk EXCEPT ![w.idx].written = TRUE]
    /\ w' = [w EXCEPT !.pc = IF w.n + 1 \in Large THEN "send" ELSE "notify", !.n = @ + 1, !.idx = NextIdx(@)]
    /\ UNCHANGED <<rd, subs, sock, ping, stop>>

\* Mutant: readers are notified of messages in a chunk only.
SendLargeQuiet ==
    /\ w.pc = "send"
    /\ Broadcast(w.n)
    /\ w' = [w EXCEPT !.pc = "idle"]
    /\ UNCHANGED <<chunk, rd, subs, ping, stop>>

\* A message that did not fit follows over the socket.
SendLarge ==
    /\ w.pc = "send"
    /\ Broadcast(w.n)
    /\ w' = [w EXCEPT !.pc = "notify"]
    /\ UNCHANGED <<chunk, rd, subs, ping, stop>>

Notify ==
    /\ w.pc = "notify"
    /\ ping' = [r \in Readers |-> TRUE]
    /\ w' = [w EXCEPT !.pc = "idle"]
    /\ UNCHANGED <<chunk, rd, subs, sock, stop>>

\* The writer's process is killed, at any point.
WriterDies ==
    /\ WriterMayDie /\ w.pc \notin {"connect", "dead"}
    /\ w' = [w EXCEPT !.pc = "dead"]
    /\ UNCHANGED <<chunk, rd, subs, sock, ping, stop>>

-----------------------------------------------------------------------------
(* The readers.                                                              *)

Goto(r, pc) == rd' = [rd EXCEPT ![r].pc = pc]

\* The reader connects its sockets.
Subscribe(r) ==
    /\ rd[r].pc = "connect"
    /\ subs' = subs \union {r}
    /\ Goto(r, "ready")
    /\ UNCHANGED <<chunk, w, sock, ping, stop>>

\* wait_until_ready of a reader; it then calls dequeue again and again.
ReadyReader(r) ==
    /\ rd[r].pc = "ready" /\ sock[r] # <<>>
    /\ sock' = [sock EXCEPT ![r] = Tail(@)]
    /\ Goto(r, IF Head(sock[r]) = Ready THEN "flag" ELSE "failed")
    /\ UNCHANGED <<chunk, w, subs, ping, stop>>

\* acquire_read loads its own reader flag ...
LoadFlag(r) ==
    /\ rd[r].pc = "flag"
    /\ rd' = [rd EXCEPT ![r].pc = "written", ![r].flag = r \in chunk[rd[r].idx].read]
    /\ UNCHANGED <<chunk, w, subs, sock, ping, stop>>

\* ... then the written flag, and reads the chunk or waits.
LoadWritten(r) ==
    /\ rd[r].pc = "written"
    /\ Goto(r, IF chunk[rd[r].idx].written /\ ~rd[r].flag THEN "read" ELSE "wait")
    /\ UNCHANGED <<chunk, w, subs, sock, ping, stop>>

\* SpinCondition.wait soon after a read yields; also a dequeue that timed out
\* and is called again.
Spin(r) ==
    /\ rd[r].pc = "wait"
    /\ Goto(r, IF stop[r] = "no" THEN "flag" ELSE "gone")
    /\ UNCHANGED <<chunk, w, subs, sock, ping, stop>>

\* SpinCondition.wait after a second without reads polls its two sockets.
Sleep(r) ==
    /\ rd[r].pc = "wait"
    /\ Goto(r, "sleep")
    /\ UNCHANGED <<chunk, w, subs, sock, ping, stop>>

\* The poll returns; a cancellation is left in its socket.
Wake(r) ==
    /\ rd[r].pc = "sleep"
    /\ \/ stop[r] = "cancel" /\ UNCHANGED ping
       \/ stop[r] # "cancel" /\ ping[r] /\ ping' = [ping EXCEPT ![r] = FALSE]
    /\ Goto(r, IF stop[r] = "no" THEN "flag" ELSE "gone")
    /\ UNCHANGED <<chunk, w, subs, sock, stop>>

\* Mutant: the chunk of a large message is not marked as read.
FinishReadSmall(r) ==
    LET m == chunk[rd[r].idx].msg IN
    /\ rd[r].pc = "read"
    /\ chunk' = IF m \in Large THEN chunk ELSE [chunk EXCEPT ![rd[r].idx].read = @ \union {r}]
    /\ rd' = [rd EXCEPT ![r].idx = NextIdx(@),
                        ![r].pc = IF m \in Large THEN "recv" ELSE "flag",
                        ![r].got = IF m \in Large THEN @ ELSE m]
    /\ UNCHANGED <<w, subs, sock, ping, stop>>

\* The chunk has been read and its flag is set.
FinishRead(r) ==
    LET m == chunk[rd[r].idx].msg IN
    /\ rd[r].pc = "read"
    /\ chunk' = [chunk EXCEPT ![rd[r].idx].read = @ \union {r}]
    /\ rd' = [rd EXCEPT ![r].idx = NextIdx(@),
                        ![r].pc = IF m \in Large THEN "recv" ELSE "flag",
                        ![r].got = IF m \in Large THEN @ ELSE m]
    /\ UNCHANGED <<w, subs, sock, ping, stop>>

\* recv of the message that did not fit.
RecvLarge(r) ==
    /\ rd[r].pc = "recv" /\ sock[r] # <<>>
    /\ rd' = [rd EXCEPT ![r].pc = "flag", ![r].got = Head(sock[r])]
    /\ sock' = [sock EXCEPT ![r] = Tail(@)]
    /\ UNCHANGED <<chunk, w, subs, ping, stop>>

\* shutdown, called by another thread of the reader's process.
Shutdown(r) ==
    /\ r \in Stoppable /\ rd[r].pc \notin {"connect", "ready"} /\ stop[r] = "no"
    /\ stop' = [stop EXCEPT ![r] = "flag"]
    /\ UNCHANGED <<chunk, w, rd, subs, sock, ping>>

\* Mutant: the cancellation does not reach the reader.
CancelLost(r) ==
    /\ stop[r] = "flag"
    /\ UNCHANGED vars

Cancel(r) ==
    /\ stop[r] = "flag"
    /\ stop' = [stop EXCEPT ![r] = "cancel"]
    /\ UNCHANGED <<chunk, w, rd, subs, sock, ping>>

-----------------------------------------------------------------------------
Writer == ReadyWriter \/ AcquireWrite \/ Store \/ Publish \/ SendLarge \/ Notify

Reader(r) ==
    \/ Subscribe(r) \/ ReadyReader(r) \/ LoadFlag(r) \/ LoadWritten(r)
    \/ Spin(r) \/ Sleep(r) \/ Wake(r) \/ FinishRead(r) \/ RecvLarge(r)

Next ==
    \/ Writer \/ Enqueue \/ WriteTimeout \/ WriterDies
    \/ \E r \in Readers : Reader(r) \/ Shutdown(r) \/ Cancel(r)

Spec == Init /\ [][Next]_vars

\* The writer finishes a call of enqueue and the readers keep calling dequeue;
\* a shutdown that has begun is completed.
Fairness ==
    /\ WF_vars(Writer)
    /\ \A r \in Readers : WF_vars(Reader(r)) /\ WF_vars(Cancel(r))

FairSpec == Spec /\ Fairness

-----------------------------------------------------------------------------
(* Properties.                                                               *)


\* The ring buffer and the two sockets implement the broadcast queue: enqueue is
\* the store to the written flag, dequeue the end of acquire_read or of recv.
Abstract == INSTANCE BroadcastQueue
              WITH sent <- w.n, got <- [r \in Readers |-> rd[r].got], Capacity <- MaxChunks + 1

\* Every reader dequeues every message, once and in order, small or large, and
\* the writer is at most MaxChunks messages and one in recv ahead.
ImplementsQueue == Abstract!Spec

\* A message that is enqueued reaches a reader although SpinCondition may have
\* put it to sleep at any point, unless the reader or the writer is taken down.
EveryMessageRead ==
    \A r \in Readers, m \in 1 .. MaxMessages :
        w.n >= m ~> (rd[r].got >= m \/ stop[r] # "no" \/ w.pc = "dead")

\* acquire_write does not wait for ever for readers that wait for the writer.
WriterProceeds == w.pc = "acquire" ~> (w.pc # "acquire" \/ \E r \in Readers : stop[r] # "no")

\* shutdown ends the reader, asleep or not ("wakes it up so it can clean up and
\* shut down"); only a recv whose message died with the writer is not woken.
ShutdownWakes ==
    \A r \in Readers : stop[r] # "no" ~> (rd[r].pc = "gone" \/ (w.pc = "dead" /\ rd[r].pc = "recv"))
=============================================================================
