--------------------------- MODULE BroadcastQueue ---------------------------
(* What MessageQueue promises to its one writer and its readers: every       *)
(* reader gets every message, once and in order, and the writer is never     *)
(* more than a fixed number of messages ahead of a reader.                   *)
EXTENDS Naturals

CONSTANTS Readers, Capacity, MaxMessages

VARIABLES
    sent,       \* messages 1 .. sent have been enqueued
    got         \* got[r]: the message that reader r dequeued last, 0 if none

Init == sent = 0 /\ got = [r \in Readers |-> 0]

Enqueue ==
    /\ sent < MaxMessages /\ \A r \in Readers : sent - got[r] < Capacity
    /\ sent' = sent + 1
    /\ UNCHANGED got

Dequeue(r) ==
    /\ got[r] < sent
    /\ got' = [got EXCEPT ![r] = @ + 1]
    /\ UNCHANGED sent

Next == Enqueue \/ \E r \in Readers : Dequeue(r)

Spec == Init /\ [][Next]_<<sent, got>>
=============================================================================
