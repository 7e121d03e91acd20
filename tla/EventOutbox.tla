----------------------------- MODULE EventOutbox -----------------------------
(***************************************************************************)
(* What the RabbitMQ client promises about domain events, numbered in the   *)
(* order they are published: each is handed to the broker's channel at most  *)
(* once and in that order; the ones that have to wait queue in memory, and   *)
(* only when CAPACITY of them wait does the oldest give way.                 *)
(***************************************************************************)
EXTENDS Naturals, Sequences

CONSTANTS Capacity      \* MAX_BUFFER_SIZE, above 0

VARIABLES
    published,      \* events published so far: 1 .. published
    queue,          \* events waiting for the broker, oldest first
    sent            \* events handed to a channel

outboxVars == <<published, queue, sent>>

(* The queue after e joins it: a full queue loses its oldest event. *)
Enqueue(q, e) == Append(IF Len(q) >= Capacity THEN Tail(q) ELSE q, e)

Init ==
    /\ published = 0
    /\ queue = <<>>
    /\ sent = <<>>

Wait ==
    /\ published' = published + 1
    /\ queue' = Enqueue(queue, published')
    /\ UNCHANGED sent

Send ==
    /\ queue = <<>>
    /\ published' = published + 1
    /\ sent' = Append(sent, published')
    /\ UNCHANGED queue

Flush ==
    /\ queue # <<>>
    /\ sent' = sent \o queue
    /\ queue' = <<>>
    /\ UNCHANGED published

Next == Wait \/ Send \/ Flush

Spec == Init /\ [][Next]_outboxVars

-----------------------------------------------------------------------------
Ascending(s) == \A i, j \in 1..Len(s) : i < j => s[i] < s[j]

(* publish, bufferEvent and flushBuffer: no event is handed over twice, and  *)
(* none overtakes another, whether it waited or not.                         *)
InOrder == /\ Ascending(sent \o queue)
           /\ Len(queue) <= Capacity
=============================================================================
