---------------------------- MODULE RabbitMQClient ----------------------------
(***************************************************************************)
(* RabbitMQClient: connect, scheduleReconnect, publish, bufferEvent,         *)
(* flushBuffer and onModuleDestroy, with the broker and the network that     *)
(* close connections and channels under them.                               *)
(*                                                                         *)
(* One action is the code between two awaits, or one event of amqplib with   *)
(* all the listeners it runs.  Listeners are never removed: those of an      *)
(* earlier connection go on writing this.connected and this.channel.         *)
(***************************************************************************)
EXTENDS Naturals, Sequences

CONSTANTS
    Capacity,       \* MAX_BUFFER_SIZE
    Conns,          \* bound: connections amqplib.connect may return
    MaxEvents,      \* bound: events published
    MaxFaults,      \* bound: refusals and losses of connections and channels
    None            \* null

ASSUME ClientAssumption ==
    /\ Capacity \in Nat \ {0}
    /\ MaxEvents \in Nat
    /\ MaxFaults \in Nat
    /\ None \notin Conns

VARIABLES
    open,           \* connections that are open
    live,           \* connections whose channel accepts messages
    hooked,         \* connections whose channel has its listeners
    used,           \* connections returned so far
    connection,     \* this.connection
    channel,        \* this.channel, as the connection it belongs to
    connected,      \* this.connected
    reconnecting,   \* this.reconnecting
    pc,             \* where connect() is, "idle" when it is not running
    timer,          \* the setTimeout of tryReconnect is pending
    shutdown,       \* where onModuleDestroy is
    closing,        \* the connection it waits for, or whose channel it waits for
    published,      \* events published so far
    buffer,         \* this.eventBuffer
    sent,           \* events handed to a channel, in order
    inflight,       \* per connection, events handed over and not yet at the broker
    arrived,        \* events the broker has
    dropped,        \* events dropped from a full buffer
    faults          \* refusals and losses so far

broker == <<open, live, hooked, used, inflight, arrived>>
link == <<connection, channel, connected, reconnecting, pc, timer>>
events == <<published, buffer, sent, dropped>>
destroy == <<shutdown, closing>>
vars == <<broker, link, events, destroy, faults>>

-----------------------------------------------------------------------------
(* Mutant: keeps one event too many. *)
BufferEventLate(e) ==
    /\ buffer' = Append(IF Len(buffer) > Capacity THEN Tail(buffer) ELSE buffer, e)
    /\ dropped' = IF Len(buffer) > Capacity THEN dropped \cup {Head(buffer)} ELSE dropped
    /\ UNCHANGED <<sent, inflight>>

(* bufferEvent: a full buffer loses its oldest event. *)
BufferEvent(e) ==
    /\ buffer' = Append(IF Len(buffer) >= Capacity THEN Tail(buffer) ELSE buffer, e)
    /\ dropped' = IF Len(buffer) >= Capacity THEN dropped \cup {Head(buffer)} ELSE dropped
    /\ UNCHANGED <<sent, inflight>>

(* channel.publish of the events in es. *)
HandOver(es) ==
    /\ sent' = sent \o es
    /\ inflight' = [inflight EXCEPT ![channel] = @ \cup {es[i] : i \in 1..Len(es)}]
    /\ UNCHANGED dropped

(* publish; channel.publish throws on a channel that is closing. *)
Publish ==
    LET e == published + 1 IN
    /\ published < MaxEvents
    /\ published' = e
    /\ \/ /\ connected /\ channel \in live
          /\ HandOver(<<e>>)
          /\ UNCHANGED buffer
       \/ /\ ~connected \/ channel \notin live
          /\ BufferEvent(e)
    /\ UNCHANGED <<open, live, hooked, used, arrived, link, destroy, faults>>

(* flushBuffer runs to its end without an await; without a channel, or with  *)
(* one that refuses, every event goes back to the buffer in its place.        *)
FlushBuffer ==
    \/ /\ channel \in live
       /\ HandOver(buffer)
       /\ buffer' = <<>>
    \/ /\ channel \notin live
       /\ UNCHANGED <<buffer, sent, inflight, dropped>>

(* Mutant: no test of the flag. *)
ScheduleReconnectAgain ==
    /\ reconnecting' = TRUE
    /\ timer' = TRUE

(* scheduleReconnect: the loop waits, calls connect() and, since connect()    *)
(* never throws, ends there.                                                 *)
ScheduleReconnect ==
    \/ /\ reconnecting
       /\ UNCHANGED <<reconnecting, timer>>
    \/ /\ ~reconnecting
       /\ reconnecting' = TRUE
       /\ timer' = TRUE

(* Mutant: leaves the retry to someone else. *)
ConnectFailsQuietly ==
    /\ pc' = "idle"
    /\ connected' = FALSE
    /\ UNCHANGED <<reconnecting, timer>>

(* The catch of connect(). *)
ConnectFails ==
    /\ pc' = "idle"
    /\ connected' = FALSE
    /\ ScheduleReconnect

-----------------------------------------------------------------------------
(* connect() awaits an answer of connection c. *)
Awaits(c) == connection = c /\ pc \in {"opening", "prefetch", "asserting"}

(* A connection being closed answers nothing else. *)
Answers(c) == c \in open /\ ~(shutdown = "connection" /\ closing = c)

TryReconnect ==
    /\ timer
    /\ timer' = FALSE
    /\ pc' = "connecting"
    /\ UNCHANGED <<broker, events, connection, channel, connected, reconnecting,
                   destroy, faults>>

(* amqplib.connect rejects. *)
ConnectRefused ==
    /\ pc = "connecting"
    /\ faults < MaxFaults
    /\ faults' = faults + 1
    /\ ConnectFails
    /\ UNCHANGED <<broker, events, connection, channel, destroy>>

(* It resolves, and createChannel is called. *)
Connected ==
    /\ pc = "connecting"
    /\ \E c \in Conns \ used :
          /\ used' = used \cup {c}
          /\ open' = open \cup {c}
          /\ connection' = c
    /\ pc' = "opening"
    /\ UNCHANGED <<live, hooked, inflight, arrived, events, channel, connected,
                   reconnecting, timer, destroy, faults>>

(* createChannel resolves, and prefetch is called. *)
ChannelCreated ==
    /\ pc = "opening" /\ Answers(connection)
    /\ channel' = connection
    /\ live' = live \cup {connection}
    /\ pc' = "prefetch"
    /\ UNCHANGED <<open, hooked, used, inflight, arrived, events, connection, connected,
                   reconnecting, timer, destroy, faults>>

(* Mutant: no test for null. *)
ChannelHookedUnchecked ==
    /\ pc = "prefetch" /\ Answers(connection)
    /\ hooked' = hooked \cup {channel}
    /\ \/ /\ channel \in live
          /\ pc' = "asserting"
          /\ UNCHANGED <<connected, reconnecting, timer>>
       \/ /\ channel \notin live
          /\ ConnectFails
    /\ UNCHANGED <<open, live, used, inflight, arrived, events, connection, channel,
                   destroy, faults>>

(* prefetch resolves: the channel gets its listeners and assertExchange is    *)
(* called.  That throws when this.channel has become null or is closing.     *)
ChannelHooked ==
    /\ pc = "prefetch" /\ Answers(connection)
    /\ hooked' = hooked \cup ({channel} \ {None})
    /\ \/ /\ channel \in live
          /\ pc' = "asserting"
          /\ UNCHANGED <<connected, reconnecting, timer>>
       \/ /\ channel \notin live
          /\ ConnectFails
    /\ UNCHANGED <<open, live, used, inflight, arrived, events, connection, channel,
                   destroy, faults>>

(* Mutant: the buffer is left for later. *)
ExchangeAssertedNoFlush ==
    /\ pc = "asserting" /\ Answers(connection)
    /\ pc' = "idle"
    /\ connected' = TRUE
    /\ reconnecting' = FALSE
    /\ UNCHANGED <<broker, events, connection, channel, timer, destroy, faults>>

(* assertExchange resolves. *)
ExchangeAsserted ==
    /\ pc = "asserting" /\ Answers(connection)
    /\ pc' = "idle"
    /\ connected' = TRUE
    /\ reconnecting' = FALSE
    /\ FlushBuffer
    /\ UNCHANGED <<open, live, hooked, used, arrived, published, connection, channel,
                   timer, destroy, faults>>

-----------------------------------------------------------------------------
(* The channel of c is gone: its listeners, if it has them, clear            *)
(* this.channel, whichever channel that is by now.                           *)
ChannelGone(c) ==
    /\ live' = live \ {c}
    /\ inflight' = [inflight EXCEPT ![c] = {}]
    /\ channel' = IF c \in live \cap hooked THEN None ELSE channel

(* The broker closes a channel, or refuses what connect() asks of it; the    *)
(* connection stays open.                                                    *)
ChannelClosed(c) ==
    /\ c \in live \/ (Awaits(c) /\ Answers(c))
    /\ faults < MaxFaults
    /\ faults' = faults + 1
    /\ ChannelGone(c)
    /\ IF Awaits(c) THEN ConnectFails ELSE UNCHANGED <<connected, reconnecting, pc, timer>>
    /\ UNCHANGED <<open, hooked, used, arrived, events, connection, destroy>>

(* The listeners of connection c on its loss; a connect() that awaits an      *)
(* answer on it rejects, to the same effect.                                 *)
Closed(c) ==
    /\ open' = open \ {c}
    /\ ChannelGone(c)
    /\ connected' = FALSE
    /\ pc' = IF Awaits(c) THEN "idle" ELSE pc
    /\ ScheduleReconnect
    /\ UNCHANGED <<hooked, used, arrived, events, connection>>

ConnectionLost(c) ==
    /\ c \in open
    /\ faults < MaxFaults
    /\ faults' = faults + 1
    /\ Closed(c)
    /\ shutdown' = IF closing = c THEN "done" ELSE shutdown
    /\ closing' = IF closing = c THEN None ELSE closing

(* The oldest event on its way over c reaches the broker. *)
Arrive(c) ==
    \E e \in inflight[c] :
        /\ \A f \in inflight[c] : e <= f
        /\ inflight' = [inflight EXCEPT ![c] = @ \ {e}]
        /\ arrived' = arrived \cup {e}
        /\ UNCHANGED <<open, live, hooked, used, link, events, destroy, faults>>

-----------------------------------------------------------------------------
(* onModuleDestroy, once: it closes the channel if there is one, then the     *)
(* connection; closing what is closed already throws and ends it.  The null   *)
(* it leaves in this.connection is read by nothing that comes after.         *)
CloseConnection ==
    \/ /\ connection \in open
       /\ shutdown' = "connection"
       /\ closing' = connection
    \/ /\ connection \notin open
       /\ shutdown' = "done"
       /\ closing' = None

OnModuleDestroy ==
    /\ shutdown = "no"
    /\ \/ /\ channel \in live
          /\ live' = live \ {channel}
          /\ shutdown' = "channel"
          /\ closing' = channel
       \/ /\ channel # None /\ channel \notin live
          /\ shutdown' = "done"
          /\ UNCHANGED <<live, closing>>
       \/ /\ channel = None
          /\ CloseConnection
          /\ UNCHANGED live
    /\ UNCHANGED <<open, hooked, used, inflight, arrived, link, events, faults>>

(* channel.close() resolves, after all that was sent on the channel. *)
ChannelCloseOk ==
    /\ shutdown = "channel"
    /\ inflight[closing] = {} /\ ~Awaits(closing)
    /\ channel' = None
    /\ CloseConnection
    /\ UNCHANGED <<broker, events, connection, connected, reconnecting, pc, timer, faults>>

(* connection.close() resolves; its listeners see a closed connection. *)
ConnectionCloseOk ==
    /\ shutdown = "connection"
    /\ inflight[closing] = {}
    /\ Closed(closing)
    /\ shutdown' = "done"
    /\ closing' = None
    /\ UNCHANGED faults

-----------------------------------------------------------------------------
(* onModuleInit has called connect(). *)
Init ==
    /\ open = {} /\ live = {} /\ hooked = {} /\ used = {}
    /\ connection = None /\ channel = None
    /\ connected = FALSE /\ reconnecting = FALSE
    /\ pc = "connecting" /\ timer = FALSE
    /\ shutdown = "no" /\ closing = None
    /\ published = 0 /\ buffer = <<>> /\ sent = <<>>
    /\ inflight = [c \in Conns |-> {}] /\ arrived = {} /\ dropped = {}
    /\ faults = 0

(* What the client and a broker that answers go on doing. *)
Progress ==
    \/ TryReconnect \/ Connected \/ ChannelCreated \/ ChannelHooked \/ ExchangeAsserted
    \/ \E c \in Conns : Arrive(c)

Fault ==
    \/ ConnectRefused
    \/ \E c \in Conns : ChannelClosed(c) \/ ConnectionLost(c)

Shutdown == OnModuleDestroy \/ ChannelCloseOk \/ ConnectionCloseOk

Next == Publish \/ Progress \/ Fault \/ Shutdown

Spec == Init /\ [][Next]_vars

(* Timers fire and the broker answers. *)
FairSpec == Spec /\ WF_vars(Progress)

-----------------------------------------------------------------------------
(* Properties *)

(* Every variable holds a value of its kind; this.channel is the channel of a *)
(* connection amqplib returned, and only such a channel takes messages.       *)
TypeOK ==
    /\ live \subseteq open /\ hooked \subseteq used
    /\ open \subseteq used /\ used \subseteq Conns
    /\ {connection, channel, closing} \subseteq used \cup {None}
    /\ connected \in BOOLEAN /\ reconnecting \in BOOLEAN /\ timer \in BOOLEAN
    /\ pc \in {"idle", "connecting", "opening", "prefetch", "asserting"}
    /\ shutdown \in {"no", "channel", "connection", "done"}
    /\ published \in Nat /\ faults \in Nat
    /\ buffer \in Seq(1..published) /\ sent \in Seq(1..published)
    /\ inflight \in [Conns -> SUBSET (1..published)]
    /\ arrived \subseteq 1..published /\ dropped \subseteq 1..published

(* connected, this.channel and the buffer are written by connect(), by the    *)
(* listeners of every connection there ever was and by onModuleDestroy: while *)
(* the client would hand a new event over, no older one waits in the buffer.  *)
NothingWaits == connected /\ channel \in live => buffer = <<>>

(* "Only one reconnection loop runs at a time": no timer is pending while     *)
(* connect() runs, and the loop that runs has set the flag.                  *)
OneLoop ==
    /\ timer => reconnecting /\ pc = "idle"
    /\ connected => ~timer /\ pc = "idle"

(* The client keeps the promise of EventOutbox: order, no repetition, and     *)
(* only the oldest event of a full buffer gives way.                         *)
Outbox == INSTANCE EventOutbox WITH queue <- buffer
OutboxSpec == Outbox!Spec

(* A loss of the connection is noticed and answered by an attempt that, if    *)
(* no further fault hits it, ends connected, whatever earlier connections,    *)
(* their listeners and an earlier loop have left behind.                     *)
Running == shutdown = "no"

AttemptSucceeds ==
    \A n \in 0..MaxFaults :
        Running /\ ~connected /\ (timer \/ ~reconnecting) /\ faults = n
            ~> connected \/ faults > n \/ ~Running

-----------------------------------------------------------------------------
(* What the header of the file says, and the code does not do. *)

(* "If reconnection fails, it retries indefinitely": while the service runs   *)
(* and faults come to an end, the client gets the broker back.                *)
RetriesIndefinitely == Running /\ ~connected ~> connected \/ ~Running

(* "no event loss for short outages": an event is in the buffer, on its way   *)
(* or with the broker unless it was dropped from a full buffer.              *)
NoEventLoss ==
    \A e \in 1..published :
        \/ \E i \in 1..Len(buffer) : buffer[i] = e
        \/ \E c \in Conns : e \in inflight[c]
        \/ e \in arrived \cup dropped

(* "Channel errors: The channel is recreated on the next publish attempt." *)
ChannelRecreated ==
    [][Publish /\ connected /\ channel = None => channel' # None \/ pc' # "idle"]_vars

(* "Gracefully shuts down the RabbitMQ connection when the module is          *)
(* destroyed": no connection is made after that.                             *)
StaysShut == [][shutdown = "done" => open' \subseteq open]_vars
=============================================================================
