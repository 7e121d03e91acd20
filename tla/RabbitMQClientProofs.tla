------------------------ MODULE RabbitMQClientProofs ------------------------
(***************************************************************************)
(* Proofs about RabbitMQClient, for any capacity above 0 and any number of   *)
(* connections, events and faults.                                          *)
(***************************************************************************)
EXTENDS RabbitMQClient, SequenceTheorems, TLAPS

-----------------------------------------------------------------------------
(* Types, of the link and of the events. *)

TypeLink ==
    /\ live \subseteq open /\ hooked \subseteq used
    /\ open \subseteq used /\ used \subseteq Conns
    /\ {connection, channel, closing} \subseteq used \cup {None}
    /\ connected \in BOOLEAN /\ reconnecting \in BOOLEAN /\ timer \in BOOLEAN
    /\ pc \in {"idle", "connecting", "opening", "prefetch", "asserting"}
    /\ shutdown \in {"no", "channel", "connection", "done"}
    /\ faults \in Nat

TypeEvents ==
    /\ published \in Nat
    /\ buffer \in Seq(1..published) /\ sent \in Seq(1..published)
    /\ inflight \in [Conns -> SUBSET (1..published)]
    /\ arrived \subseteq 1..published /\ dropped \subseteq 1..published

LEMMA TypeSplit == TypeOK <=> TypeLink /\ TypeEvents
  BY DEF TypeOK, TypeLink, TypeEvents

LEMMA ReconnectType ==
    ASSUME TypeLink, ScheduleReconnect
    PROVE  reconnecting' \in BOOLEAN /\ timer' \in BOOLEAN
  BY DEF TypeLink, ScheduleReconnect

LEMMA ConnectFailsType ==
    ASSUME TypeLink, ConnectFails
    PROVE  /\ reconnecting' \in BOOLEAN /\ timer' \in BOOLEAN
           /\ connected' \in BOOLEAN /\ pc' = "idle"
  BY ReconnectType DEF ConnectFails

LEMMA ClosedType ==
    ASSUME TypeLink, NEW c, Closed(c)
    PROVE  /\ live' \subseteq open' /\ open' \subseteq used' /\ used' \subseteq Conns
           /\ hooked' \subseteq used'
           /\ {connection', channel'} \subseteq used' \cup {None}
           /\ connected' \in BOOLEAN /\ reconnecting' \in BOOLEAN /\ timer' \in BOOLEAN
           /\ pc' \in {"idle", "connecting", "opening", "prefetch", "asserting"}
           /\ UNCHANGED used
  <1>1. reconnecting' \in BOOLEAN /\ timer' \in BOOLEAN
    BY ReconnectType DEF Closed
  <1>2. connected' \in BOOLEAN
    BY DEF Closed
  <1>3. /\ live' \subseteq open' /\ open' \subseteq used' /\ used' \subseteq Conns
        /\ hooked' \subseteq used' /\ UNCHANGED used
        /\ {connection', channel'} \subseteq used' \cup {None}
    BY DEF Closed, ChannelGone, TypeLink
  <1>4. pc' \in {"idle", "connecting", "opening", "prefetch", "asserting"}
    BY DEF Closed, TypeLink
  <1>5. QED
    BY <1>1, <1>2, <1>3, <1>4

LEMMA CloseConnectionType ==
    ASSUME TypeLink, CloseConnection
    PROVE  /\ closing' \in used \cup {None}
           /\ shutdown' \in {"no", "channel", "connection", "done"}
           /\ shutdown' = "connection" => closing' \in open
  BY DEF TypeLink, CloseConnection

LEMMA LinkInit == Init => TypeLink
  <1> SUFFICES ASSUME Init PROVE TypeLink
    OBVIOUS
  <1>1. connected \in BOOLEAN /\ reconnecting \in BOOLEAN /\ timer \in BOOLEAN
    BY DEF Init
  <1>2. faults \in Nat
    BY DEF Init
  <1>3. QED
    BY <1>1, <1>2 DEF Init, TypeLink

LEMMA LinkStep ==
    ASSUME TypeLink, [Next]_vars
    PROVE  TypeLink'
  <1>1. CASE Publish
    BY <1>1 DEF Publish, TypeLink, link, destroy
  <1>2. CASE TryReconnect
    <2>1. timer' \in BOOLEAN
      BY <1>2 DEF TryReconnect
    <2>2. QED
      BY <1>2, <2>1 DEF TryReconnect, TypeLink, broker, destroy
  <1>3. CASE ConnectRefused
    <2>1. ConnectFails
      BY <1>3 DEF ConnectRefused
    <2>2. faults' \in Nat
      BY <1>3 DEF ConnectRefused, TypeLink
    <2>3. QED
      BY <1>3, <2>1, <2>2, ConnectFailsType DEF ConnectRefused, TypeLink, broker, destroy
  <1>4. CASE Connected
    BY <1>4 DEF Connected, TypeLink, destroy
  <1>5. CASE ChannelCreated
    BY <1>5 DEF ChannelCreated, TypeLink, destroy, Answers
  <1>6. CASE ChannelHooked
    <2>1. /\ connected' \in BOOLEAN /\ reconnecting' \in BOOLEAN /\ timer' \in BOOLEAN
          /\ pc' \in {"idle", "asserting"}
      <3>1. CASE ConnectFails
        BY <3>1, ConnectFailsType
      <3>2. CASE ~ConnectFails
        BY <1>6, <3>2 DEF ChannelHooked, TypeLink
      <3>3. QED
        BY <3>1, <3>2
    <2>2. hooked' \subseteq used
      BY <1>6 DEF ChannelHooked, TypeLink
    <2>3. QED
      BY <1>6, <2>1, <2>2 DEF ChannelHooked, TypeLink, destroy
  <1>7. CASE ExchangeAsserted
    <2>1. connected' \in BOOLEAN /\ reconnecting' \in BOOLEAN
      BY <1>7 DEF ExchangeAsserted
    <2>2. QED
      BY <1>7, <2>1 DEF ExchangeAsserted, TypeLink, destroy
  <1>8. CASE \E c \in Conns : ChannelClosed(c)
    <2> PICK c \in Conns : ChannelClosed(c)
      BY <1>8
    <2>1. /\ connected' \in BOOLEAN /\ reconnecting' \in BOOLEAN /\ timer' \in BOOLEAN
          /\ pc' \in {"idle", "connecting", "opening", "prefetch", "asserting"}
      <3>1. CASE ConnectFails
        BY <3>1, ConnectFailsType
      <3>2. CASE ~ConnectFails
        BY <3>2 DEF ChannelClosed, TypeLink
      <3>3. QED
        BY <3>1, <3>2
    <2>2. live' \subseteq open /\ channel' \in used \cup {None} /\ faults' \in Nat
      BY DEF ChannelClosed, ChannelGone, TypeLink
    <2>3. QED
      BY <2>1, <2>2 DEF ChannelClosed, TypeLink, destroy
  <1>9. CASE \E c \in Conns : ConnectionLost(c)
    <2> PICK c \in Conns : ConnectionLost(c)
      BY <1>9
    <2>1. /\ faults' \in Nat /\ closing' \in used \cup {None}
          /\ shutdown' \in {"no", "channel", "connection", "done"}
      BY DEF ConnectionLost, TypeLink
    <2>2. Closed(c)
      BY DEF ConnectionLost
    <2>3. QED
      BY <2>1, <2>2, ClosedType DEF TypeLink
  <1>10. CASE \E c \in Conns : Arrive(c)
    BY <1>10 DEF Arrive, TypeLink, link, destroy
  <1>11. CASE OnModuleDestroy
    <2>1. /\ live' \subseteq live
          /\ closing' \in used \cup {None}
          /\ shutdown' \in {"no", "channel", "connection", "done"}
      BY <1>11, CloseConnectionType DEF OnModuleDestroy, TypeLink
    <2>2. QED
      BY <1>11, <2>1 DEF OnModuleDestroy, TypeLink, link
  <1>12. CASE ChannelCloseOk
    <2>1. /\ closing' \in used \cup {None}
          /\ shutdown' \in {"no", "channel", "connection", "done"}
      BY <1>12, CloseConnectionType DEF ChannelCloseOk
    <2>2. QED
      BY <1>12, <2>1 DEF ChannelCloseOk, TypeLink, broker
  <1>13. CASE ConnectionCloseOk
    <2>1. Closed(closing) /\ shutdown' = "done" /\ closing' = None /\ UNCHANGED faults
      BY <1>13 DEF ConnectionCloseOk
    <2>2. QED
      BY <2>1, ClosedType DEF TypeLink
  <1>14. CASE UNCHANGED vars
    BY <1>14 DEF vars, broker, link, destroy, TypeLink
  <1>15. QED
    BY <1>1, <1>2, <1>3, <1>4, <1>5, <1>6, <1>7, <1>8, <1>9, <1>10, <1>11, <1>12, <1>13,
       <1>14
    DEF Next, Progress, Fault, Shutdown

-----------------------------------------------------------------------------
LEMMA SeqWiden ==
    ASSUME NEW m \in Nat, NEW n \in Nat, m <= n, NEW s \in Seq(1..m)
    PROVE  s \in Seq(1..n)
  <1>1. Len(s) \in Nat /\ s \in [1..Len(s) -> 1..m]
    BY LenProperties
  <1>2. 1..m \subseteq 1..n
    OBVIOUS
  <1>3. s \in [1..Len(s) -> 1..n]
    BY <1>1, <1>2
  <1>4. QED
    BY <1>1, <1>3, SeqDef

(* publish leaves the buffer as EventOutbox says. *)
LEMMA PublishType ==
    ASSUME TypeEvents, Publish
    PROVE  TypeEvents'
  <1> DEFINE e == published + 1
  <1>0. /\ published \in Nat /\ e \in Nat /\ published <= e /\ e \in 1..e
        /\ 1..published \subseteq 1..e /\ published' = e
    BY DEF TypeEvents, Publish
  <1> HIDE DEF e
  <1>1. buffer \in Seq(1..e) /\ sent \in Seq(1..e)
    BY <1>0, SeqWiden DEF TypeEvents
  <1>2. inflight \in [Conns -> SUBSET (1..e)]
    BY <1>0 DEF TypeEvents
  <1>3. CASE HandOver(<<e>>) /\ UNCHANGED buffer
    <2>1. <<e>> \in Seq(1..e)
      BY <1>0
    <2>2. sent' \in Seq(1..e)
      BY <1>1, <1>3, <2>1, ConcatProperties DEF HandOver
    <2>3. inflight' \in [Conns -> SUBSET (1..e)]
      <3>1. {<<e>>[i] : i \in 1..Len(<<e>>)} \subseteq 1..e
        BY <1>0
      <3>2. QED
        BY <1>2, <1>3, <3>1 DEF HandOver
    <2>4. QED
      BY <1>0, <1>1, <1>3, <2>2, <2>3 DEF TypeEvents, HandOver, Publish
  <1>4. CASE BufferEvent(e)
    <2>1. buffer' \in Seq(1..e) /\ dropped' \subseteq 1..e
      <3>1. CASE Len(buffer) >= Capacity
        <4>1. buffer # <<>>
          BY <1>1, <3>1, ClientAssumption
        <4>2. Tail(buffer) \in Seq(1..e) /\ Head(buffer) \in 1..e
          BY <1>1, <4>1, HeadTailProperties
        <4>3. QED
          BY <1>0, <1>4, <3>1, <4>2, AppendProperties DEF BufferEvent, TypeEvents
      <3>2. CASE ~(Len(buffer) >= Capacity)
        BY <1>0, <1>1, <1>4, <3>2, AppendProperties DEF BufferEvent, TypeEvents
      <3>3. QED
        BY <3>1, <3>2
    <2>2. QED
      BY <1>0, <1>1, <1>2, <1>4, <2>1 DEF TypeEvents, BufferEvent, Publish
  <1>5. QED
    BY <1>3, <1>4 DEF Publish, e

LEMMA EventsInit == Init => TypeEvents
  BY DEF Init, TypeEvents

LEMMA EventsStep ==
    ASSUME TypeEvents, [Next]_vars
    PROVE  TypeEvents'
  <1>1. CASE Publish
    BY <1>1, PublishType
  <1>2. CASE ExchangeAsserted
    <2>1. CASE HandOver(buffer) /\ buffer' = <<>>
      <3>1. sent' \in Seq(1..published)
        BY <2>1, ConcatProperties DEF HandOver, TypeEvents
      <3>2. inflight' \in [Conns -> SUBSET (1..published)]
        <4>1. {buffer[i] : i \in 1..Len(buffer)} \subseteq 1..published
          BY ElementOfSeq DEF TypeEvents
        <4>2. QED
          BY <2>1, <4>1 DEF HandOver, TypeEvents
      <3>3. QED
        BY <1>2, <2>1, <3>1, <3>2 DEF ExchangeAsserted, HandOver, TypeEvents
    <2>2. CASE UNCHANGED <<buffer, sent, inflight, dropped>>
      BY <1>2, <2>2 DEF ExchangeAsserted, TypeEvents
    <2>3. QED
      BY <1>2, <2>1, <2>2 DEF ExchangeAsserted, FlushBuffer
  <1>3. CASE \E c \in Conns : Arrive(c)
    <2> PICK c \in Conns : Arrive(c)
      BY <1>3
    <2> PICK e \in inflight[c] : /\ inflight' = [inflight EXCEPT ![c] = @ \ {e}]
                                 /\ arrived' = arrived \cup {e}
      BY DEF Arrive
    <2>1. e \in 1..published
      BY DEF TypeEvents
    <2>2. QED
      BY <2>1 DEF Arrive, TypeEvents, events
  <1>4. CASE \E c : ChannelGone(c) /\ UNCHANGED <<events, arrived>>
    BY <1>4 DEF ChannelGone, TypeEvents, events
  <1>5. CASE UNCHANGED <<events, inflight, arrived>>
    BY <1>5 DEF TypeEvents, events
  <1>6. QED
    BY <1>1, <1>2, <1>3, <1>4, <1>5
    DEF Next, Progress, Fault, Shutdown, TryReconnect, ConnectRefused, Connected,
        ChannelCreated, ChannelHooked, ChannelClosed, ConnectionLost, Closed,
        OnModuleDestroy, ChannelCloseOk, ConnectionCloseOk, broker, vars

(* Whatever listeners of whatever connections run, this.channel belongs to a   *)
(* connection amqplib returned and only an open one takes messages.          *)
THEOREM TypeCorrect == Spec => []TypeOK
  <1>1. Init => TypeLink /\ TypeEvents
    BY LinkInit, EventsInit
  <1>2. TypeLink /\ TypeEvents /\ [Next]_vars => TypeLink' /\ TypeEvents'
    BY LinkStep, EventsStep
  <1>3. TypeLink /\ TypeEvents => TypeOK
    BY TypeSplit
  <1>4. QED
    BY <1>1, <1>2, <1>3, PTL DEF Spec

-----------------------------------------------------------------------------
(* One loop.  A first connect(), which no loop has started, has no connection  *)
(* but its own that could be lost and start one.                             *)

FirstConnect ==
    pc # "idle" /\ ~reconnecting =>
        IF pc = "connecting" THEN open = {} ELSE open \subseteq {connection}

LoopInv ==
    /\ OneLoop
    /\ FirstConnect
    /\ shutdown = "connection" => closing \in open

LEMMA LoopInit == Init => LoopInv
  BY DEF Init, LoopInv, OneLoop, FirstConnect

(* The end of connect() by a failure. *)
LEMMA FailsLoop ==
    ASSUME LoopInv, ConnectFails
    PROVE  OneLoop' /\ FirstConnect'
  BY DEF LoopInv, OneLoop, FirstConnect, ConnectFails, ScheduleReconnect

LEMMA ClosedLoop ==
    ASSUME TypeLink, LoopInv, NEW c \in open, Closed(c)
    PROVE  OneLoop' /\ FirstConnect' /\ open' = open \ {c}
  <1>1. CASE reconnecting
    BY <1>1 DEF LoopInv, OneLoop, FirstConnect, Closed, ScheduleReconnect
  <1>2. CASE ~reconnecting
    <2>1. pc # "idle" => Awaits(c)
      BY <1>2 DEF LoopInv, FirstConnect, Awaits, TypeLink
    <2>2. pc' = "idle" /\ ~connected' /\ reconnecting'
      BY <1>2, <2>1 DEF Closed, ScheduleReconnect
    <2>3. QED
      BY <2>2 DEF OneLoop, FirstConnect, Closed
  <1>3. QED
    BY <1>1, <1>2

LEMMA LoopStep ==
    ASSUME TypeLink, LoopInv, [Next]_vars
    PROVE  LoopInv'
  <1> USE DEF LoopInv
  <1>1. CASE Publish
    BY <1>1 DEF Publish, OneLoop, FirstConnect, link, destroy
  <1>2. CASE TryReconnect
    BY <1>2 DEF TryReconnect, OneLoop, FirstConnect, broker, destroy
  <1>3. CASE ConnectRefused
    BY <1>3, FailsLoop DEF ConnectRefused, broker, destroy
  <1>4. CASE Connected
    <2>1. OneLoop'
      BY <1>4 DEF Connected, OneLoop
    <2>2. FirstConnect'
      BY <1>4 DEF Connected, FirstConnect
    <2>3. (shutdown = "connection" => closing \in open)'
      BY <1>4 DEF Connected, destroy
    <2>4. QED
      BY <2>1, <2>2, <2>3
  <1>5. CASE ChannelCreated
    BY <1>5 DEF ChannelCreated, OneLoop, FirstConnect, destroy
  <1>6. CASE ChannelHooked
    <2>1. OneLoop' /\ FirstConnect'
      <3>1. CASE ConnectFails
        BY <3>1, FailsLoop
      <3>2. CASE ~ConnectFails
        BY <1>6, <3>2 DEF ChannelHooked, OneLoop, FirstConnect
      <3>3. QED
        BY <3>1, <3>2
    <2>2. QED
      BY <1>6, <2>1 DEF ChannelHooked, destroy
  <1>7. CASE ExchangeAsserted
    BY <1>7 DEF ExchangeAsserted, OneLoop, FirstConnect, destroy
  <1>8. CASE \E c \in Conns : ChannelClosed(c)
    <2> PICK c \in Conns : ChannelClosed(c)
      BY <1>8
    <2>1. OneLoop' /\ FirstConnect'
      <3>1. CASE ConnectFails
        BY <3>1, FailsLoop
      <3>2. CASE ~ConnectFails
        BY <3>2 DEF ChannelClosed, OneLoop, FirstConnect
      <3>3. QED
        BY <3>1, <3>2
    <2>2. QED
      BY <2>1 DEF ChannelClosed, destroy
  <1>9. CASE \E c \in Conns : ConnectionLost(c)
    <2> PICK c \in Conns : ConnectionLost(c)
      BY <1>9
    <2>1. OneLoop' /\ FirstConnect' /\ open' = open \ {c}
      BY ClosedLoop DEF ConnectionLost
    <2>2. QED
      BY <2>1 DEF ConnectionLost
  <1>10. CASE \E c \in Conns : Arrive(c)
    BY <1>10 DEF Arrive, OneLoop, FirstConnect, link, destroy
  <1>11. CASE OnModuleDestroy
    <2>1. (shutdown = "connection" => closing \in open)'
      BY <1>11, CloseConnectionType DEF OnModuleDestroy
    <2>2. QED
      BY <1>11, <2>1 DEF OnModuleDestroy, OneLoop, FirstConnect, link
  <1>12. CASE ChannelCloseOk
    <2>1. (shutdown = "connection" => closing \in open)'
      BY <1>12, CloseConnectionType DEF ChannelCloseOk, broker
    <2>2. QED
      BY <1>12, <2>1 DEF ChannelCloseOk, OneLoop, FirstConnect, broker
  <1>13. CASE ConnectionCloseOk
    BY <1>13, ClosedLoop DEF ConnectionCloseOk
  <1>14. CASE UNCHANGED vars
    BY <1>14 DEF vars, broker, link, destroy, OneLoop, FirstConnect
  <1>15. QED
    BY <1>1, <1>2, <1>3, <1>4, <1>5, <1>6, <1>7, <1>8, <1>9, <1>10, <1>11, <1>12, <1>13,
       <1>14
    DEF Next, Progress, Fault, Shutdown

(* However many connections, old and new, report their loss, one reconnection  *)
(* loop runs at a time and none while connect() does.                        *)
THEOREM OneLoopAlways == Spec => []OneLoop
  <1>1. TypeOK /\ LoopInv /\ [Next]_vars => LoopInv'
    BY TypeSplit, LoopStep
  <1>2. LoopInv => OneLoop
    BY DEF LoopInv
  <1>3. QED
    BY <1>1, <1>2, LoopInit, TypeCorrect, PTL DEF Spec

-----------------------------------------------------------------------------
(* The buffer is empty while a new event would be handed over: only an end of  *)
(* connect() makes that so, and it has flushed.                              *)

LEMMA WaitsInit == Init => NothingWaits
  BY DEF Init, NothingWaits

LEMMA WaitsStep ==
    ASSUME TypeLink, OneLoop, NothingWaits, [Next]_vars
    PROVE  NothingWaits'
  <1>0. None \notin live /\ (pc # "idle" => ~connected) /\ (timer => ~connected)
    BY ClientAssumption DEF TypeLink, OneLoop
  <1>1. CASE Publish
    BY <1>1 DEF Publish, NothingWaits, HandOver, link
  <1>2. CASE TryReconnect \/ Connected \/ ChannelCreated
    BY <1>0, <1>2 DEF TryReconnect, Connected, ChannelCreated, NothingWaits
  <1>3. CASE ConnectRefused
    BY <1>3 DEF ConnectRefused, ConnectFails, NothingWaits
  <1>4. CASE ChannelHooked
    BY <1>0, <1>4 DEF ChannelHooked, ConnectFails, NothingWaits
  <1>5. CASE ExchangeAsserted
    BY <1>5 DEF ExchangeAsserted, FlushBuffer, NothingWaits
  <1>6. CASE \E c \in Conns : ChannelClosed(c)
    <2> PICK c \in Conns : ChannelClosed(c)
      BY <1>6
    <2>1. channel' \in live' => channel \in live
      BY <1>0 DEF ChannelClosed, ChannelGone
    <2>2. connected' => connected
      BY DEF ChannelClosed, ConnectFails
    <2>3. QED
      BY <2>1, <2>2 DEF NothingWaits, ChannelClosed, events
  <1>7. CASE (\E c \in Conns : ConnectionLost(c)) \/ ConnectionCloseOk
    BY <1>7 DEF ConnectionLost, ConnectionCloseOk, Closed, NothingWaits
  <1>8. CASE \E c \in Conns : Arrive(c)
    BY <1>8 DEF Arrive, NothingWaits, link, events
  <1>9. CASE OnModuleDestroy
    <2>1. live' \subseteq live
      BY <1>9 DEF OnModuleDestroy
    <2>2. QED
      BY <1>9, <2>1 DEF OnModuleDestroy, NothingWaits, link, events
  <1>10. CASE ChannelCloseOk
    BY <1>0, <1>10 DEF ChannelCloseOk, NothingWaits, broker
  <1>11. CASE UNCHANGED vars
    BY <1>11 DEF vars, broker, link, events, NothingWaits
  <1>12. QED
    BY <1>1, <1>2, <1>3, <1>4, <1>5, <1>6, <1>7, <1>8, <1>9, <1>10, <1>11
    DEF Next, Progress, Fault, Shutdown

(* While publish would hand an event over, no older one waits in the buffer.   *)
THEOREM NothingWaitsAlways == Spec => []NothingWaits
  <1>1. TypeOK /\ OneLoop /\ NothingWaits /\ [Next]_vars => NothingWaits'
    BY TypeSplit, WaitsStep
  <1>2. QED
    BY <1>1, WaitsInit, TypeCorrect, OneLoopAlways, PTL DEF Spec

-----------------------------------------------------------------------------
(* The refinement of EventOutbox. *)

LEMMA OutboxInit == Init => Outbox!Init
  BY DEF Init, Outbox!Init

LEMMA OutboxStep ==
    ASSUME TypeEvents, NothingWaits, [Next]_vars
    PROVE  [Outbox!Next]_(Outbox!outboxVars)
  <1> USE DEF Outbox!Next, Outbox!outboxVars
  <1>0. /\ published \in Nat /\ sent \in Seq(Nat) /\ buffer \in Seq(Nat)
    <2>1. /\ published \in Nat /\ sent \in Seq(1..published) /\ buffer \in Seq(1..published)
      BY DEF TypeEvents
    <2>2. ASSUME NEW s \in Seq(1..published)
          PROVE  s \in Seq(Nat)
      <3>1. Len(s) \in Nat /\ s \in [1..Len(s) -> 1..published]
        BY LenProperties
      <3>2. s \in [1..Len(s) -> Nat]
        BY <2>1, <3>1
      <3>3. QED
        BY <3>1, <3>2, SeqDef
    <2>3. QED
      BY <2>1, <2>2
  <1>1. CASE Publish
    <2>1. CASE connected /\ channel \in live /\ HandOver(<<published + 1>>) /\ UNCHANGED buffer
      <3>1. buffer = <<>> /\ published' = published + 1
        BY <1>1, <2>1 DEF NothingWaits, Publish
      <3>2. sent' = Append(sent, published')
        <4>1. sent \o <<published + 1>> = Append(sent, published + 1)
          BY <1>0, AppendIsConcat
        <4>2. QED
          BY <2>1, <3>1, <4>1 DEF HandOver
      <3>3. QED
        BY <2>1, <3>1, <3>2 DEF Outbox!Send
    <2>2. CASE BufferEvent(published + 1)
      <3>1. Outbox!Wait
        BY <1>1, <2>2 DEF Publish, BufferEvent, Outbox!Wait, Outbox!Enqueue
      <3>2. QED
        BY <3>1
    <2>3. QED
      BY <1>1, <2>1, <2>2 DEF Publish
  <1>2. CASE ExchangeAsserted
    <2>1. CASE HandOver(buffer) /\ buffer' = <<>>
      <3>1. sent' = sent \o buffer /\ UNCHANGED published
        BY <1>2, <2>1 DEF HandOver, ExchangeAsserted
      <3>2. CASE buffer = <<>>
        <4>1. sent' = sent
          BY <1>0, <3>1, <3>2, ConcatEmptySeq
        <4>2. QED
          BY <2>1, <3>1, <3>2, <4>1
      <3>3. CASE buffer # <<>>
        BY <2>1, <3>1, <3>3 DEF Outbox!Flush
      <3>4. QED
        BY <3>2, <3>3
    <2>2. CASE UNCHANGED <<buffer, sent, inflight, dropped>>
      BY <1>2, <2>2 DEF ExchangeAsserted
    <2>3. QED
      BY <1>2, <2>1, <2>2 DEF ExchangeAsserted, FlushBuffer
  <1>3. CASE UNCHANGED events
    BY <1>3 DEF events
  <1>4. QED
    BY <1>1, <1>2, <1>3
    DEF Next, Progress, Fault, Shutdown, TryReconnect, ConnectRefused, Connected,
        ChannelCreated, ChannelHooked, ChannelClosed, ConnectionLost, Closed, Arrive,
        OnModuleDestroy, ChannelCloseOk, ConnectionCloseOk, vars

(* connect(), its listeners, bufferEvent and flushBuffer implement the queue   *)
(* of EventOutbox: every step is one of its steps or leaves it alone.        *)
THEOREM ImplementsOutbox == Spec => OutboxSpec
  <1>1. TypeOK /\ NothingWaits /\ [Next]_vars => [Outbox!Next]_(Outbox!outboxVars)
    BY TypeSplit, OutboxStep
  <1>2. QED
    BY <1>1, OutboxInit, TypeCorrect, NothingWaitsAlways, PTL
    DEF Spec, OutboxSpec, Outbox!Spec

-----------------------------------------------------------------------------
(* What the promise is worth: every state of the abstract specification, and *)
(* so every state of the client, has its events in order.                    *)

(* Every entry of s is below every entry of t. *)
Before(s, t) == \A i \in 1..Len(s), j \in 1..Len(t) : s[i] < t[j]

LEMMA AscendingConcat ==
    ASSUME NEW s \in Seq(Nat), NEW t \in Seq(Nat),
           Outbox!Ascending(s), Outbox!Ascending(t), Before(s, t)
    PROVE  Outbox!Ascending(s \o t)
  <1>1. /\ Len(s \o t) = Len(s) + Len(t) /\ Len(s) \in Nat /\ Len(t) \in Nat
        /\ \A i \in 1..(Len(s) + Len(t)) :
              (s \o t)[i] = IF i <= Len(s) THEN s[i] ELSE t[i - Len(s)]
    BY ConcatProperties, LenProperties
  <1>2. SUFFICES ASSUME NEW i \in 1..Len(s \o t), NEW j \in 1..Len(s \o t), i < j
                 PROVE  (s \o t)[i] < (s \o t)[j]
    BY DEF Outbox!Ascending
  <1>3. CASE j <= Len(s)
    <2>1. i \in 1..Len(s) /\ j \in 1..Len(s)
      BY <1>1, <1>2, <1>3
    <2>2. (s \o t)[i] = s[i] /\ (s \o t)[j] = s[j]
      BY <1>1, <1>2, <1>3, <2>1
    <2>3. QED
      BY <1>2, <2>1, <2>2 DEF Outbox!Ascending
  <1>4. CASE i <= Len(s) /\ j > Len(s)
    <2>1. i \in 1..Len(s) /\ j - Len(s) \in 1..Len(t)
      BY <1>1, <1>4
    <2>2. (s \o t)[i] = s[i] /\ (s \o t)[j] = t[j - Len(s)]
      BY <1>1, <1>4
    <2>3. QED
      BY <2>1, <2>2 DEF Before
  <1>5. CASE i > Len(s)
    <2>1. i - Len(s) \in 1..Len(t) /\ j - Len(s) \in 1..Len(t) /\ i - Len(s) < j - Len(s)
      BY <1>1, <1>2, <1>5
    <2>2. (s \o t)[i] = t[i - Len(s)] /\ (s \o t)[j] = t[j - Len(s)]
      BY <1>1, <1>2, <1>5
    <2>3. QED
      BY <2>1, <2>2 DEF Outbox!Ascending
  <1>6. QED
    BY <1>1, <1>3, <1>4, <1>5

LEMMA AscendingAppend ==
    ASSUME NEW s \in Seq(Nat), NEW e \in Nat, Outbox!Ascending(s),
           \A i \in 1..Len(s) : s[i] < e
    PROVE  Append(s, e) \in Seq(Nat) /\ Outbox!Ascending(Append(s, e))
  BY AppendProperties DEF Outbox!Ascending

(* The entries of s are events published so far. *)
Past(s) == s \in Seq(Nat) /\ \A i \in 1..Len(s) : s[i] <= published

PromiseInv ==
    /\ published \in Nat
    /\ Past(sent) /\ Past(buffer)
    /\ Outbox!Ascending(sent) /\ Outbox!Ascending(buffer) /\ Before(sent, buffer)
    /\ Len(buffer) <= Capacity

LEMMA PromiseInit ==
    ASSUME Outbox!Init
    PROVE  PromiseInv
  BY ClientAssumption DEF Outbox!Init, PromiseInv, Past, Outbox!Ascending, Before

LEMMA PromiseStep ==
    ASSUME PromiseInv, [Outbox!Next]_(Outbox!outboxVars)
    PROVE  PromiseInv'
  <1>0. /\ published \in Nat /\ sent \in Seq(Nat) /\ buffer \in Seq(Nat)
        /\ Len(buffer) \in Nat /\ Len(sent) \in Nat
        /\ Capacity \in Nat \ {0}
    BY LenProperties, ClientAssumption DEF PromiseInv, Past
  <1>1. CASE Outbox!Wait
    <2> DEFINE e == published + 1
               q == IF Len(buffer) >= Capacity THEN Tail(buffer) ELSE buffer
               k == Len(buffer) - Len(q)
    <2>1. e \in Nat /\ published' = e /\ buffer' = Append(q, e) /\ UNCHANGED sent
      BY <1>0, <1>1 DEF Outbox!Wait, Outbox!Enqueue
    <2>2. /\ q \in Seq(Nat) /\ Len(q) \in Nat /\ Len(q) < Capacity
          /\ k \in {0, 1}
          /\ \A i \in 1..Len(q) : i + k \in 1..Len(buffer) /\ q[i] = buffer[i + k]
      <3>1. CASE Len(buffer) >= Capacity
        <4>1. buffer # <<>>
          BY <1>0, <3>1
        <4>2. /\ Tail(buffer) \in Seq(Nat) /\ Len(Tail(buffer)) = Len(buffer) - 1
              /\ \A i \in 1..Len(Tail(buffer)) : Tail(buffer)[i] = buffer[i + 1]
          BY <1>0, <4>1, HeadTailProperties
        <4>3. q = Tail(buffer)
          BY <3>1
        <4>4. QED
          BY <1>0, <3>1, <4>2, <4>3 DEF PromiseInv
      <3>2. CASE ~(Len(buffer) >= Capacity)
        BY <1>0, <3>2
      <3>3. QED
        BY <3>1, <3>2
    <2> HIDE DEF e, q, k
    <2>3. \A i \in 1..Len(q) : q[i] \in Nat /\ q[i] < e
      <3>1. \A i \in 1..Len(buffer) : buffer[i] \in Nat /\ buffer[i] < e
        BY <1>0, ElementOfSeq DEF PromiseInv, Past, e
      <3>2. QED
        BY <2>2, <3>1
    <2>4. Outbox!Ascending(q)
      <3>1. SUFFICES ASSUME NEW i \in 1..Len(q), NEW j \in 1..Len(q), i < j
                     PROVE  q[i] < q[j]
        BY DEF Outbox!Ascending
      <3>2. i + k \in 1..Len(buffer) /\ j + k \in 1..Len(buffer) /\ i + k < j + k
        BY <2>2, <3>1
      <3>3. QED
        BY <2>2, <3>2 DEF PromiseInv, Outbox!Ascending
    <2>5. buffer' \in Seq(Nat) /\ Outbox!Ascending(buffer')
      BY <2>1, <2>2, <2>3, <2>4, AscendingAppend
    <2>6. /\ Len(buffer') = Len(q) + 1
          /\ \A i \in 1..Len(q) : buffer'[i] = q[i]
          /\ buffer'[Len(q) + 1] = e
      BY <2>1, <2>2, AppendProperties
    <2>7. Past(buffer)'
      BY <2>1, <2>2, <2>3, <2>5, <2>6 DEF Past
    <2>8. \A i \in 1..Len(sent) : sent[i] \in Nat /\ sent[i] < e
      BY <1>0, ElementOfSeq DEF PromiseInv, Past, e
    <2>9. Past(sent)'
      BY <1>0, <2>1, <2>8 DEF Past
    <2>10. Before(sent, buffer)'
      <3>1. \A i \in 1..Len(sent), j \in 1..Len(q) : sent[i] < q[j]
        BY <2>2 DEF PromiseInv, Before
      <3>2. SUFFICES ASSUME NEW i \in 1..Len(sent), NEW j \in 1..Len(buffer')
                     PROVE  sent[i] < buffer'[j]
        BY <2>1 DEF Before
      <3>3. j \in 1..Len(q) \/ j = Len(q) + 1
        BY <2>2, <2>6
      <3>4. QED
        BY <2>6, <2>8, <3>1, <3>3
    <2>11. Outbox!Ascending(sent)'
      BY <2>1 DEF PromiseInv, Outbox!Ascending
    <2>12. Len(buffer') <= Capacity
      BY <1>0, <2>2, <2>6
    <2>13. QED
      BY <2>1, <2>5, <2>7, <2>9, <2>10, <2>11, <2>12 DEF PromiseInv, Outbox!Ascending
  <1>2. CASE Outbox!Send
    <2> DEFINE e == published + 1
    <2>1. /\ e \in Nat /\ published' = e /\ sent' = Append(sent, e)
          /\ buffer = <<>> /\ buffer' = <<>>
      BY <1>0, <1>2 DEF Outbox!Send
    <2>2. \A i \in 1..Len(sent) : sent[i] \in Nat /\ sent[i] < e
      BY <1>0, ElementOfSeq DEF PromiseInv, Past
    <2> HIDE DEF e
    <2>3. sent' \in Seq(Nat) /\ Outbox!Ascending(sent')
      BY <1>0, <2>1, <2>2, AscendingAppend DEF PromiseInv
    <2>4. /\ Len(sent') = Len(sent) + 1
          /\ \A i \in 1..Len(sent) : sent'[i] = sent[i]
          /\ sent'[Len(sent) + 1] = e
      BY <1>0, <2>1, AppendProperties
    <2>5. Past(sent)'
      BY <1>0, <2>1, <2>2, <2>3, <2>4 DEF Past
    <2>6. Past(buffer)' /\ Outbox!Ascending(buffer)' /\ Before(sent, buffer)' /\ Len(buffer') <= Capacity
      BY <1>0, <2>1 DEF Past, Outbox!Ascending, Before
    <2>7. QED
      BY <2>1, <2>3, <2>5, <2>6 DEF PromiseInv, Outbox!Ascending
  <1>3. CASE Outbox!Flush
    <2>1. sent' = sent \o buffer /\ buffer' = <<>> /\ UNCHANGED published
      BY <1>3 DEF Outbox!Flush
    <2>2. Outbox!Ascending(sent')
      BY <1>0, <2>1, AscendingConcat DEF PromiseInv
    <2>3. /\ sent' \in Seq(Nat) /\ Len(sent') = Len(sent) + Len(buffer)
          /\ \A i \in 1..(Len(sent) + Len(buffer)) :
                sent'[i] = IF i <= Len(sent) THEN sent[i] ELSE buffer[i - Len(sent)]
      BY <1>0, <2>1, ConcatProperties
    <2>4. ASSUME NEW i \in 1..Len(sent')
          PROVE  sent'[i] <= published
      <3>1. CASE i <= Len(sent)
        <4>1. i \in 1..Len(sent)
          BY <1>0, <2>3, <3>1
        <4>2. sent'[i] = sent[i]
          BY <1>0, <2>3, <3>1
        <4>3. QED
          BY <4>1, <4>2 DEF PromiseInv, Past
      <3>2. CASE i > Len(sent)
        <4>1. i - Len(sent) \in 1..Len(buffer)
          BY <1>0, <2>3, <3>2
        <4>2. sent'[i] = buffer[i - Len(sent)]
          BY <1>0, <2>3, <3>2
        <4>3. QED
          BY <4>1, <4>2 DEF PromiseInv, Past
      <3>3. QED
        BY <1>0, <3>1, <3>2
    <2>5. Past(sent)'
      BY <2>1, <2>3, <2>4 DEF Past
    <2>6. Past(buffer)' /\ Outbox!Ascending(buffer)' /\ Before(sent, buffer)' /\ Len(buffer') <= Capacity
      BY <1>0, <2>1 DEF Past, Outbox!Ascending, Before
    <2>7. QED
      BY <1>0, <2>1, <2>2, <2>5, <2>6 DEF PromiseInv, Outbox!Ascending
  <1>4. CASE UNCHANGED Outbox!outboxVars
    BY <1>4 DEF Outbox!outboxVars, PromiseInv, Past, Outbox!Ascending, Before
  <1>5. QED
    BY <1>1, <1>2, <1>3, <1>4 DEF Outbox!Next

(* Whatever keeps the promise of EventOutbox hands events over in the order   *)
(* they were published and at most once, however often they had to wait, and *)
(* has at most Capacity of them wait.                                        *)
THEOREM PromiseIsOrder == OutboxSpec => []Outbox!InOrder
  <1>1. PromiseInv => Outbox!InOrder
    BY AscendingConcat DEF PromiseInv, Past, Outbox!InOrder
  <1>2. PromiseInv /\ [Outbox!Next]_(Outbox!outboxVars) => PromiseInv'
    BY PromiseStep
  <1>3. Outbox!Init => PromiseInv
    BY PromiseInit
  <1>4. QED
    BY <1>1, <1>2, <1>3, PTL DEF OutboxSpec, Outbox!Spec

(* publish, bufferEvent and flushBuffer, through every loss and recovery of  *)
(* the connection: the channels get the events in the order of publication,  *)
(* none twice, and the buffer never holds more than MAX_BUFFER_SIZE.          *)
THEOREM DeliveredInOrder == Spec => []Outbox!InOrder
  BY ImplementsOutbox, PromiseIsOrder, PTL
=============================================================================
