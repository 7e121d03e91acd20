------------------------- MODULE AccountEventsProofs -------------------------
(***************************************************************************)
(* Proofs about AccountEvents, for any handlers, instances, events and       *)
(* faults.                                                                  *)
(***************************************************************************)
EXTENDS AccountEvents, FiniteSetTheorems, SequenceTheorems, TLAPS

-----------------------------------------------------------------------------
(* The handlers: what the three ways of moving one leave of them.             *)

Others(p) == \A q \in Procs \ {p} : req'[q] = req[q]

ReqOK == req \in [Procs -> Req]

Ops == {"lock", "unlock", "ban", "delete", "brute"}

Known(k) ==
    /\ k.pc \in {"write", "revoke", "announce"} => k.op \in Ops
    /\ k.pc \in {"lift", "verify"} => k.op = "login"

OpKnown == \A p \in Procs : Known(req[p])

LEMMA Set ==
    ASSUME ReqOK, NEW p \in Procs, NEW r \in Req, req' = [req EXCEPT ![p] = r]
    PROVE  ReqOK' /\ req'[p] = r /\ Others(p)
  BY DEF ReqOK, Others

LEMMA Ended ==
    ASSUME ReqOK, NEW p \in Procs, End(p)
    PROVE  /\ ReqOK' /\ Others(p)
           /\ req'[p].pc = "idle" /\ req'[p].op = "none"
  <1>1. Idle \in Req /\ Idle.pc = "idle" /\ Idle.op = "none"
    BY DEF Idle, Req, Kinds
  <1>2. QED
    BY <1>1, Set DEF End

LEMMA Moved ==
    ASSUME ReqOK, NEW p \in Procs,
           NEW pc \in {"revoke", "announce", "verify", "reissue"}, Goto(p, pc)
    PROVE  /\ ReqOK' /\ Others(p)
           /\ req'[p].pc = pc /\ req'[p].op = req[p].op
           /\ req'[p].until = req[p].until /\ req'[p].kind = req[p].kind
  <1> DEFINE r == [req[p] EXCEPT !.pc = pc]
  <1>1. /\ r \in Req /\ r.pc = pc /\ r.op = req[p].op
        /\ r.until = req[p].until /\ r.kind = req[p].kind
    BY DEF ReqOK, Req
  <1>2. req' = [req EXCEPT ![p] = r]
    BY DEF Goto
  <1> HIDE DEF r
  <1>3. QED
    BY <1>1, <1>2, Set

LEMMA Started ==
    ASSUME ReqOK, NEW p \in Procs, NEW pc \in {"write", "verify", "lift"},
           NEW op \in {"delete", "login"}, Start(p, pc, op)
    PROVE  /\ ReqOK' /\ Others(p)
           /\ req[p].pc = "idle"
           /\ req'[p].pc = pc /\ req'[p].op = op
           /\ early' = early \ {p} /\ outrun' = outrun \ {p}
  <1> DEFINE r == [Idle EXCEPT !.pc = pc, !.op = op]
  <1>1. r \in Req /\ r.pc = pc /\ r.op = op
    BY DEF Idle, Req, Kinds
  <1>2. req' = [req EXCEPT ![p] = r]
    BY DEF Start
  <1> HIDE DEF r
  <1>3. QED
    BY <1>1, <1>2, Set DEF Start, Anew

(* What the first statement of each operation leaves. *)
LEMMA Begun ==
    ASSUME ReqOK, NEW p \in Procs,
           \/ \E op \in {"lock", "unlock", "ban"} : BeginAdmin(p, op)
           \/ BeginDelete(p)
    PROVE  /\ ReqOK' /\ Others(p)
           /\ EventLeft /\ req[p].pc = "idle"
           /\ req'[p].pc = "write" /\ req'[p].op \in {"lock", "unlock", "ban", "delete"}
           /\ early' = early \ {p} /\ outrun' = outrun \ {p}
           /\ UNCHANGED <<row, sessions, batch, bus, faults, unrevoked, skewed>>
  <1>1. CASE \E op \in {"lock", "unlock", "ban"} : BeginAdmin(p, op)
    <2> PICK op \in {"lock", "unlock", "ban"} : BeginAdmin(p, op)
      BY <1>1
    <2> PICK until \in {"ahead", None} :
             req' = [req EXCEPT ![p] = [Idle EXCEPT !.pc = "write", !.op = op,
                                                    !.until = until]]
      BY DEF BeginAdmin
    <2> DEFINE r == [Idle EXCEPT !.pc = "write", !.op = op, !.until = until]
    <2>1. r \in Req /\ r.pc = "write" /\ r.op = op
      BY DEF Idle, Req, Kinds
    <2>2. req' = [req EXCEPT ![p] = r]
      OBVIOUS
    <2> HIDE DEF r
    <2>3. ReqOK' /\ Others(p) /\ req'[p] = r
      BY <2>1, <2>2, Set
    <2>4. QED
      BY <2>1, <2>3 DEF BeginAdmin, Anew
  <1>2. CASE BeginDelete(p)
    <2>1. Start(p, "write", "delete")
      BY <1>2 DEF BeginDelete
    <2>2. QED
      BY <1>2, <2>1, Started DEF BeginDelete
  <1>3. QED
    BY <1>1, <1>2

LEMMA LoginBegun ==
    ASSUME ReqOK, NEW p \in Procs, BeginLogin(p)
    PROVE  /\ ReqOK' /\ Others(p)
           /\ EventLeft /\ req[p].pc = "idle"
           /\ req'[p].op = "login"
           /\ \/ req'[p].pc = "verify" /\ status = "ACTIVE"
              \/ req'[p].pc = "lift" /\ status = "LOCKED"
           /\ early' = early \ {p} /\ outrun' = outrun \ {p}
           /\ UNCHANGED <<row, sessions, batch, bus, faults, unrevoked, skewed>>
  <1>1. CASE status = "ACTIVE" /\ Start(p, "verify", "login")
    BY <1>1, Started DEF BeginLogin
  <1>2. CASE status = "LOCKED" /\ Start(p, "lift", "login")
    BY <1>2, Started DEF BeginLogin
  <1>3. QED
    BY <1>1, <1>2 DEF BeginLogin

LEMMA RefreshBegun ==
    ASSUME ReqOK, sessions \subseteq Kinds, NEW p \in Procs, NEW kind, BeginRefresh(p, kind)
    PROVE  /\ ReqOK' /\ Others(p)
           /\ kind \in sessions /\ req[p].pc = "idle"
           /\ req'[p].pc = "rotate" /\ req'[p].op = "refresh" /\ req'[p].kind = kind
           /\ early' = early \ {p} /\ outrun' = outrun \ {p}
           /\ UNCHANGED <<row, sessions, batch, bus, faults, unrevoked, skewed>>
  <1> DEFINE r == [Idle EXCEPT !.pc = "rotate", !.op = "refresh", !.kind = kind]
  <1>1. kind \in Kinds
    BY DEF BeginRefresh
  <1>2. r \in Req /\ r.pc = "rotate" /\ r.op = "refresh" /\ r.kind = kind
    BY <1>1 DEF Idle, Req
  <1>3. req' = [req EXCEPT ![p] = r]
    BY DEF BeginRefresh
  <1> HIDE DEF r
  <1>4. QED
    BY <1>2, <1>3, Set DEF BeginRefresh, Anew

(* A wrong password ends the login, or makes it the one that locks. *)
LEMMA WrongPasswordMoves ==
    ASSUME ReqOK, NEW p \in Procs, WrongPassword(p)
    PROVE  /\ ReqOK' /\ Others(p)
           /\ req[p].pc = "verify"
           /\ \/ req'[p].pc = "idle" /\ req'[p].op = "none"
              \/ req'[p].pc = "write" /\ req'[p].op = "brute"
           /\ UNCHANGED <<row, sessions, batch, bus, faults, ghosts>>
  <1>1. CASE End(p)
    BY <1>1, Ended DEF WrongPassword
  <1>2. CASE ~End(p)
    <2> DEFINE r == [req[p] EXCEPT !.pc = "write", !.op = "brute", !.until = "ahead"]
    <2>1. r \in Req /\ r.pc = "write" /\ r.op = "brute"
      BY DEF ReqOK, Req
    <2>2. req' = [req EXCEPT ![p] = r]
      BY <1>2 DEF WrongPassword
    <2> HIDE DEF r
    <2>3. QED
      BY <2>1, <2>2, Set DEF WrongPassword
  <1>3. QED
    BY <1>1, <1>2

LEMMA AfterWriteType ==
    \A op : AfterWrite(op) \in {"revoke", "announce"}
  BY DEF AfterWrite

LEMMA WriteMoves ==
    ASSUME ReqOK, NEW p \in Procs, Write(p)
    PROVE  /\ ReqOK' /\ Others(p)
           /\ req[p].pc = "write"
           /\ req'[p].pc = AfterWrite(req[p].op) /\ req'[p].op = req[p].op
  BY Moved, AfterWriteType DEF Write

(* A revocation ends the brute-force lock, and is followed by the event of the *)
(* others; an event, the other way round.                                    *)
LEMMA RevokeMoves ==
    ASSUME ReqOK, NEW p \in Procs, RevokeAll(p)
    PROVE  /\ ReqOK' /\ Others(p)
           /\ req[p].pc = "revoke"
           /\ \/ req[p].op = "brute" /\ req'[p].pc = "idle" /\ req'[p].op = "none"
              \/ req[p].op # "brute" /\ req'[p].pc = "announce" /\ req'[p].op = req[p].op
  <1>1. CASE req[p].op = "brute"
    BY <1>1, Ended DEF RevokeAll
  <1>2. CASE req[p].op # "brute"
    BY <1>2, Moved DEF RevokeAll
  <1>3. QED
    BY <1>1, <1>2

LEMMA AnnounceMoves ==
    ASSUME ReqOK, NEW p \in Procs, Announce(p)
    PROVE  /\ ReqOK' /\ Others(p)
           /\ req[p].pc = "announce"
           /\ \/ req[p].op = "brute" /\ req'[p].pc = "revoke" /\ req'[p].op = "brute"
              \/ req[p].op # "brute" /\ req'[p].pc = "idle" /\ req'[p].op = "none"
  <1>1. CASE req[p].op = "brute"
    BY <1>1, Moved DEF Announce
  <1>2. CASE req[p].op # "brute"
    BY <1>2, Ended DEF Announce
  <1>3. QED
    BY <1>1, <1>2

(* The statements of a login or refresh that write no columns of the account. *)
LEMMA SessionMoves ==
    ASSUME ReqOK, NEW p \in Procs, Rotate(p) \/ Reissue(p) \/ IssueSession(p)
    PROVE  /\ ReqOK' /\ Others(p)
           /\ req[p].pc \in {"verify", "rotate", "reissue"}
           /\ \/ req'[p].pc = "idle" /\ req'[p].op = "none"
              \/ /\ Rotate(p) /\ req[p].pc = "rotate"
                 /\ req'[p].pc = "reissue" /\ req'[p].op = req[p].op
                 /\ req'[p].kind = req[p].kind
           /\ UNCHANGED <<row, batch, bus, faults, ghosts>>
  <1>1. CASE Rotate(p)
    BY <1>1, Moved DEF Rotate
  <1>2. CASE Reissue(p)
    BY <1>2, Ended DEF Reissue
  <1>3. CASE IssueSession(p)
    BY <1>3, Ended DEF IssueSession
  <1>4. QED
    BY <1>1, <1>2, <1>3

LEMMA LiftMoves ==
    ASSUME ReqOK, NEW p \in Procs, LazyUnlock(p)
    PROVE  /\ ReqOK' /\ Others(p)
           /\ req[p].pc = "lift" /\ req'[p].pc = "verify" /\ req'[p].op = req[p].op
  BY Moved DEF LazyUnlock

LEMMA AbortMoves ==
    ASSUME ReqOK, NEW p \in Procs, Abort(p)
    PROVE  /\ ReqOK' /\ Others(p)
           /\ req'[p].pc = "idle" /\ req'[p].op = "none"
  BY Ended DEF Abort

(* The steps that move no handler. *)
Deliveries == \E p \in Procs : Deliver(p) \/ Lose(p)
JobSteps == \E j \in Jobs : JobFind(j) \/ JobUnlock(j) \/ JobSkip(j)

LEMMA HandlersRest ==
    ASSUME Deliveries \/ JobSteps \/ Tick \/ UNCHANGED vars
    PROVE  UNCHANGED req
  BY DEF Deliveries, JobSteps, Deliver, Lose, JobFind, JobUnlock, JobSkip, Tick, vars

LEMMA NextSplit ==
    ASSUME [Next]_vars
    PROVE  \/ \E p \in Procs : \/ \E op \in {"lock", "unlock", "ban"} : BeginAdmin(p, op)
                               \/ BeginDelete(p)
           \/ \E p \in Procs : Write(p)
           \/ \E p \in Procs : RevokeAll(p)
           \/ \E p \in Procs : Announce(p)
           \/ \E p \in Procs : BeginLogin(p)
           \/ \E p \in Procs : LazyUnlock(p)
           \/ \E p \in Procs : WrongPassword(p)
           \/ \E p \in Procs, kind \in Kinds : BeginRefresh(p, kind)
           \/ \E p \in Procs : Rotate(p) \/ Reissue(p) \/ IssueSession(p)
           \/ \E p \in Procs : Abort(p)
           \/ Deliveries \/ JobSteps \/ Tick \/ UNCHANGED vars
  BY DEF Next, Admin, Client, Deliveries, JobSteps

-----------------------------------------------------------------------------
(* The columns. *)

RowOK == status \in Status /\ lockedUntil \in {"ahead", "passed", None}

LEMMA Results ==
    /\ Result("lock") = "LOCKED" /\ Result("brute") = "LOCKED"
    /\ Result("ban") = "BANNED" /\ Result("unlock") = "ACTIVE"
    /\ Result("delete") = "none"
  BY DEF Result

LEMMA ResultType ==
    \A op \in Ops : Result(op) \in Status
  BY Results DEF Ops, Status

LEMMA Columns ==
    ASSUME RowOK, NEW op \in Ops, NEW until \in {"ahead", None}, SetColumns(op, until)
    PROVE  /\ RowOK'
           /\ Exists => status' = Result(op)
           /\ ~Exists => status' = "none" /\ status = "none"
  <1>1. status' \in Status
    BY ResultType DEF SetColumns, RowOK
  <1>2. lockedUntil' \in {"ahead", "passed", None}
    BY DEF SetColumns, RowOK
  <1>3. QED
    BY <1>1, <1>2 DEF SetColumns, RowOK, Exists

LEMMA Quietly ==
    ASSUME RowOK, UnlockQuietly
    PROVE  /\ RowOK'
           /\ Exists => status' = "ACTIVE"
           /\ ~Exists => status' = "none" /\ status = "none"
  BY Columns, Results DEF UnlockQuietly, Ops

LEMMA Written ==
    ASSUME RowOK, ReqOK, OpKnown, NEW p \in Procs, Write(p)
    PROVE  /\ req[p].op \in Ops /\ RowOK'
           /\ Exists => status' = Result(req[p].op)
           /\ ~Exists => status' = "none" /\ status = "none"
  <1>1. req[p].op \in Ops
    BY DEF Write, OpKnown, Known
  <1>2. req[p].until \in {"ahead", None}
    BY DEF ReqOK, Req
  <1>3. SetColumns(req[p].op, req[p].until)
    BY DEF Write
  <1>4. QED
    BY <1>1, <1>2, <1>3, Columns

(* All the other steps. *)
-----------------------------------------------------------------------------
(* Types *)

SessionsOK == sessions \subseteq Kinds /\ (~Exists => sessions = {})

BusOK == view \in Event /\ outbox \in [Procs -> Seq(Event)]

RestOK ==
    /\ batch \subseteq Jobs /\ faults \in 0..MaxFaults
    /\ early \subseteq Procs \cup Jobs /\ outrun \subseteq Procs
    /\ unrevoked \in BOOLEAN /\ skewed \in BOOLEAN

(* Each of these operations may still publish one event. *)
Owing == {q \in Procs : /\ req[q].op \notin {"none", "refresh"}
                        /\ ~(req[q].op = "brute" /\ req[q].pc = "revoke")}

Budget == clock \in Nat /\ clock + Cardinality(Owing) <= MaxEvents

TypeInv == RowOK /\ ReqOK /\ OpKnown /\ SessionsOK /\ BusOK /\ RestOK /\ Budget

LEMMA OwingFinite == IsFiniteSet(Owing) /\ Cardinality(Owing) \in Nat
  <1>1. Owing \subseteq Procs
    BY DEF Owing
  <1>2. QED
    BY <1>1, AccountEventsAssumption, FS_Subset, FS_CardinalityType

LEMMA TypeInvImplies == TypeInv => TypeOK
  <1> SUFFICES ASSUME TypeInv PROVE TypeOK
    OBVIOUS
  <1>1. clock \in 0..MaxEvents
    BY OwingFinite, AccountEventsAssumption DEF TypeInv, Budget
  <1>2. ASSUME NEW p \in Procs, NEW i \in 1..Len(outbox[p])
        PROVE  outbox[p][i] \in Event
    <2>1. outbox[p] \in Seq(Event)
      BY DEF TypeInv, BusOK
    <2>2. QED
      BY <2>1, ElementOfSeq
  <1>3. QED
    BY <1>1, <1>2 DEF TypeInv, RowOK, ReqOK, OpKnown, Known, Ops, SessionsOK, BusOK, RestOK, TypeOK

LEMMA InitTypes == Init => TypeInv
  <1> SUFFICES ASSUME Init PROVE TypeInv
    OBVIOUS
  <1>1. RowOK /\ SessionsOK
    BY DEF Init, RowOK, SessionsOK, Status, Kinds
  <1>2. ReqOK
    BY DEF Init, ReqOK, Req, Idle, Kinds
  <1>3. \A q \in Procs : req[q].pc = "idle" /\ req[q].op = "none"
    BY DEF Init, Idle
  <1>4. OpKnown
    BY <1>3 DEF OpKnown, Known
  <1>5. view \in Event
    BY AccountEventsAssumption DEF Init, Event, Status
  <1>6. <<>> \in Seq(Event)
    OBVIOUS
  <1>7. BusOK
    BY <1>5, <1>6 DEF Init, BusOK
  <1>8. unrevoked \in BOOLEAN /\ skewed \in BOOLEAN
    BY DEF Init
  <1>9. RestOK
    BY <1>8, AccountEventsAssumption DEF Init, RestOK
  <1>10. Owing = {}
    BY <1>3 DEF Owing
  <1>11. Budget
    BY <1>10, FS_EmptySet, AccountEventsAssumption DEF Init, Budget
  <1>12. QED
    BY <1>1, <1>2, <1>4, <1>7, <1>9, <1>11 DEF TypeInv

LEMMA Handlers ==
    ASSUME ReqOK, OpKnown, SessionsOK, [Next]_vars
    PROVE  ReqOK' /\ OpKnown'
  <1>1. ASSUME NEW p \in Procs, ReqOK', Others(p), NEW k, k = req'[p], Known(k)
        PROVE  OpKnown'
    <2>1. \A q \in Procs \ {p} : req'[q] = req[q]
      BY <1>1 DEF Others
    <2>2. ASSUME NEW q \in Procs PROVE Known(req'[q])
      <3>1. CASE q = p
        BY <1>1, <2>2, <3>1
      <3>2. CASE q # p
        BY <2>1, <2>2, <3>2 DEF OpKnown, Known
      <3>3. QED
        BY <3>1, <3>2
    <2>3. QED
      BY <2>2 DEF OpKnown, Known
  <1>2. ASSUME NEW p \in Procs,
               \/ \E op \in {"lock", "unlock", "ban"} : BeginAdmin(p, op)
               \/ BeginDelete(p)
        PROVE  ReqOK' /\ OpKnown'
    <2>1. Known(req'[p])
      BY <1>2, Begun DEF Known, Ops
    <2>2. QED
      BY <1>1, <1>2, <2>1, Begun
  <1>3. ASSUME NEW p \in Procs, Write(p)
        PROVE  ReqOK' /\ OpKnown'
    <2>1. Known(req'[p])
      BY <1>3, WriteMoves, AfterWriteType DEF OpKnown, Known
    <2>2. QED
      BY <1>1, <1>3, <2>1, WriteMoves
  <1>4. ASSUME NEW p \in Procs, RevokeAll(p)
        PROVE  ReqOK' /\ OpKnown'
    <2>1. Known(req'[p])
      BY <1>4, RevokeMoves DEF OpKnown, Known
    <2>2. QED
      BY <1>1, <1>4, <2>1, RevokeMoves
  <1>5. ASSUME NEW p \in Procs, Announce(p)
        PROVE  ReqOK' /\ OpKnown'
    <2>1. Known(req'[p])
      BY <1>5, AnnounceMoves DEF Known, Ops
    <2>2. QED
      BY <1>1, <1>5, <2>1, AnnounceMoves
  <1>6. ASSUME NEW p \in Procs, BeginLogin(p)
        PROVE  ReqOK' /\ OpKnown'
    <2>1. Known(req'[p])
      BY <1>6, LoginBegun DEF Known
    <2>2. QED
      BY <1>1, <1>6, <2>1, LoginBegun
  <1>7. ASSUME NEW p \in Procs, LazyUnlock(p)
        PROVE  ReqOK' /\ OpKnown'
    <2>1. Known(req'[p])
      BY <1>7, LiftMoves DEF Known, OpKnown
    <2>2. QED
      BY <1>1, <1>7, <2>1, LiftMoves
  <1>8. ASSUME NEW p \in Procs, WrongPassword(p)
        PROVE  ReqOK' /\ OpKnown'
    <2>1. Known(req'[p])
      BY <1>8, WrongPasswordMoves DEF Known, Ops
    <2>2. QED
      BY <1>1, <1>8, <2>1, WrongPasswordMoves
  <1>9. ASSUME NEW p \in Procs, NEW kind \in Kinds, BeginRefresh(p, kind)
        PROVE  ReqOK' /\ OpKnown'
    <2>1. ReqOK' /\ Others(p) /\ Known(req'[p])
      BY <1>9, RefreshBegun DEF SessionsOK, Known
    <2>2. QED
      BY <1>1, <2>1
  <1>10. ASSUME NEW p \in Procs, Rotate(p) \/ Reissue(p) \/ IssueSession(p)
         PROVE  ReqOK' /\ OpKnown'
    <2>1. Known(req'[p])
      BY <1>10, SessionMoves DEF Known
    <2>2. QED
      BY <1>1, <1>10, <2>1, SessionMoves
  <1>11. ASSUME NEW p \in Procs, Abort(p)
         PROVE  ReqOK' /\ OpKnown'
    <2>1. Known(req'[p])
      BY <1>11, AbortMoves DEF Known
    <2>2. QED
      BY <1>1, <1>11, <2>1, AbortMoves
  <1>12. CASE Deliveries \/ JobSteps \/ Tick \/ UNCHANGED vars
    BY <1>12, HandlersRest DEF ReqOK, OpKnown, Known
  <1>13. QED
    BY <1>2, <1>3, <1>4, <1>5, <1>6, <1>7, <1>8, <1>9, <1>10, <1>11, <1>12, NextSplit

LEMMA RowAndSessions ==
    ASSUME RowOK, ReqOK, OpKnown, SessionsOK, [Next]_vars
    PROVE  RowOK' /\ SessionsOK'
  <1>1. ASSUME UNCHANGED <<row, sessions>>
        PROVE  RowOK' /\ SessionsOK'
    BY <1>1 DEF row, RowOK, SessionsOK, Exists
  <1>2. ASSUME NEW p \in Procs, Write(p)
        PROVE  RowOK' /\ SessionsOK'
    <2>1. RowOK' /\ req[p].op \in Ops
      BY <1>2, Written
    <2>2. sessions' \subseteq Kinds
      BY <1>2 DEF Write, SessionsOK
    <2>3. CASE Exists /\ req[p].op # "delete"
      <3>1. status' = Result(req[p].op) /\ status' # "none"
        BY <1>2, <2>1, <2>3, Written, Results DEF Ops
      <3>2. QED
        BY <2>1, <2>2, <3>1 DEF SessionsOK, Exists
    <2>4. CASE ~Exists
      <3>1. sessions' = {}
        BY <1>2, <2>4 DEF Write, SessionsOK
      <3>2. QED
        BY <2>1, <2>2, <3>1 DEF SessionsOK
    <2>5. CASE req[p].op = "delete"
      <3>1. sessions' = {}
        BY <1>2, <2>5 DEF Write
      <3>2. QED
        BY <2>1, <2>2, <3>1 DEF SessionsOK
    <2>6. QED
      BY <2>3, <2>4, <2>5
  <1>3. ASSUME NEW p \in Procs, RevokeAll(p)
        PROVE  RowOK' /\ SessionsOK'
    <2>1. sessions' = {} /\ UNCHANGED row
      BY <1>3 DEF RevokeAll
    <2>2. QED
      BY <2>1 DEF SessionsOK, row, RowOK
  <1>4. ASSUME UnlockQuietly, UNCHANGED sessions
        PROVE  RowOK' /\ SessionsOK'
    <2>1. RowOK' /\ (Exists => status' # "none")
      BY <1>4, Quietly
    <2>2. QED
      BY <1>4, <2>1 DEF SessionsOK, Exists
  <1>5. ASSUME NEW p \in Procs, Rotate(p) \/ Reissue(p) \/ IssueSession(p)
        PROVE  RowOK' /\ SessionsOK'
    <2>1. UNCHANGED row
      BY <1>5, SessionMoves
    <2>2. req[p].kind \in Kinds
      BY DEF ReqOK, Req
    <2>3. NewSession(p) \subseteq Kinds
      BY <2>2 DEF NewSession, SessionsOK, Kinds
    <2>4. CASE Rotate(p)
      <3>1. sessions' \subseteq sessions
        BY <2>4 DEF Rotate
      <3>2. QED
        BY <2>1, <3>1 DEF SessionsOK, row, RowOK, Exists
    <2>5. CASE Reissue(p) \/ IssueSession(p)
      <3>1. sessions' = IF Exists THEN NewSession(p) ELSE sessions
        BY <2>5 DEF Reissue, IssueSession
      <3>2. QED
        BY <2>1, <2>3, <3>1 DEF SessionsOK, row, RowOK, Exists
    <2>6. QED
      BY <1>5, <2>4, <2>5
  <1>6. ASSUME NEW p \in Procs, LazyUnlock(p)
        PROVE  RowOK' /\ SessionsOK'
    BY <1>4, <1>6 DEF LazyUnlock
  <1>7. CASE JobSteps
    <2> PICK j \in Jobs : JobFind(j) \/ JobUnlock(j) \/ JobSkip(j)
      BY <1>7 DEF JobSteps
    <2>1. CASE JobUnlock(j)
      BY <1>4, <2>1 DEF JobUnlock
    <2>2. CASE JobFind(j) \/ JobSkip(j)
      BY <1>1, <2>2 DEF JobFind, JobSkip
    <2>3. QED
      BY <2>1, <2>2
  <1>8. CASE Tick
    BY <1>8 DEF Tick, RowOK, SessionsOK, Exists
  <1>9. CASE Deliveries
    BY <1>1, <1>9 DEF Deliveries, Deliver, Lose
  <1>10. CASE UNCHANGED vars
    BY <1>1, <1>10 DEF vars
  <1>11. ASSUME NEW p \in Procs,
                \/ \E op \in {"lock", "unlock", "ban"} : BeginAdmin(p, op)
                \/ BeginDelete(p)
         PROVE  RowOK' /\ SessionsOK'
    BY <1>1, <1>11, Begun
  <1>12. ASSUME NEW p \in Procs, NEW kind \in Kinds, BeginRefresh(p, kind)
         PROVE  RowOK' /\ SessionsOK'
    BY <1>1, <1>12 DEF BeginRefresh
  <1>13. ASSUME NEW p \in Procs,
                Announce(p) \/ BeginLogin(p) \/ WrongPassword(p) \/ Abort(p)
         PROVE  RowOK' /\ SessionsOK'
    BY <1>1, <1>13 DEF Announce, BeginLogin, WrongPassword, Abort
  <1>14. QED
    BY <1>2, <1>3, <1>5, <1>6, <1>7, <1>8, <1>9, <1>10, <1>11, <1>12, <1>13, NextSplit

LEMMA Rest ==
    ASSUME ReqOK, RestOK, [Next]_vars
    PROVE  RestOK'
  <1>1. batch' \subseteq Jobs /\ faults' \in 0..MaxFaults
    <2>1. batch' = batch \/ \E j \in Jobs : batch' \in {batch \cup {j}, batch \ {j}}
      BY DEF Next, Admin, Client, BeginAdmin, BeginDelete, Write, RevokeAll, Announce, BeginLogin,
             LazyUnlock, WrongPassword, IssueSession, BeginRefresh, Rotate, Reissue, Abort,
             Deliver, Lose, JobFind, JobUnlock, JobSkip, Tick, vars
    <2>2. faults' = faults \/ Fault
      BY DEF Next, Admin, Client, BeginAdmin, BeginDelete, Write, RevokeAll, Announce, BeginLogin,
             LazyUnlock, WrongPassword, IssueSession, BeginRefresh, Rotate, Reissue, Abort,
             Deliver, Lose, JobFind, JobUnlock, JobSkip, Tick, vars
    <2>3. QED
      BY <2>1, <2>2, AccountEventsAssumption DEF RestOK, Fault
  <1>2. unrevoked' \in BOOLEAN
    BY DEF Next, Admin, Client, BeginAdmin, BeginDelete, Write, RevokeAll, Announce, BeginLogin,
           LazyUnlock, WrongPassword, IssueSession, BeginRefresh, Rotate, Reissue, Abort,
           Deliver, Lose, JobFind, JobUnlock, JobSkip, Tick, vars, ghosts, RestOK
  <1>3. skewed' \in BOOLEAN
    BY DEF Next, Admin, Client, BeginAdmin, BeginDelete, Write, RevokeAll, Announce, BeginLogin,
           LazyUnlock, WrongPassword, IssueSession, BeginRefresh, Rotate, Reissue, Abort,
           Deliver, Lose, JobFind, JobUnlock, JobSkip, Tick, UnlockQuietly, vars, ghosts, RestOK
  <1>4. early' \subseteq Procs \cup Jobs /\ outrun' \subseteq Procs
    <2>1. InFlight \subseteq Procs \cup Jobs
      BY DEF InFlight, RestOK
    <2>2. early' \subseteq early \cup InFlight /\ outrun' \subseteq outrun \cup Procs
      BY DEF Next, Admin, Client, BeginAdmin, BeginDelete, Write, RevokeAll, Announce, BeginLogin,
             LazyUnlock, WrongPassword, IssueSession, BeginRefresh, Rotate, Reissue, Abort,
             Deliver, Lose, JobFind, JobUnlock, JobSkip, Tick, vars, ghosts, Start, Anew
    <2>3. QED
      BY <2>1, <2>2 DEF RestOK
  <1>5. QED
    BY <1>1, <1>2, <1>3, <1>4 DEF RestOK

(* What an operation adds to what is owed, and an event takes from it. *)
LEMMA OwingMoves ==
    ASSUME ReqOK, OpKnown, SessionsOK, [Next]_vars
    PROVE  \/ /\ Owing' \subseteq Owing /\ clock' = clock
           \/ /\ \E p \in Procs : Owing' \subseteq Owing \cup {p}
              /\ EventLeft /\ clock' = clock
           \/ \E p \in Procs : /\ Announce(p) /\ clock' = clock + 1
                               /\ p \in Owing /\ Owing' \subseteq Owing \ {p}
  <1>1. ASSUME NEW p \in Procs, Others(p)
        PROVE  Owing' \subseteq Owing \cup {p} /\ (p \in Owing' \/ Owing' \subseteq Owing \ {p})
    BY <1>1 DEF Owing, Others
  <1>2. ASSUME UNCHANGED req PROVE Owing' = Owing
    BY <1>2 DEF Owing
  <1>3. ASSUME NEW p \in Procs,
               \/ \E op \in {"lock", "unlock", "ban"} : BeginAdmin(p, op)
               \/ BeginDelete(p)
        PROVE  \E q \in Procs : Owing' \subseteq Owing \cup {q} /\ EventLeft /\ clock' = clock
    BY <1>1, <1>3, Begun DEF bus
  <1>4. ASSUME NEW p \in Procs, BeginLogin(p)
        PROVE  \E q \in Procs : Owing' \subseteq Owing \cup {q} /\ EventLeft /\ clock' = clock
    BY <1>1, <1>4, LoginBegun DEF bus
  <1>5. ASSUME NEW p \in Procs, Write(p)
        PROVE  Owing' \subseteq Owing /\ clock' = clock
    <2>1. Others(p) /\ req'[p].op = req[p].op /\ req[p].pc = "write"
      BY <1>5, WriteMoves
    <2>2. p \in Owing' => p \in Owing
      BY <2>1 DEF Owing
    <2>3. QED
      BY <1>1, <1>5, <2>1, <2>2 DEF Write, bus
  <1>6. ASSUME NEW p \in Procs, RevokeAll(p)
        PROVE  Owing' \subseteq Owing /\ clock' = clock
    <2>1. p \in Owing' => p \in Owing
      BY <1>6, RevokeMoves DEF Owing
    <2>2. QED
      BY <1>1, <1>6, <2>1, RevokeMoves DEF RevokeAll, bus
  <1>7. ASSUME NEW p \in Procs, Announce(p)
        PROVE  /\ clock' = clock + 1
               /\ p \in Owing /\ Owing' \subseteq Owing \ {p}
    <2>1. req[p].pc = "announce" /\ req[p].op \in Ops
      BY <1>7 DEF Announce, OpKnown, Known
    <2>2. p \in Owing
      BY <2>1 DEF Owing, Ops
    <2>3. p \notin Owing'
      BY <1>7, AnnounceMoves DEF Owing
    <2>4. QED
      BY <1>1, <1>7, <2>2, <2>3, AnnounceMoves DEF Announce
  <1>8. ASSUME NEW p \in Procs, LazyUnlock(p)
        PROVE  Owing' \subseteq Owing /\ clock' = clock
    <2>1. p \in Owing' => p \in Owing
      BY <1>8, LiftMoves DEF Owing
    <2>2. QED
      BY <1>1, <1>8, <2>1, LiftMoves DEF LazyUnlock, bus
  <1>9. ASSUME NEW p \in Procs, Rotate(p) \/ Reissue(p) \/ IssueSession(p)
        PROVE  Owing' \subseteq Owing /\ clock' = clock
    <2>1. p \in Owing' => p \in Owing
      BY <1>9, SessionMoves DEF Owing
    <2>2. QED
      BY <1>1, <1>9, <2>1, SessionMoves DEF bus
  <1>10. ASSUME NEW p \in Procs, NEW kind \in Kinds, BeginRefresh(p, kind)
         PROVE  Owing' \subseteq Owing /\ clock' = clock
    <2>1. Others(p) /\ req'[p].op = "refresh" /\ UNCHANGED bus
      BY <1>10, RefreshBegun DEF SessionsOK
    <2>2. p \notin Owing'
      BY <2>1 DEF Owing
    <2>3. QED
      BY <1>1, <2>1, <2>2 DEF bus
  <1>11. ASSUME NEW p \in Procs, Abort(p)
         PROVE  Owing' \subseteq Owing /\ clock' = clock
    <2>1. p \notin Owing'
      BY <1>11, AbortMoves DEF Owing
    <2>2. QED
      BY <1>1, <1>11, <2>1, AbortMoves DEF Abort, bus
  <1>12. ASSUME NEW p \in Procs, WrongPassword(p)
         PROVE  Owing' \subseteq Owing /\ clock' = clock
    <2>1. req[p].op = "login"
      BY <1>12, WrongPasswordMoves DEF OpKnown, Known
    <2>2. p \in Owing
      BY <2>1 DEF Owing
    <2>3. QED
      BY <1>1, <1>12, <2>2, WrongPasswordMoves DEF bus
  <1>13. CASE Deliveries \/ JobSteps \/ Tick \/ UNCHANGED vars
    <2>1. clock' = clock
      BY <1>13 DEF Deliveries, JobSteps, Deliver, Lose, JobFind, JobUnlock, JobSkip, Tick,
                   vars, bus
    <2>2. QED
      BY <1>2, <1>13, <2>1, HandlersRest
  <1>14. QED
    BY <1>3, <1>4, <1>5, <1>6, <1>7, <1>8, <1>9, <1>10, <1>11, <1>12, <1>13, NextSplit

LEMMA BudgetKept ==
    ASSUME ReqOK, OpKnown, SessionsOK, Budget, [Next]_vars
    PROVE  Budget'
  <1> DEFINE n == Cardinality(Owing)
             m == Cardinality(Owing)'
  <1>1. n \in Nat /\ IsFiniteSet(Owing) /\ IsFiniteSet(Procs)
    BY OwingFinite, AccountEventsAssumption
  <1>2. Owing' \subseteq Procs
    BY DEF Owing
  <1>3. m \in Nat /\ IsFiniteSet(Owing')
    BY <1>1, <1>2, FS_Subset, FS_CardinalityType
  <1>4. CASE Owing' \subseteq Owing /\ clock' = clock
    <2>1. m <= n
      BY <1>1, <1>4, FS_Subset
    <2>2. QED
      BY <1>1, <1>3, <1>4, <2>1, AccountEventsAssumption DEF Budget
  <1>5. CASE /\ \E p \in Procs : Owing' \subseteq Owing \cup {p}
             /\ EventLeft /\ clock' = clock
    <2> PICK p \in Procs : Owing' \subseteq Owing \cup {p}
      BY <1>5
    <2> DEFINE U == {q \in Procs : req[q].op # "none" /\ req[q].op # "refresh"}
    <2>1. U \subseteq Procs /\ Owing \subseteq U
      BY DEF Owing
    <2>2. Cardinality(U) \in Nat /\ n <= Cardinality(U)
      BY <1>1, <2>1, FS_Subset, FS_CardinalityType
    <2>3. clock + Cardinality(U) < MaxEvents
      BY <1>5 DEF EventLeft
    <2>4. IsFiniteSet(Owing \cup {p}) /\ Cardinality(Owing \cup {p}) \in {n, n + 1}
      BY <1>1, FS_AddElement
    <2>5. m <= Cardinality(Owing \cup {p})
      BY <2>4, FS_Subset
    <2> HIDE DEF U, n, m
    <2>6. m <= n + 1
      BY <1>1, <1>3, <2>4, <2>5
    <2>7. clock' \in Nat /\ clock' + m <= MaxEvents
      BY <1>1, <1>3, <1>5, <2>2, <2>3, <2>6, AccountEventsAssumption DEF Budget
    <2>8. QED
      BY <2>7 DEF Budget, m
  <1>6. CASE \E p \in Procs : /\ clock' = clock + 1
                              /\ p \in Owing /\ Owing' \subseteq Owing \ {p}
    <2> PICK p \in Procs : /\ clock' = clock + 1
                           /\ p \in Owing /\ Owing' \subseteq Owing \ {p}
      BY <1>6
    <2>1. IsFiniteSet(Owing \ {p}) /\ Cardinality(Owing \ {p}) = n - 1
      BY <1>1, FS_RemoveElement
    <2>2. m <= n - 1
      BY <2>1, FS_Subset
    <2>3. QED
      BY <1>1, <1>3, <2>2, AccountEventsAssumption DEF Budget
  <1>7. QED
    BY <1>4, <1>5, <1>6, OwingMoves

(* An event is stamped with a number below the bound. *)
LEMMA Stamped ==
    ASSUME TypeInv, [Next]_vars, NEW p \in Procs, Announce(p)
    PROVE  /\ clock' \in 0..MaxEvents /\ clock' = clock + 1
           /\ [ts |-> clock', says |-> Result(req[p].op)] \in Event
  <1>1. Budget'
    BY BudgetKept DEF TypeInv
  <1>2. Cardinality(Owing)' \in Nat
    <2>1. Owing' \subseteq Procs
      BY DEF Owing
    <2>2. QED
      BY <2>1, FS_Subset, FS_CardinalityType, AccountEventsAssumption
  <1>3. clock' \in 0..MaxEvents
    BY <1>1, <1>2, AccountEventsAssumption DEF Budget
  <1>4. Result(req[p].op) \in Status
    BY ResultType DEF TypeInv, OpKnown, Known, Announce
  <1>5. QED
    BY <1>3, <1>4 DEF Announce, Event

LEMMA BusTypes ==
    ASSUME TypeInv, [Next]_vars
    PROVE  BusOK'
  <1>1. ASSUME UNCHANGED bus PROVE BusOK'
    BY <1>1 DEF bus, TypeInv, BusOK
  <1>2. ASSUME NEW p \in Procs, Announce(p)
        PROVE  BusOK'
    <2> DEFINE e == [ts |-> clock', says |-> Result(req[p].op)]
    <2>1. e \in Event
      BY <1>2, Stamped
    <2>2. outbox' = [outbox EXCEPT ![p] = Append(outbox[p], e)] /\ view' = view
      BY <1>2 DEF Announce
    <2> HIDE DEF e
    <2>3. outbox[p] \in Seq(Event)
      BY DEF TypeInv, BusOK
    <2>4. Append(outbox[p], e) \in Seq(Event)
      BY <2>1, <2>3, AppendProperties
    <2>5. QED
      BY <2>2, <2>4 DEF TypeInv, BusOK
  <1>3. ASSUME NEW p \in Procs, Deliver(p) \/ Lose(p)
        PROVE  BusOK'
    <2>1. outbox[p] \in Seq(Event) /\ outbox[p] # <<>>
      BY <1>3 DEF Deliver, Lose, TypeInv, BusOK
    <2>2. Head(outbox[p]) \in Event /\ Tail(outbox[p]) \in Seq(Event)
      BY <2>1, HeadTailProperties
    <2>3. outbox' = [outbox EXCEPT ![p] = Tail(outbox[p])] /\ view' \in {view, Head(outbox[p])}
      BY <1>3 DEF Deliver, Lose
    <2>4. QED
      BY <2>2, <2>3 DEF TypeInv, BusOK
  <1>4. CASE Deliveries
    BY <1>3, <1>4 DEF Deliveries
  <1>5. ASSUME NEW p \in Procs,
               \/ \E op \in {"lock", "unlock", "ban"} : BeginAdmin(p, op)
               \/ BeginDelete(p)
        PROVE  BusOK'
    BY <1>1, <1>5, Begun DEF TypeInv
  <1>6. ASSUME NEW p \in Procs,
               \/ Write(p) \/ RevokeAll(p) \/ BeginLogin(p) \/ LazyUnlock(p)
               \/ WrongPassword(p) \/ Rotate(p) \/ Reissue(p) \/ IssueSession(p) \/ Abort(p)
        PROVE  BusOK'
    BY <1>1, <1>6 DEF Write, RevokeAll, BeginLogin, LazyUnlock, WrongPassword, Rotate, Reissue,
                      IssueSession, Abort
  <1>7. ASSUME NEW p \in Procs, NEW kind \in Kinds, BeginRefresh(p, kind)
        PROVE  BusOK'
    BY <1>1, <1>7 DEF BeginRefresh
  <1>8. CASE JobSteps \/ Tick \/ UNCHANGED vars
    BY <1>1, <1>8 DEF JobSteps, JobFind, JobUnlock, JobSkip, Tick, vars
  <1>9. QED
    BY <1>2, <1>4, <1>5, <1>6, <1>7, <1>8, NextSplit

LEMMA NextTypes == TypeInv /\ [Next]_vars => TypeInv'
  <1> SUFFICES ASSUME TypeInv, [Next]_vars PROVE TypeInv'
    OBVIOUS
  <1>1. RowOK' /\ SessionsOK'
    BY RowAndSessions DEF TypeInv
  <1>2. ReqOK' /\ OpKnown'
    BY Handlers DEF TypeInv
  <1>3. RestOK' /\ Budget'
    BY Rest, BudgetKept DEF TypeInv
  <1>4. QED
    BY <1>1, <1>2, <1>3, BusTypes DEF TypeInv

LEMMA TypesKept == Spec => []TypeInv
  BY InitTypes, NextTypes, PTL DEF Spec

(* Every variable of the model holds a value of its kind, what a handler will *)
(* announce is a status, and an account without a row has no sessions.        *)
THEOREM TypeCorrect == Spec => []TypeOK
  BY TypesKept, TypeInvImplies, PTL

-----------------------------------------------------------------------------
(* A locked or banned account.  The strengthening says the same of the logins *)
(* and refreshes still in flight, which open the sessions: that they were in   *)
(* flight when a revocation ran, or rotate a session opened by such a one.     *)

ShutOut == status \in {"LOCKED", "BANNED"} /\ ~unrevoked /\ \A p \in Procs : ~Revoking(p)

EndsRaced(p) ==
    /\ req[p].pc = "verify" => p \in outrun
    /\ req[p].pc \in {"rotate", "reissue"} => p \in outrun \/ req[p].kind = "raced"

LockInv == ShutOut => sessions \subseteq {"raced"} /\ \A p \in Procs : EndsRaced(p)

(* A step of one handler that was not in the way of the claim. *)
LEMMA LockFrame ==
    ASSUME LockInv, ShutOut', NEW p \in Procs, Others(p),
           status' = status, unrevoked => unrevoked', ~Revoking(p),
           \A q \in Procs \ {p} : q \in outrun => q \in outrun'
    PROVE  /\ ShutOut /\ sessions \subseteq {"raced"} /\ EndsRaced(p)
           /\ \A q \in Procs \ {p} : EndsRaced(q)'
  <1>1. \A q \in Procs \ {p} : req'[q] = req[q]
    BY DEF Others
  <1>2. ASSUME NEW q \in Procs PROVE ~Revoking(q)
    <2>1. CASE q = p
      BY <2>1
    <2>2. CASE q # p
      <3>1. ~Revoking(q)'
        BY DEF ShutOut
      <3>2. QED
        BY <1>1, <2>2, <3>1 DEF Revoking
    <2>3. QED
      BY <2>1, <2>2
  <1>3. ShutOut
    BY <1>2 DEF ShutOut
  <1>4. sessions \subseteq {"raced"} /\ \A q \in Procs : EndsRaced(q)
    BY <1>3 DEF LockInv
  <1>5. ASSUME NEW q \in Procs \ {p} PROVE EndsRaced(q)'
    BY <1>1, <1>4 DEF EndsRaced
  <1>6. QED
    BY <1>3, <1>4, <1>5

LEMMA LockKept ==
    ASSUME TypeInv, LockInv, [Next]_vars
    PROVE  LockInv'
  <1> SUFFICES ASSUME ShutOut' PROVE (sessions \subseteq {"raced"} /\ \A q \in Procs : EndsRaced(q))'
    BY DEF LockInv
  <1> USE DEF TypeInv
  <1>1. ASSUME NEW p \in Procs,
               \/ \E op \in {"lock", "unlock", "ban"} : BeginAdmin(p, op)
               \/ BeginDelete(p)
        PROVE  (sessions \subseteq {"raced"} /\ \A q \in Procs : EndsRaced(q))'
    <2>1. ~Revoking(p)
      BY <1>1, Begun DEF Revoking
    <2>2. /\ Others(p) /\ UNCHANGED <<row, sessions, unrevoked>>
          /\ req'[p].pc = "write" /\ outrun' = outrun \ {p}
      BY <1>1, Begun
    <2>3. EndsRaced(p)'
      BY <2>2 DEF EndsRaced
    <2>4. QED
      BY <2>1, <2>2, <2>3, LockFrame DEF row
  <1>2. ASSUME NEW p \in Procs, BeginLogin(p)
        PROVE  (sessions \subseteq {"raced"} /\ \A q \in Procs : EndsRaced(q))'
    <2>1. ~Revoking(p)
      BY <1>2, LoginBegun DEF Revoking
    <2>2. /\ Others(p) /\ UNCHANGED <<row, sessions, unrevoked>>
          /\ outrun' = outrun \ {p}
      BY <1>2, LoginBegun
    <2>3. status # "ACTIVE"
      BY <2>2 DEF ShutOut, row
    <2>4. req'[p].pc = "lift"
      BY <1>2, <2>3, LoginBegun
    <2>5. EndsRaced(p)'
      BY <2>4 DEF EndsRaced
    <2>6. QED
      BY <2>1, <2>2, <2>5, LockFrame DEF row
  <1>3. ASSUME NEW p \in Procs, Write(p)
        PROVE  FALSE
    <2>1. /\ req[p].op \in Ops
          /\ Exists => status' = Result(req[p].op)
          /\ ~Exists => status' = "none"
      BY <1>3, Written
    <2>2. status' \in {"LOCKED", "BANNED"} /\ ~Revoking(p)'
      BY DEF ShutOut
    <2>3. req[p].op \in {"lock", "ban", "brute"}
      BY <2>1, <2>2, Results DEF Ops
    <2>4. req'[p].op = req[p].op /\ req'[p].pc = AfterWrite(req[p].op)
      BY <1>3, WriteMoves
    <2>5. Revoking(p)'
      BY <2>3, <2>4 DEF Revoking, AfterWrite
    <2>6. QED
      BY <2>2, <2>5
  <1>4. ASSUME NEW p \in Procs, RevokeAll(p)
        PROVE  (sessions \subseteq {"raced"} /\ \A q \in Procs : EndsRaced(q))'
    <2>1. sessions' = {} /\ outrun' = outrun \cup {q \in Procs \ {p} : req[q].pc # "idle"}
      BY <1>4 DEF RevokeAll
    <2>2. Others(p) /\ req'[p].pc \in {"idle", "announce"}
      BY <1>4, RevokeMoves
    <2>3. EndsRaced(p)'
      BY <2>2 DEF EndsRaced
    <2>4. ASSUME NEW q \in Procs \ {p} PROVE EndsRaced(q)'
      <3>1. req'[q] = req[q]
        BY <2>2 DEF Others
      <3>2. req[q].pc # "idle" => q \in outrun'
        BY <2>1
      <3>3. QED
        BY <3>1, <3>2 DEF EndsRaced
    <2>5. QED
      BY <2>1, <2>3, <2>4
  <1>5. ASSUME NEW p \in Procs, Announce(p)
        PROVE  (sessions \subseteq {"raced"} /\ \A q \in Procs : EndsRaced(q))'
    <2>1. ~Revoking(p)'
      BY DEF ShutOut
    <2>2. req[p].pc = "announce" /\ req[p].op # "brute" /\ req'[p].pc = "idle" /\ Others(p)
      BY <1>5, <2>1, AnnounceMoves DEF Revoking
    <2>3. ~Revoking(p) /\ EndsRaced(p)'
      BY <2>2 DEF Revoking, EndsRaced
    <2>4. UNCHANGED <<row, sessions, outrun, unrevoked>>
      BY <1>5 DEF Announce, ghosts
    <2>5. QED
      BY <2>2, <2>3, <2>4, LockFrame DEF row
  <1>6. ASSUME UnlockQuietly
        PROVE  FALSE
    BY <1>6, Quietly DEF ShutOut
  <1>7. ASSUME NEW p \in Procs, WrongPassword(p)
        PROVE  (sessions \subseteq {"raced"} /\ \A q \in Procs : EndsRaced(q))'
    <2>1. ~Revoking(p) /\ EndsRaced(p)'
      BY <1>7, WrongPasswordMoves DEF Revoking, EndsRaced
    <2>2. Others(p) /\ UNCHANGED <<row, sessions, outrun, unrevoked>>
      BY <1>7, WrongPasswordMoves DEF ghosts
    <2>3. sessions' = sessions
      BY <1>7 DEF WrongPassword
    <2>4. QED
      BY <2>1, <2>2, <2>3, LockFrame DEF row
  <1>8. ASSUME NEW p \in Procs, NEW kind \in Kinds, BeginRefresh(p, kind)
        PROVE  (sessions \subseteq {"raced"} /\ \A q \in Procs : EndsRaced(q))'
    <2>1. /\ Others(p) /\ kind \in sessions /\ req[p].pc = "idle"
          /\ req'[p].pc = "rotate" /\ req'[p].kind = kind
          /\ outrun' = outrun \ {p} /\ UNCHANGED <<row, sessions, unrevoked>>
      BY <1>8, RefreshBegun DEF SessionsOK
    <2>2. ~Revoking(p)
      BY <2>1 DEF Revoking
    <2>3. sessions \subseteq {"raced"} /\ \A q \in Procs \ {p} : EndsRaced(q)'
      BY <2>1, <2>2, LockFrame DEF row
    <2>4. EndsRaced(p)'
      BY <2>1, <2>3 DEF EndsRaced
    <2>5. QED
      BY <2>1, <2>3, <2>4
  <1>9. ASSUME NEW p \in Procs, Rotate(p) \/ Reissue(p) \/ IssueSession(p)
        PROVE  (sessions \subseteq {"raced"} /\ \A q \in Procs : EndsRaced(q))'
    <2>1. Others(p) /\ ~Revoking(p) /\ UNCHANGED <<row, outrun, unrevoked>>
      BY <1>9, SessionMoves DEF Revoking, ghosts
    <2>2. sessions \subseteq {"raced"} /\ EndsRaced(p) /\ \A q \in Procs \ {p} : EndsRaced(q)'
      BY <2>1, LockFrame DEF row
    <2>3. EndsRaced(p)'
      BY <1>9, <2>1, <2>2, SessionMoves DEF EndsRaced
    <2>4. sessions' \subseteq {"raced"}
      <3>1. CASE Rotate(p)
        BY <2>2, <3>1 DEF Rotate
      <3>2. CASE Reissue(p) \/ IssueSession(p)
        <4>1. p \in outrun \/ req[p].kind = "raced"
          BY <2>2, <3>2 DEF Reissue, IssueSession, EndsRaced
        <4>2. NewSession(p) \subseteq {"raced"}
          BY <2>2, <4>1 DEF NewSession
        <4>3. QED
          BY <2>2, <3>2, <4>2 DEF Reissue, IssueSession
      <3>3. QED
        BY <1>9, <3>1, <3>2
    <2>5. QED
      BY <2>2, <2>3, <2>4
  <1>10. ASSUME NEW p \in Procs, Abort(p)
         PROVE  (sessions \subseteq {"raced"} /\ \A q \in Procs : EndsRaced(q))'
    <2>1. ~unrevoked /\ ~Revoking(p)
      BY <1>10 DEF Abort, ShutOut
    <2>2. Others(p) /\ EndsRaced(p)'
      BY <1>10, AbortMoves DEF EndsRaced
    <2>3. UNCHANGED <<row, sessions, outrun>>
      BY <1>10 DEF Abort
    <2>4. QED
      BY <2>1, <2>2, <2>3, LockFrame DEF row
  <1>11. ASSUME status' = status, UNCHANGED <<req, sessions, outrun, unrevoked>>
         PROVE  (sessions \subseteq {"raced"} /\ \A q \in Procs : EndsRaced(q))'
    BY <1>11 DEF LockInv, ShutOut, EndsRaced, Revoking
  <1>12. CASE JobSteps
    <2> PICK j \in Jobs : JobFind(j) \/ JobUnlock(j) \/ JobSkip(j)
      BY <1>12 DEF JobSteps
    <2>1. CASE JobUnlock(j)
      BY <1>6, <2>1 DEF JobUnlock
    <2>2. CASE JobFind(j) \/ JobSkip(j)
      BY <1>11, <2>2 DEF JobFind, JobSkip, row, ghosts
    <2>3. QED
      BY <2>1, <2>2
  <1>13. CASE Deliveries \/ Tick \/ UNCHANGED vars
    BY <1>11, <1>13 DEF Deliveries, Deliver, Lose, Tick, vars, row, ghosts
  <1>14. ASSUME NEW p \in Procs, LazyUnlock(p)
         PROVE  FALSE
    BY <1>6, <1>14 DEF LazyUnlock
  <1>15. QED
    BY <1>1, <1>2, <1>3, <1>4, <1>5, <1>7, <1>8, <1>9, <1>10, <1>12, <1>13, <1>14, NextSplit

(* A locked or banned account whose revocations have run has only sessions     *)
(* opened by logins and refreshes in flight when one ran, and their successors. *)
THEOREM LockedOut == Spec => []LockedOutUnlessRaced
  <1>1. Init => LockInv
    BY DEF Init, LockInv, ShutOut
  <1>2. TypeInv /\ LockInv /\ [Next]_vars => LockInv'
    BY LockKept
  <1>3. LockInv => LockedOutUnlessRaced
    BY DEF LockInv, ShutOut, LockedOutUnlessRaced
  <1>4. QED
    BY <1>1, <1>2, <1>3, TypesKept, PTL DEF Spec

-----------------------------------------------------------------------------
(* The consumer.  No event is stamped later than the clock; unless the last    *)
(* write is skewed, at most one handler has it still to announce, and it will   *)
(* announce the status there is; and when none has, the events stamped with    *)
(* the clock, wherever they are, say that status.                            *)

InTransit(e) == e = view \/ \E p \in Procs : \E i \in 1..Len(outbox[p]) : e = outbox[p][i]

StampsPast == \A e \in Event : InTransit(e) => e.ts <= clock

OneAnnouncer ==
    ~skewed => \A p \in Procs : Announcing(p)
        => status = Result(req[p].op) /\ \A q \in Procs \ {p} : ~Announcing(q)

LatestTrue ==
    ~skewed /\ (\A p \in Procs : ~Announcing(p))
        => \A e \in Event : InTransit(e) /\ e.ts = clock => e.says = status

CatchInv == StampsPast /\ OneAnnouncer /\ LatestTrue

(* A step that leaves what is announced, and what is to be announced. *)
LEMMA CatchFrame ==
    ASSUME CatchInv, ~skewed, status' = status, clock' = clock,
           \A e \in Event : InTransit(e)' => InTransit(e),
           \A q \in Procs : Announcing(q)' => Announcing(q) /\ req'[q].op = req[q].op,
           \A q \in Procs : Announcing(q) => Announcing(q)'
    PROVE  OneAnnouncer' /\ LatestTrue'
  <1>1. ASSUME NEW p \in Procs, Announcing(p)'
        PROVE  status' = Result(req'[p].op) /\ \A q \in Procs \ {p} : ~Announcing(q)'
    <2>1. Announcing(p) /\ req'[p].op = req[p].op
      BY <1>1
    <2>2. status = Result(req[p].op) /\ \A q \in Procs \ {p} : ~Announcing(q)
      BY <2>1 DEF CatchInv, OneAnnouncer
    <2>3. ASSUME NEW q \in Procs \ {p} PROVE ~Announcing(q)'
      BY <2>2
    <2>4. QED
      BY <2>1, <2>2, <2>3
  <1>2. OneAnnouncer'
    BY <1>1 DEF OneAnnouncer
  <1>3. ASSUME \A p \in Procs : ~Announcing(p)',
               NEW e \in Event, InTransit(e)', e.ts = clock'
        PROVE  e.says = status'
    <2>1. \A p \in Procs : ~Announcing(p)
      BY <1>3
    <2>2. InTransit(e) /\ e.ts = clock
      BY <1>3
    <2>3. QED
      BY <2>1, <2>2 DEF CatchInv, LatestTrue
  <1>4. LatestTrue'
    BY <1>3 DEF LatestTrue
  <1>5. QED
    BY <1>2, <1>4

LEMMA CatchMoves ==
    ASSUME CatchInv, ~skewed, NEW p \in Procs, Others(p), UNCHANGED bus, status' = status,
           \/ ~Announcing(p) /\ ~Announcing(p)'
           \/ Announcing(p) /\ Announcing(p)' /\ req'[p].op = req[p].op
    PROVE  OneAnnouncer' /\ LatestTrue'
  <1>1. \A q \in Procs \ {p} : req'[q] = req[q]
    BY DEF Others
  <1>2. ASSUME NEW q \in Procs, Announcing(q)'
        PROVE  Announcing(q) /\ req'[q].op = req[q].op
    BY <1>1, <1>2 DEF Announcing
  <1>3. ASSUME NEW q \in Procs, Announcing(q)
        PROVE  Announcing(q)'
    BY <1>1, <1>3 DEF Announcing
  <1>4. \A e \in Event : InTransit(e)' => InTransit(e)
    BY DEF InTransit, bus
  <1>5. clock' = clock
    BY DEF bus
  <1>6. QED
    BY <1>2, <1>3, <1>4, <1>5, CatchFrame

(* What is in the queue of a client after an event is added, or leaves. *)
LEMMA Queued ==
    ASSUME BusOK, NEW p \in Procs, Announce(p), NEW e \in Event, InTransit(e)',
           NEW new \in Event, new = [ts |-> clock', says |-> Result(req[p].op)]
    PROVE  InTransit(e) \/ e = new
  <1>1. outbox \in [Procs -> Seq(Event)] /\ outbox[p] \in Seq(Event)
    BY DEF BusOK
  <1>2. outbox' = [outbox EXCEPT ![p] = Append(outbox[p], new)] /\ view' = view
    BY DEF Announce
  <1>3. CASE e = view'
    BY <1>2, <1>3 DEF InTransit
  <1>4. ASSUME NEW q \in Procs, NEW i \in 1..Len(outbox'[q]), e = outbox'[q][i]
        PROVE  InTransit(e) \/ e = new
    <2>1. CASE q # p
      <3>1. outbox'[q] = outbox[q]
        BY <1>1, <1>2, <2>1
      <3>2. QED
        BY <1>4, <3>1 DEF InTransit
    <2>2. CASE q = p
      <3>1. outbox'[p] = Append(outbox[p], new)
        BY <1>1, <1>2
      <3>2. CASE i \in 1..Len(outbox[p])
        <4>1. e = outbox[p][i]
          BY <1>1, <1>4, <2>2, <3>1, <3>2, AppendProperties
        <4>2. QED
          BY <3>2, <4>1 DEF InTransit
      <3>3. CASE i \notin 1..Len(outbox[p])
        <4>1. i = Len(outbox[p]) + 1
          BY <1>1, <1>4, <2>2, <3>1, <3>3, AppendProperties, LenProperties
        <4>2. QED
          BY <1>1, <1>4, <2>2, <3>1, <4>1, AppendProperties
      <3>4. QED
        BY <3>2, <3>3
    <2>3. QED
      BY <2>1, <2>2
  <1>5. QED
    BY <1>3, <1>4 DEF InTransit

LEMMA Dequeued ==
    ASSUME BusOK, NEW p \in Procs, Deliver(p) \/ Lose(p), NEW e \in Event, InTransit(e)'
    PROVE  InTransit(e)
  <1>1. outbox \in [Procs -> Seq(Event)] /\ outbox[p] \in Seq(Event) /\ outbox[p] # <<>>
    BY DEF BusOK, Deliver, Lose
  <1>2. /\ outbox' = [outbox EXCEPT ![p] = Tail(outbox[p])]
        /\ view' \in {view, Head(outbox[p])}
    BY DEF Deliver, Lose
  <1>3. Head(outbox[p]) = outbox[p][1] /\ 1 \in 1..Len(outbox[p])
    BY <1>1, LenProperties, EmptySeq
  <1>4. CASE e = view'
    BY <1>2, <1>3, <1>4 DEF InTransit
  <1>5. ASSUME NEW q \in Procs, NEW i \in 1..Len(outbox'[q]), e = outbox'[q][i]
        PROVE  InTransit(e)
    <2>1. CASE q # p
      <3>1. outbox'[q] = outbox[q]
        BY <1>1, <1>2, <2>1
      <3>2. QED
        BY <1>5, <3>1 DEF InTransit
    <2>2. CASE q = p
      <3>1. outbox'[p] = Tail(outbox[p])
        BY <1>1, <1>2
      <3>2. e = outbox[p][i + 1] /\ i + 1 \in 1..Len(outbox[p])
        BY <1>1, <1>5, <2>2, <3>1, HeadTailProperties, LenProperties
      <3>3. QED
        BY <3>2 DEF InTransit
    <2>3. QED
      BY <2>1, <2>2
  <1>6. QED
    BY <1>4, <1>5 DEF InTransit

LEMMA StampsKept ==
    ASSUME TypeInv, StampsPast, [Next]_vars
    PROVE  StampsPast'
  <1> USE DEF TypeInv
  <1>1. ASSUME clock' = clock, \A e \in Event : InTransit(e)' => InTransit(e)
        PROVE  StampsPast'
    BY <1>1 DEF StampsPast
  <1>2. ASSUME UNCHANGED bus PROVE StampsPast'
    BY <1>2 DEF bus, StampsPast, InTransit
  <1>3. ASSUME NEW p \in Procs, Announce(p)
        PROVE  StampsPast'
    <2> DEFINE new == [ts |-> clock', says |-> Result(req[p].op)]
    <2>1. new \in Event /\ new.ts = clock' /\ clock' = clock + 1 /\ clock \in Nat
      BY <1>3, Stamped DEF Budget
    <2>2. ASSUME NEW e \in Event, InTransit(e)' PROVE e.ts <= clock'
      <3>1. InTransit(e) \/ e = new
        BY <1>3, <2>1, <2>2, Queued
      <3>2. e.ts \in Nat
        BY AccountEventsAssumption DEF Event
      <3> HIDE DEF new
      <3>3. CASE e = new
        BY <2>1, <3>3
      <3>4. CASE InTransit(e)
        BY <2>1, <3>2, <3>4 DEF StampsPast
      <3>5. QED
        BY <3>1, <3>3, <3>4
    <2>3. QED
      BY <2>2 DEF StampsPast
  <1>4. ASSUME NEW p \in Procs, Deliver(p) \/ Lose(p)
        PROVE  StampsPast'
    <2>1. \A e \in Event : InTransit(e)' => InTransit(e)
      BY <1>4, Dequeued
    <2>2. QED
      BY <1>1, <1>4, <2>1 DEF Deliver, Lose
  <1>5. CASE Deliveries
    BY <1>4, <1>5 DEF Deliveries
  <1>6. ASSUME NEW p \in Procs,
               \/ \E op \in {"lock", "unlock", "ban"} : BeginAdmin(p, op)
               \/ BeginDelete(p)
        PROVE  StampsPast'
    BY <1>2, <1>6, Begun
  <1>7. ASSUME NEW p \in Procs,
               \/ Write(p) \/ RevokeAll(p) \/ BeginLogin(p) \/ LazyUnlock(p)
               \/ WrongPassword(p) \/ Rotate(p) \/ Reissue(p) \/ IssueSession(p) \/ Abort(p)
        PROVE  StampsPast'
    BY <1>2, <1>7 DEF Write, RevokeAll, BeginLogin, LazyUnlock, WrongPassword, Rotate, Reissue,
                      IssueSession, Abort
  <1>8. ASSUME NEW p \in Procs, NEW kind \in Kinds, BeginRefresh(p, kind)
        PROVE  StampsPast'
    BY <1>2, <1>8 DEF BeginRefresh
  <1>9. CASE JobSteps \/ Tick \/ UNCHANGED vars
    BY <1>2, <1>9 DEF JobSteps, JobFind, JobUnlock, JobSkip, Tick, vars
  <1>10. QED
    BY <1>3, <1>5, <1>6, <1>7, <1>8, <1>9, NextSplit

LEMMA AnnouncerKept ==
    ASSUME TypeInv, CatchInv, StampsPast', [Next]_vars
    PROVE  OneAnnouncer' /\ LatestTrue'
  <1> SUFFICES ASSUME ~skewed' PROVE OneAnnouncer' /\ LatestTrue'
    BY DEF OneAnnouncer, LatestTrue
  <1> USE DEF TypeInv
  <1>1. ASSUME NEW p \in Procs,
               \/ \E op \in {"lock", "unlock", "ban"} : BeginAdmin(p, op)
               \/ BeginDelete(p)
        PROVE  OneAnnouncer' /\ LatestTrue'
    <2>1. ~Announcing(p) /\ ~Announcing(p)' /\ Others(p)
      BY <1>1, Begun DEF Announcing
    <2>2. UNCHANGED bus /\ status' = status /\ ~skewed
      BY <1>1, Begun DEF row
    <2>3. QED
      BY <2>1, <2>2, CatchMoves
  <1>2. ASSUME NEW p \in Procs, BeginLogin(p)
        PROVE  OneAnnouncer' /\ LatestTrue'
    <2>1. ~Announcing(p) /\ ~Announcing(p)' /\ Others(p)
      BY <1>2, LoginBegun DEF Announcing
    <2>2. UNCHANGED bus /\ status' = status /\ ~skewed
      BY <1>2, LoginBegun DEF row
    <2>3. QED
      BY <2>1, <2>2, CatchMoves
  <1>3. ASSUME NEW p \in Procs, NEW kind \in Kinds, BeginRefresh(p, kind)
        PROVE  OneAnnouncer' /\ LatestTrue'
    <2>1. ~Announcing(p) /\ ~Announcing(p)' /\ Others(p)
      BY <1>3, RefreshBegun DEF Announcing, SessionsOK
    <2>2. UNCHANGED bus /\ status' = status /\ ~skewed
      BY <1>3, RefreshBegun DEF row, SessionsOK
    <2>3. QED
      BY <2>1, <2>2, CatchMoves
  <1>4. ASSUME NEW p \in Procs, WrongPassword(p)
        PROVE  OneAnnouncer' /\ LatestTrue'
    <2>1. ~Announcing(p) /\ ~Announcing(p)' /\ Others(p)
      BY <1>4, WrongPasswordMoves DEF Announcing
    <2>2. UNCHANGED bus /\ status' = status /\ ~skewed
      BY <1>4, WrongPasswordMoves DEF row, ghosts
    <2>3. QED
      BY <2>1, <2>2, CatchMoves
  <1>5. ASSUME NEW p \in Procs, Rotate(p) \/ Reissue(p) \/ IssueSession(p)
        PROVE  OneAnnouncer' /\ LatestTrue'
    <2>1. ~Announcing(p) /\ ~Announcing(p)' /\ Others(p)
      BY <1>5, SessionMoves DEF Announcing
    <2>2. UNCHANGED bus /\ status' = status /\ ~skewed
      BY <1>5, SessionMoves DEF row, ghosts
    <2>3. QED
      BY <2>1, <2>2, CatchMoves
  <1>6. ASSUME NEW p \in Procs, Abort(p)
        PROVE  OneAnnouncer' /\ LatestTrue'
    <2>1. ~skewed /\ ~Announcing(p)
      BY <1>6 DEF Abort
    <2>2. ~Announcing(p)' /\ Others(p)
      BY <1>6, AbortMoves DEF Announcing
    <2>3. UNCHANGED bus /\ status' = status
      BY <1>6 DEF Abort, row
    <2>4. QED
      BY <2>1, <2>2, <2>3, CatchMoves
  <1>7. ASSUME UnlockQuietly
        PROVE  ~skewed /\ status' = status
    BY <1>7 DEF UnlockQuietly
  <1>8. ASSUME NEW p \in Procs, LazyUnlock(p)
        PROVE  OneAnnouncer' /\ LatestTrue'
    <2>1. ~Announcing(p) /\ ~Announcing(p)' /\ Others(p)
      BY <1>8, LiftMoves DEF Announcing
    <2>2. UNCHANGED bus /\ status' = status /\ ~skewed
      BY <1>7, <1>8 DEF LazyUnlock
    <2>3. QED
      BY <2>1, <2>2, CatchMoves
  <1>9. ASSUME NEW p \in Procs, RevokeAll(p)
        PROVE  OneAnnouncer' /\ LatestTrue'
    <2>1. /\ Others(p)
          /\ \/ ~Announcing(p) /\ ~Announcing(p)'
             \/ Announcing(p) /\ Announcing(p)' /\ req'[p].op = req[p].op
      BY <1>9, RevokeMoves DEF Announcing
    <2>2. UNCHANGED bus /\ status' = status /\ ~skewed
      BY <1>9 DEF RevokeAll, row
    <2>3. QED
      BY <2>1, <2>2, CatchMoves
  <1>10. ASSUME NEW p \in Procs, Write(p)
         PROVE  OneAnnouncer' /\ LatestTrue'
    <2>1. status' = Result(req[p].op) /\ \A q \in Procs \ {p} : ~Announcing(q)
      BY <1>10 DEF Write
    <2>2. /\ Others(p) /\ req[p].op \in Ops
          /\ req'[p].op = req[p].op /\ req'[p].pc = AfterWrite(req[p].op)
      BY <1>10, WriteMoves, Written
    <2>3. Announcing(p)'
      BY <2>2 DEF Announcing, AfterWrite, Ops
    <2>4. \A q \in Procs \ {p} : ~Announcing(q)'
      BY <2>1, <2>2 DEF Announcing, Others
    <2>5. ASSUME NEW q \in Procs, Announcing(q)'
          PROVE  status' = Result(req'[q].op) /\ \A r \in Procs \ {q} : ~Announcing(r)'
      <3>1. q = p
        BY <2>4, <2>5
      <3>2. QED
        BY <2>1, <2>2, <2>4, <3>1
    <2>6. OneAnnouncer'
      BY <2>5 DEF OneAnnouncer
    <2>7. LatestTrue'
      BY <2>3 DEF LatestTrue
    <2>8. QED
      BY <2>6, <2>7
  <1>11. ASSUME NEW p \in Procs, Announce(p)
         PROVE  OneAnnouncer' /\ LatestTrue'
    <2> DEFINE new == [ts |-> clock', says |-> Result(req[p].op)]
    <2>1. /\ new \in Event /\ new.says = Result(req[p].op)
          /\ clock' = clock + 1 /\ clock \in Nat
      BY <1>11, Stamped DEF Budget
    <2>2. ~skewed /\ status' = status
      BY <1>11 DEF Announce, row, ghosts
    <2>3. Announcing(p)
      BY <1>11 DEF Announce, Announcing
    <2>4. status = Result(req[p].op) /\ \A q \in Procs \ {p} : ~Announcing(q)
      BY <2>2, <2>3 DEF CatchInv, OneAnnouncer
    <2>5. Others(p) /\ ~Announcing(p)'
      BY <1>11, AnnounceMoves DEF Announcing
    <2>6. ASSUME NEW q \in Procs PROVE ~Announcing(q)'
      BY <2>4, <2>5 DEF Announcing, Others
    <2>7. OneAnnouncer'
      BY <2>6 DEF OneAnnouncer
    <2>8. ASSUME NEW e \in Event, InTransit(e)', e.ts = clock'
          PROVE  e.says = status'
      <3>1. InTransit(e) \/ e = new
        BY <1>11, <2>1, <2>8, Queued
      <3>2. ~InTransit(e)
        BY <2>1, <2>8 DEF CatchInv, StampsPast
      <3>3. QED
        BY <2>1, <2>2, <2>4, <3>1, <3>2
    <2>9. LatestTrue'
      BY <2>8 DEF LatestTrue
    <2>10. QED
      BY <2>7, <2>9
  <1>12. ASSUME ~skewed, status' = status, clock' = clock, UNCHANGED req,
                \A e \in Event : InTransit(e)' => InTransit(e)
         PROVE  OneAnnouncer' /\ LatestTrue'
    <2>1. ASSUME NEW q \in Procs
          PROVE  /\ Announcing(q)' => Announcing(q) /\ req'[q].op = req[q].op
                 /\ Announcing(q) => Announcing(q)'
      BY <1>12 DEF Announcing
    <2>2. QED
      BY <1>12, <2>1, CatchFrame
  <1>13. CASE Deliveries
    <2> PICK p \in Procs : Deliver(p) \/ Lose(p)
      BY <1>13 DEF Deliveries
    <2>1. \A e \in Event : InTransit(e)' => InTransit(e)
      BY Dequeued
    <2>2. ~skewed /\ status' = status /\ clock' = clock /\ UNCHANGED req
      BY DEF Deliver, Lose, row, ghosts
    <2>3. QED
      BY <1>12, <2>1, <2>2
  <1>14. ASSUME UNCHANGED bus PROVE \A e \in Event : InTransit(e)' => InTransit(e)
    BY <1>14 DEF bus, InTransit
  <1>15. CASE JobSteps
    <2> PICK j \in Jobs : JobFind(j) \/ JobUnlock(j) \/ JobSkip(j)
      BY <1>15 DEF JobSteps
    <2>1. UNCHANGED bus /\ UNCHANGED req /\ clock' = clock
      BY DEF JobFind, JobUnlock, JobSkip, bus
    <2>2. ~skewed /\ status' = status
      <3>1. CASE JobUnlock(j)
        BY <1>7, <3>1 DEF JobUnlock
      <3>2. CASE JobFind(j) \/ JobSkip(j)
        BY <3>2 DEF JobFind, JobSkip, row, ghosts
      <3>3. QED
        BY <3>1, <3>2
    <2>3. QED
      BY <1>12, <1>14, <2>1, <2>2
  <1>16. CASE Tick \/ UNCHANGED vars
    <2>1. UNCHANGED bus /\ UNCHANGED req /\ clock' = clock /\ ~skewed /\ status' = status
      BY <1>16 DEF Tick, vars, bus, row, ghosts
    <2>2. QED
      BY <1>12, <1>14, <2>1
  <1>17. QED
    BY <1>1, <1>2, <1>3, <1>4, <1>5, <1>6, <1>8, <1>9, <1>10, <1>11, <1>13, <1>15, <1>16,
       NextSplit

(* A consumer that has the latest event has the account's status, whatever it  *)
(* missed, unless the last write was skewed or is still to be announced.      *)
THEOREM CatchesUp == Spec => []ConsumerCatchesUp
  <1>1. Init => CatchInv
    <2> SUFFICES ASSUME Init PROVE CatchInv
      OBVIOUS
    <2>1. \A e : InTransit(e) => e = view
      BY DEF Init, InTransit
    <2>2. clock = 0 /\ view.ts = 0 /\ view.says = status
      BY DEF Init
    <2>3. \A p \in Procs : ~Announcing(p)
      BY DEF Init, Announcing, Idle
    <2>4. QED
      BY <2>1, <2>2, <2>3 DEF CatchInv, StampsPast, OneAnnouncer, LatestTrue
  <1>2. TypeInv /\ CatchInv /\ [Next]_vars => CatchInv'
    BY StampsKept, AnnouncerKept DEF CatchInv
  <1>3. TypeInv /\ CatchInv => ConsumerCatchesUp
    BY DEF TypeInv, BusOK, CatchInv, LatestTrue, InTransit, ConsumerCatchesUp
  <1>4. QED
    BY <1>1, <1>2, <1>3, TypesKept, PTL DEF Spec

-----------------------------------------------------------------------------
(* A ban.  What could still lift it by having read the row before was in       *)
(* flight when the ban was written.                                          *)

CouldLift(p) ==
    \/ req[p].pc \in {"lift", "verify"}
    \/ req[p].pc = "write" /\ req[p].op = "brute"

BanInv ==
    status = "BANNED"
        => batch \subseteq early /\ \A p \in Procs : CouldLift(p) => p \in early

LEMMA BanFrame ==
    ASSUME BanInv, status = "BANNED", NEW p \in Procs, p \notin batch, Others(p),
           batch' = batch, early \ {p} \subseteq early',
           CouldLift(p)' => p \in early'
    PROVE  BanInv'
  <1>1. batch \subseteq early /\ \A q \in Procs : CouldLift(q) => q \in early
    BY DEF BanInv
  <1>2. ASSUME NEW q \in Procs \ {p}, CouldLift(q)' PROVE q \in early'
    BY <1>1, <1>2 DEF CouldLift, Others
  <1>3. \A q \in Procs : CouldLift(q)' => q \in early'
    BY <1>2
  <1>4. batch' \subseteq early'
    BY <1>1
  <1>5. QED
    BY <1>3, <1>4 DEF BanInv

LEMMA BanKept ==
    ASSUME TypeInv, BanInv, [Next]_vars
    PROVE  BanInv'
  <1> SUFFICES ASSUME status' = "BANNED" PROVE BanInv'
    BY DEF BanInv
  <1> USE DEF TypeInv
  <1>1. \A p \in Procs : p \notin batch
    BY AccountEventsAssumption DEF RestOK
  <1>2. ASSUME NEW p \in Procs,
               \/ \E op \in {"lock", "unlock", "ban"} : BeginAdmin(p, op)
               \/ BeginDelete(p)
        PROVE  BanInv'
    <2>1. status = "BANNED" /\ batch' = batch /\ Others(p) /\ early' = early \ {p}
      BY <1>2, Begun DEF row
    <2>2. ~CouldLift(p)'
      BY <1>2, Begun DEF CouldLift
    <2>3. QED
      BY <1>1, <2>1, <2>2, BanFrame
  <1>3. ASSUME NEW p \in Procs, BeginLogin(p)
        PROVE  FALSE
    BY <1>3, LoginBegun DEF row
  <1>4. ASSUME NEW p \in Procs, NEW kind \in Kinds, BeginRefresh(p, kind)
        PROVE  BanInv'
    <2>1. status = "BANNED" /\ batch' = batch /\ Others(p) /\ early' = early \ {p}
      BY <1>4, RefreshBegun DEF row, SessionsOK
    <2>2. ~CouldLift(p)'
      BY <1>4, RefreshBegun DEF CouldLift, SessionsOK
    <2>3. QED
      BY <1>1, <2>1, <2>2, BanFrame
  <1>5. ASSUME NEW p \in Procs, WrongPassword(p)
        PROVE  BanInv'
    <2>1. /\ status = "BANNED" /\ batch' = batch /\ early' = early
          /\ Others(p) /\ req[p].pc = "verify"
      BY <1>5, WrongPasswordMoves DEF row, ghosts
    <2>2. p \in early'
      BY <2>1 DEF BanInv, CouldLift
    <2>3. QED
      BY <1>1, <2>1, <2>2, BanFrame
  <1>6. ASSUME NEW p \in Procs, Rotate(p) \/ Reissue(p) \/ IssueSession(p)
        PROVE  BanInv'
    <2>1. status = "BANNED" /\ batch' = batch /\ early' = early /\ Others(p)
      BY <1>6, SessionMoves DEF row, ghosts
    <2>2. ~CouldLift(p)'
      BY <1>6, SessionMoves DEF CouldLift
    <2>3. QED
      BY <1>1, <2>1, <2>2, BanFrame
  <1>7. ASSUME NEW p \in Procs, RevokeAll(p)
        PROVE  BanInv'
    <2>1. status = "BANNED" /\ batch' = batch /\ early' = early
      BY <1>7 DEF RevokeAll, row
    <2>2. Others(p) /\ ~CouldLift(p)'
      BY <1>7, RevokeMoves DEF CouldLift
    <2>3. QED
      BY <1>1, <2>1, <2>2, BanFrame
  <1>8. ASSUME NEW p \in Procs, Announce(p)
        PROVE  BanInv'
    <2>1. status = "BANNED" /\ batch' = batch /\ early' = early
      BY <1>8 DEF Announce, row, ghosts
    <2>2. Others(p) /\ ~CouldLift(p)'
      BY <1>8, AnnounceMoves DEF CouldLift
    <2>3. QED
      BY <1>1, <2>1, <2>2, BanFrame
  <1>9. ASSUME NEW p \in Procs, Abort(p)
        PROVE  BanInv'
    <2>1. status = "BANNED" /\ batch' = batch /\ early' = early
      BY <1>9 DEF Abort, row
    <2>2. Others(p) /\ ~CouldLift(p)'
      BY <1>9, AbortMoves DEF CouldLift
    <2>3. QED
      BY <1>1, <2>1, <2>2, BanFrame
  <1>10. ASSUME NEW p \in Procs, Write(p)
         PROVE  BanInv'
    <2>1. /\ req[p].op \in Ops
          /\ Exists => status' = Result(req[p].op)
          /\ ~Exists => status' = "none"
      BY <1>10, Written
    <2>2. Exists /\ req[p].op = "ban"
      BY <2>1, Results DEF Ops
    <2>3. early' = early \cup (InFlight \ {p}) /\ batch' = batch
      BY <1>10, <2>2 DEF Write
    <2>4. Others(p) /\ req'[p].pc = "revoke"
      BY <1>10, <2>2, WriteMoves DEF AfterWrite
    <2>5. ASSUME NEW q \in Procs, CouldLift(q)' PROVE q \in early'
      <3>1. q # p
        BY <2>4, <2>5 DEF CouldLift
      <3>2. req[q].pc # "idle"
        BY <2>4, <2>5, <3>1 DEF CouldLift, Others
      <3>3. QED
        BY <2>3, <3>1, <3>2 DEF InFlight
    <2>6. batch' \subseteq early'
      BY <1>1, <2>3 DEF InFlight
    <2>7. QED
      BY <2>5, <2>6 DEF BanInv
  <1>11. ASSUME UnlockQuietly PROVE FALSE
    BY <1>11, Quietly
  <1>12. ASSUME NEW p \in Procs, LazyUnlock(p) PROVE FALSE
    BY <1>11, <1>12 DEF LazyUnlock
  <1>13. CASE JobSteps
    <2> PICK j \in Jobs : JobFind(j) \/ JobUnlock(j) \/ JobSkip(j)
      BY <1>13 DEF JobSteps
    <2>1. CASE JobFind(j)
      BY <2>1 DEF JobFind, row
    <2>2. CASE JobUnlock(j)
      BY <1>11, <2>2 DEF JobUnlock
    <2>3. CASE JobSkip(j)
      BY <2>3 DEF JobSkip, row, ghosts, BanInv, CouldLift
    <2>4. QED
      BY <2>1, <2>2, <2>3
  <1>14. CASE Deliveries \/ Tick \/ UNCHANGED vars
    BY <1>14 DEF Deliveries, Deliver, Lose, Tick, vars, row, ghosts, BanInv, CouldLift
  <1>15. QED
    BY <1>2, <1>3, <1>4, <1>5, <1>6, <1>7, <1>8, <1>9, <1>10, <1>12, <1>13, <1>14, NextSplit

(* What ends a ban: an admin's write, or a step of a login or of the job that   *)
(* was in flight when the ban was written.                                   *)
LEMMA BanEnds ==
    ASSUME TypeInv, BanInv, [Next]_vars, status = "BANNED", status' # "BANNED"
    PROVE  \/ \E p \in Procs : Write(p) /\ req[p].op \in {"lock", "unlock", "delete"}
           \/ \E p \in early \cap Procs : Write(p) \/ LazyUnlock(p)
           \/ \E j \in early \cap Jobs : JobUnlock(j)
  <1>1. \/ \E p \in Procs : Write(p)
        \/ \E p \in Procs : LazyUnlock(p)
        \/ \E j \in Jobs : JobUnlock(j)
    BY DEF Next, Admin, Client, BeginAdmin, BeginDelete, RevokeAll, Announce, BeginLogin,
           WrongPassword, IssueSession, BeginRefresh, Rotate, Reissue, Abort,
           Deliver, Lose, JobFind, JobSkip, Tick, vars, row
  <1>2. ASSUME NEW p \in Procs, Write(p)
        PROVE  req[p].op \in {"lock", "unlock", "delete"} \/ p \in early
    <2>1. req[p].op \in Ops /\ status' = Result(req[p].op)
      BY <1>2, Written DEF TypeInv, Exists
    <2>2. req[p].op # "ban"
      BY <2>1, Results
    <2>3. CASE req[p].op = "brute"
      BY <1>2, <2>3 DEF Write, BanInv, CouldLift
    <2>4. QED
      BY <2>1, <2>2, <2>3 DEF Ops
  <1>3. ASSUME NEW p \in Procs, LazyUnlock(p)
        PROVE  p \in early
    BY <1>3 DEF LazyUnlock, BanInv, CouldLift
  <1>4. ASSUME NEW j \in Jobs, JobUnlock(j)
        PROVE  j \in early
    BY <1>4 DEF JobUnlock, BanInv
  <1>5. QED
    BY <1>1, <1>2, <1>3, <1>4

(* banUser: "Banned accounts require explicit admin action to unban".  A ban    *)
(* outlasts the expiry of an earlier lock, except for the steps of a login or   *)
(* of the job that had read the row before it.                               *)
THEOREM BanLasts == Spec => BanOutlastsLock
  <1>1. Init => BanInv
    BY DEF Init, BanInv
  <1>2. TypeInv /\ BanInv /\ [Next]_vars => BanInv'
    BY BanKept
  <1>3. TypeInv /\ BanInv /\ [Next]_vars
            => [status = "BANNED" /\ status' # "BANNED"
                  => \/ \E p \in Procs : Write(p) /\ req[p].op \in {"lock", "unlock", "delete"}
                     \/ \E p \in early \cap Procs : Write(p) \/ LazyUnlock(p)
                     \/ \E j \in early \cap Jobs : JobUnlock(j)]_vars
    <2> SUFFICES ASSUME TypeInv, BanInv, [Next]_vars, status = "BANNED", status' # "BANNED"
                 PROVE  \/ \E p \in Procs : Write(p) /\ req[p].op \in {"lock", "unlock", "delete"}
                        \/ \E p \in early \cap Procs : Write(p) \/ LazyUnlock(p)
                        \/ \E j \in early \cap Jobs : JobUnlock(j)
      OBVIOUS
    <2>1. QED
      BY BanEnds
  <1>4. QED
    BY <1>1, <1>2, <1>3, TypesKept, PTL DEF Spec, BanOutlastsLock
=============================================================================
