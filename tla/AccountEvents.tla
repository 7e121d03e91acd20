----------------------------- MODULE AccountEvents -----------------------------
(***************************************************************************)
(* The status of one account together with what depends on it: the sessions *)
(* a lock or a ban ends, and the events by which other services learn of it. *)
(* Handlers run on different instances, each with a RabbitMQ client of its   *)
(* own (EventOutbox); a consumer puts the events in the order of their       *)
(* timestamps.                                                              *)
(*                                                                         *)
(* One action is one statement with the code up to the next await.  The      *)
(* counter of wrong passwords is that of Accounts: here any wrong password   *)
(* may be the one that locks.  The audit entry that ends each operation is   *)
(* read by nothing here; Requests has one.                                  *)
(***************************************************************************)
EXTENDS Naturals, Sequences, FiniteSets

CONSTANTS
    Procs,          \* request handlers, each on an instance of its own
    Jobs,           \* instances, each running the unlock job
    MaxEvents,      \* bound: events published
    MaxFaults,      \* bound: handlers cut short, unlocks that fail, events lost
    None            \* NULL

ASSUME AccountEventsAssumption ==
    /\ MaxEvents \in Nat /\ MaxFaults \in Nat
    /\ IsFiniteSet(Procs)
    /\ Procs \cap Jobs = {}

VARIABLES
    status,         \* user_credentials.status; "none" without a row
    lockedUntil,    \* user_credentials.locked_until, as the clock sees it
    sessions,       \* the kinds of active refresh tokens the account has
    req,            \* the handlers in flight
    batch,          \* jobs that have found the account and not yet unlocked it
    clock,          \* events published so far: the timestamp of the latest
    outbox,         \* events each client has yet to deliver
    view,           \* the latest event the consumer has seen
    faults,
    early,          \* auxiliary: what was in flight when a lock or ban was written
    outrun,         \* auxiliary: requests in flight when a revocation ran
    unrevoked,      \* auxiliary: a lock or ban was cut off from its revocation
    skewed          \* auxiliary: the last write is not the last thing announced

row == <<status, lockedUntil>>
bus == <<clock, outbox, view>>
ghosts == <<early, outrun, unrevoked, skewed>>
vars == <<row, sessions, req, batch, bus, faults, ghosts>>

-----------------------------------------------------------------------------
Exists == status # "none"

(* A session opened by a login or refresh that was in flight when all sessions *)
(* were revoked, and what it is rotated into, is "raced"; others "regular".   *)
Kinds == {"regular", "raced"}

Idle == [pc |-> "idle", op |-> "none", until |-> None, kind |-> "regular"]

End(p) == req' = [req EXCEPT ![p] = Idle]
Goto(p, pc) == req' = [req EXCEPT ![p] = [@ EXCEPT !.pc = pc]]
Anew(p) == early' = early \ {p} /\ outrun' = outrun \ {p}
Start(p, pc, op) ==
    /\ req[p].pc = "idle"
    /\ req' = [req EXCEPT ![p] = [Idle EXCEPT !.pc = pc, !.op = op]]
    /\ Anew(p)

(* What an operation makes of the account, and announces. *)
Result(op) == CASE op \in {"lock", "brute"} -> "LOCKED"
                [] op = "ban" -> "BANNED"
                [] op = "unlock" -> "ACTIVE"
                [] op = "delete" -> "none"

(* lockAccount and banUser revoke before they publish, login's brute-force    *)
(* lock after.                                                               *)
AfterWrite(op) == IF op \in {"lock", "ban"} THEN "revoke" ELSE "announce"
Announcing(p) == req[p].pc = "announce" \/ (req[p].pc = "revoke" /\ req[p].op # "brute")
Revoking(p) == req[p].pc = "revoke" \/ (req[p].pc = "announce" /\ req[p].op = "brute")

InFlight == {q \in Procs : req[q].pc # "idle"} \cup batch

(* Bound: an operation that will publish begins while events are left. *)
EventLeft ==
    clock + Cardinality({q \in Procs : req[q].op # "none" /\ req[q].op # "refresh"})
        < MaxEvents

-----------------------------------------------------------------------------
(* lockAccount, unlockAccount, banUser: findById, which throws without a row. *)
BeginAdmin(p, op) ==
    /\ EventLeft /\ Exists
    /\ op \in {"lock", "unlock", "ban"}
    /\ \E until \in IF op = "lock" THEN {"ahead", None} ELSE {None} :
          /\ req[p].pc = "idle"
          /\ req' = [req EXCEPT ![p] = [Idle EXCEPT !.pc = "write", !.op = op,
                                                    !.until = until]]
    /\ Anew(p)
    /\ UNCHANGED <<row, sessions, batch, bus, faults, unrevoked, skewed>>

(* deleteCredentials reads nothing first, and publishes whether or not there  *)
(* was a row.                                                                *)
BeginDelete(p) ==
    /\ EventLeft
    /\ Start(p, "write", "delete")
    /\ UNCHANGED <<row, sessions, batch, bus, faults, unrevoked, skewed>>

(* The columns an operation sets; an UPDATE without a row changes nothing.    *)
SetColumns(op, until) ==
    /\ status' = IF Exists THEN Result(op) ELSE status
    /\ lockedUntil' = IF ~Exists \/ op = "ban" THEN lockedUntil
                      ELSE IF op \in {"lock", "brute"} THEN until
                      ELSE None

Write(p) ==
    LET op == req[p].op
        shuts == Exists /\ op \in {"lock", "brute", "ban"}
    IN
    /\ req[p].pc = "write"
    /\ SetColumns(op, req[p].until)
    /\ sessions' = IF op = "delete" THEN {} ELSE sessions
    /\ Goto(p, AfterWrite(op))
    /\ early' = IF shuts THEN early \cup (InFlight \ {p}) ELSE early
    /\ skewed' = (status' # Result(op) \/ \E q \in Procs \ {p} : Announcing(q))
    /\ UNCHANGED <<batch, bus, faults, outrun, unrevoked>>

(* revokeAllUserTokens *)
RevokeAll(p) ==
    /\ req[p].pc = "revoke"
    /\ sessions' = {}
    /\ unrevoked' = FALSE
    /\ outrun' = outrun \cup {q \in Procs \ {p} : req[q].pc # "idle"}
    /\ IF req[p].op = "brute" THEN End(p) ELSE Goto(p, "announce")
    /\ UNCHANGED <<row, batch, bus, faults, early, skewed>>

(* The publish... method: the payload takes its timestamp, and the client of  *)
(* this instance sends or buffers it.                                        *)
Announce(p) ==
    /\ req[p].pc = "announce"
    /\ clock' = clock + 1
    /\ outbox' = [outbox EXCEPT ![p] = Append(@, [ts |-> clock', says |-> Result(req[p].op)])]
    /\ IF req[p].op = "brute" THEN Goto(p, "revoke") ELSE End(p)
    /\ UNCHANGED <<row, sessions, batch, view, faults, ghosts>>

-----------------------------------------------------------------------------
(* Mutant: the status check forgets banned accounts. *)
BeginLoginBanned(p) ==
    /\ EventLeft
    /\ \/ status \in {"ACTIVE", "BANNED"} /\ Start(p, "verify", "login")
       \/ status = "LOCKED" /\ lockedUntil = "passed" /\ Start(p, "lift", "login")
    /\ UNCHANGED <<row, sessions, batch, bus, faults, unrevoked, skewed>>

(* login: findByEmail and the checks of the status. *)
BeginLogin(p) ==
    /\ EventLeft
    /\ \/ status = "ACTIVE" /\ Start(p, "verify", "login")
       \/ status = "LOCKED" /\ lockedUntil = "passed" /\ Start(p, "lift", "login")
    /\ UNCHANGED <<row, sessions, batch, bus, faults, unrevoked, skewed>>

(* unlockAccount without an event: what the job and a login after the lock do. *)
UnlockQuietly ==
    /\ SetColumns("unlock", None)
    /\ skewed' = (skewed \/ status' # status)

LazyUnlock(p) ==
    /\ req[p].pc = "lift"
    /\ UnlockQuietly
    /\ Goto(p, "verify")
    /\ UNCHANGED <<sessions, batch, bus, faults, early, outrun, unrevoked>>

(* A wrong password: refused, or the one that reaches the limit.              *)
(* incrementFailedAttempts throws when the row is gone.                      *)
WrongPassword(p) ==
    /\ req[p].pc = "verify"
    /\ \/ End(p)
       \/ Exists /\ req' = [req EXCEPT ![p] = [@ EXCEPT !.pc = "write", !.op = "brute",
                                                        !.until = "ahead"]]
    /\ UNCHANGED <<row, sessions, batch, bus, faults, ghosts>>

NewSession(p) == sessions \cup {IF p \in outrun THEN "raced" ELSE req[p].kind}

(* The right password: generateRefreshToken, an INSERT with a foreign key.    *)
IssueSession(p) ==
    /\ req[p].pc = "verify"
    /\ sessions' = IF Exists THEN NewSession(p) ELSE sessions
    /\ End(p)
    /\ UNCHANGED <<row, batch, bus, faults, ghosts>>

(* refreshTokens looks at the token and not at the account. *)
BeginRefresh(p, kind) ==
    /\ kind \in sessions
    /\ req[p].pc = "idle"
    /\ req' = [req EXCEPT ![p] = [Idle EXCEPT !.pc = "rotate", !.op = "refresh", !.kind = kind]]
    /\ Anew(p)
    /\ UNCHANGED <<row, sessions, batch, bus, faults, unrevoked, skewed>>

(* One token of this kind is revoked; the account may have others. *)
Rotate(p) ==
    /\ req[p].pc = "rotate"
    /\ sessions' \in {sessions, sessions \ {req[p].kind}}
    /\ Goto(p, "reissue")
    /\ UNCHANGED <<row, batch, bus, faults, ghosts>>

(* Mutant: the foreign key is not looked at. *)
ReissueUnchecked(p) ==
    /\ req[p].pc = "reissue"
    /\ sessions' = NewSession(p)
    /\ End(p)
    /\ UNCHANGED <<row, batch, bus, faults, ghosts>>

(* generateRefreshToken of the successor. *)
Reissue(p) ==
    /\ req[p].pc = "reissue"
    /\ sessions' = IF Exists THEN NewSession(p) ELSE sessions
    /\ End(p)
    /\ UNCHANGED <<row, batch, bus, faults, ghosts>>

-----------------------------------------------------------------------------
(* Mutant: every account whose locked_until has passed. *)
JobFindAny(j) ==
    /\ j \notin batch
    /\ lockedUntil = "passed"
    /\ batch' = batch \cup {j}
    /\ early' = early \ {j}
    /\ UNCHANGED <<row, sessions, req, bus, faults, outrun, unrevoked, skewed>>

(* findLockedAccountsToUnlock *)
JobFind(j) ==
    /\ j \notin batch
    /\ status = "LOCKED" /\ lockedUntil = "passed"
    /\ batch' = batch \cup {j}
    /\ early' = early \ {j}
    /\ UNCHANGED <<row, sessions, req, bus, faults, outrun, unrevoked, skewed>>

JobUnlock(j) ==
    /\ j \in batch
    /\ batch' = batch \ {j}
    /\ UnlockQuietly
    /\ UNCHANGED <<sessions, req, bus, faults, early, outrun, unrevoked>>

Fault == faults < MaxFaults /\ faults' = faults + 1

JobSkip(j) ==
    /\ j \in batch /\ Fault
    /\ batch' = batch \ {j}
    /\ UNCHANGED <<row, sessions, req, bus, ghosts>>

(* A query of the handler rejects, or its instance dies. *)
Abort(p) ==
    /\ req[p].pc # "idle" /\ Fault
    /\ End(p)
    /\ unrevoked' = (unrevoked \/ Revoking(p))
    /\ skewed' = (skewed \/ Announcing(p))
    /\ UNCHANGED <<row, sessions, batch, bus, early, outrun>>

Tick ==
    /\ lockedUntil = "ahead"
    /\ lockedUntil' = "passed"
    /\ UNCHANGED <<status, sessions, req, batch, bus, faults, ghosts>>

(* Mutant: the timestamp is taken when the event is sent. *)
DeliverStamped(p) ==
    LET e == Head(outbox[p]) IN
    /\ outbox[p] # <<>>
    /\ outbox' = [outbox EXCEPT ![p] = Tail(@)]
    /\ view' = [e EXCEPT !.ts = clock]
    /\ UNCHANGED <<row, sessions, req, batch, clock, faults, ghosts>>

(* The oldest event of a client reaches the consumer, which keeps the latest  *)
(* by timestamp.                                                             *)
Deliver(p) ==
    LET e == Head(outbox[p]) IN
    /\ outbox[p] # <<>>
    /\ outbox' = [outbox EXCEPT ![p] = Tail(@)]
    /\ view' = IF e.ts > view.ts THEN e ELSE view
    /\ UNCHANGED <<row, sessions, req, batch, clock, faults, ghosts>>

(* ... or is lost with its connection, or gives way in a full buffer. *)
Lose(p) ==
    /\ outbox[p] # <<>> /\ Fault
    /\ outbox' = [outbox EXCEPT ![p] = Tail(@)]
    /\ UNCHANGED <<row, sessions, req, batch, clock, view, ghosts>>

-----------------------------------------------------------------------------
Init ==
    /\ status = "ACTIVE" /\ lockedUntil = None
    /\ sessions = {}
    /\ req = [p \in Procs |-> Idle]
    /\ batch = {}
    /\ clock = 0
    /\ outbox = [p \in Procs |-> <<>>]
    /\ view = [ts |-> 0, says |-> "ACTIVE"]
    /\ faults = 0
    /\ early = {} /\ outrun = {} /\ unrevoked = FALSE /\ skewed = FALSE

Admin(p) ==
    \/ \E op \in {"lock", "unlock", "ban"} : BeginAdmin(p, op)
    \/ BeginDelete(p) \/ Write(p) \/ RevokeAll(p) \/ Announce(p)

Client(p) ==
    \/ BeginLogin(p) \/ LazyUnlock(p) \/ WrongPassword(p) \/ IssueSession(p)
    \/ \E kind \in Kinds : BeginRefresh(p, kind)
    \/ Rotate(p) \/ Reissue(p)

Next ==
    \/ \E p \in Procs : Admin(p) \/ Client(p) \/ Abort(p) \/ Deliver(p) \/ Lose(p)
    \/ \E j \in Jobs : JobFind(j) \/ JobUnlock(j) \/ JobSkip(j)
    \/ Tick

Spec == Init /\ [][Next]_vars

-----------------------------------------------------------------------------
(* Properties *)

Status == {"ACTIVE", "LOCKED", "BANNED", "none"}
Event == [ts : 0..MaxEvents, says : Status]
Req == [pc : {"idle", "write", "revoke", "announce", "lift", "verify", "rotate", "reissue"},
        op : {"none", "lock", "unlock", "ban", "delete", "login", "brute", "refresh"},
        until : {"ahead", None}, kind : Kinds]

(* Every variable holds a value of its kind, what a handler will announce is  *)
(* a status, and an account without a row has no sessions.                   *)
TypeOK ==
    /\ status \in Status /\ lockedUntil \in {"ahead", "passed", None}
    /\ sessions \subseteq Kinds /\ (~Exists => sessions = {})
    /\ req \in [Procs -> Req]
    /\ \A p \in Procs : req[p].pc \in {"write", "revoke", "announce"}
            => req[p].op \in {"lock", "unlock", "ban", "delete", "brute"}
    /\ batch \subseteq Jobs
    /\ clock \in 0..MaxEvents /\ view \in Event
    /\ \A p \in Procs : \A i \in 1..Len(outbox[p]) : outbox[p][i] \in Event
    /\ faults \in 0..MaxFaults
    /\ early \subseteq Procs \cup Jobs /\ outrun \subseteq Procs
    /\ unrevoked \in BOOLEAN /\ skewed \in BOOLEAN

(* banUser: "Banned accounts require explicit admin action to unban (no       *)
(* auto-unlock)".  A ban leaves the locked_until of an earlier lock in the     *)
(* row; all the same it ends only by an admin's write, or by a login or a run  *)
(* of the job that had read the row before the ban.                          *)
BanOutlastsLock ==
    [][status = "BANNED" /\ status' # "BANNED"
         => \/ \E p \in Procs : Write(p) /\ req[p].op \in {"lock", "unlock", "delete"}
            \/ \E p \in early \cap Procs : Write(p) \/ LazyUnlock(p)
            \/ \E j \in early \cap Jobs : JobUnlock(j)]_vars

(* lockAccount: "Revoke all active tokens to force immediate session          *)
(* invalidation".  Once its revocations have run, a locked or banned account   *)
(* has only sessions opened by logins and refreshes that were in flight when a  *)
(* revocation ran, and what these sessions were rotated into.                *)
LockedOutUnlessRaced ==
    (status \in {"LOCKED", "BANNED"} /\ ~unrevoked /\ \A p \in Procs : ~Revoking(p))
        => sessions \subseteq {"raced"}

(* "Timestamps are included in every event payload for consumer-side          *)
(* ordering": events of several instances arrive in any order, some never.    *)
(* A consumer that has the latest event has the account's status, whatever it *)
(* missed before, unless the last write announced nothing (the job, a login    *)
(* after the lock, an UPDATE that found no row, a handler cut short) or was     *)
(* made while another announcement was due.                                  *)
ConsumerCatchesUp ==
    (view.ts = clock /\ ~skewed /\ \A p \in Procs : ~Announcing(p))
        => view.says = status

-----------------------------------------------------------------------------
(* What the comments say, and the code does not guarantee. *)

(* unlock-expired-lockouts.job.ts: "Publishes account.unlocked event for each *)
(* unlocked account".                                                        *)
UnlockAnnounced ==
    [][\A j \in Jobs : JobUnlock(j) /\ status' # status => clock' = clock + 1]_vars

(* An ACCOUNT_LOCKED or ACCOUNT_BANNED event is about an account that exists.  *)
AnnouncedExists ==
    [][\A p \in Procs : Announce(p) /\ ~Exists => req[p].op = "delete"]_vars
=============================================================================
