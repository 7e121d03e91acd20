-------------------------------- MODULE Roles --------------------------------
(***************************************************************************)
(* RoleService over the roles array of one account, and the requests that   *)
(* copy that array into access tokens: login, which reads it before it       *)
(* verifies the password, and refresh-token, which reads it after the        *)
(* rotation.  assignRole and revokeRole read the array, write it back whole, *)
(* revoke the account's sessions and publish an event, as four statements of *)
(* no transaction.  The instances of the handlers each have a RabbitMQ client *)
(* with a buffer of its own, so events arrive late and in any order.         *)
(*                                                                         *)
(* One action is one statement with the code up to the next await.           *)
(***************************************************************************)
EXTENDS Naturals, FiniteSets

CONSTANTS
    RoleNames,      \* names a request may carry
    Defined,        \* names with a row in the roles table
    Initial,        \* the array of a new account
    Procs,          \* request handlers that may be in flight at once
    Rows,           \* bound: refresh_tokens rows of the account
    MaxAborts,      \* bound: handlers cut short
    MaxEvents,      \* bound: events published when the last change begins
    None

ASSUME RolesAssumption ==
    /\ Defined \subseteq RoleNames
    /\ Initial \subseteq RoleNames
    /\ MaxAborts \in Nat /\ MaxEvents \in Nat
    /\ None \notin Rows \cup RoleNames

VARIABLES
    exists,         \* the account has its user_credentials row
    roles,          \* its roles array; no statement writes a name twice
    issued,         \* refresh tokens inserted so far
    active,         \* those that are not revoked or deleted
    minted,         \* those whose access token has been signed
    claims,         \* the roles claim of that access token
    stamp,          \* per role, the timestamp of the latest event about it
    wire,           \* events in the buffers of the clients or on their way
    view,           \* per role, the latest event a consumer has seen
    req,            \* the handlers in flight
    aborts,         \* handlers cut short
    told,           \* auxiliary: what the answers to role changes have settled
    overlapped,     \* auxiliary: changes that ran beside another change
    beaten,         \* auxiliary: logins that read the array before a write of it
    raced,          \* auxiliary: sessions such logins opened
    unrevoked,      \* auxiliary: a write was cut off from its revocation
    heard           \* auxiliary: roles whose last change ran alone and was not cut
                    \* off from its event

account == <<exists, roles>>
sessions == <<issued, active, minted, claims>>
bus == <<stamp, wire, view>>
ghosts == <<told, overlapped, beaten, raced, unrevoked, heard>>
vars == <<account, sessions, bus, req, aborts, ghosts>>

-----------------------------------------------------------------------------
Idle == [pc |-> "idle", op |-> "none", role |-> None, read |-> {}, row |-> None]

Changing(p) == req[p].pc \in {"define", "write", "revoke", "announce"}

(* A request ends, with or without success. *)
End(p) == req' = [req EXCEPT ![p] = Idle]

Goto(p, pc) == req' = [req EXCEPT ![p] = [@ EXCEPT !.pc = pc]]

(* The admin hears that role r of the account is now in the array, or out. *)
Tell(p, r, how) ==
    told' = IF p \in overlapped THEN told ELSE [told EXCEPT ![r] = how]

(* A request to change role r starts: what was settled about r is open again. *)
StartChange(p, r) ==
    LET others == {q \in Procs : Changing(q)} IN
    /\ told' = [told EXCEPT ![r] = "open"]
    /\ overlapped' = IF others = {} THEN overlapped \ {p} ELSE overlapped \cup others \cup {p}
    /\ heard' = IF others = {} THEN heard ELSE heard \ ({req[q].role : q \in others} \cup {r})
    /\ UNCHANGED <<beaten, raced, unrevoked>>

-----------------------------------------------------------------------------
(* assignRole: findById; a missing account throws. *)
BeginAssign(p, r) ==
    /\ req[p].pc = "idle" /\ exists
    /\ req' = [req EXCEPT ![p] = [Idle EXCEPT !.pc = "define", !.op = "assign",
                                              !.role = r, !.read = roles]]
    /\ StartChange(p, r)
    /\ UNCHANGED <<account, sessions, bus, aborts>>

(* findByName, then the test of the array that findById returned. *)
FindRole(p) ==
    LET r == req[p].role IN
    /\ req[p].pc = "define"
    /\ \/ /\ r \notin Defined
          /\ End(p)
          /\ UNCHANGED told
       \/ /\ r \in Defined \cap req[p].read
          /\ End(p)
          /\ Tell(p, r, "in")
       \/ /\ r \in Defined \ req[p].read
          /\ Goto(p, "write")
          /\ UNCHANGED told
    /\ UNCHANGED <<account, sessions, bus, aborts, overlapped, beaten, raced,
                   unrevoked, heard>>

(* revokeRole: findById and the test; it asks for no definition. *)
BeginRevoke(p, r) ==
    /\ req[p].pc = "idle" /\ exists /\ r \in roles
    /\ req' = [req EXCEPT ![p] = [Idle EXCEPT !.pc = "write", !.op = "revoke",
                                              !.role = r, !.read = roles]]
    /\ StartChange(p, r)
    /\ UNCHANGED <<account, sessions, bus, aborts>>

(* The role is not in the array: an answer of success and nothing else.  It   *)
(* settles the role unless a change is under way.                            *)
RevokeNothing(p, r) ==
    /\ req[p].pc = "idle" /\ exists /\ r \notin roles
    /\ \A q \in Procs : ~Changing(q)
    /\ told' = [told EXCEPT ![r] = "out"]
    /\ UNCHANGED <<account, sessions, bus, req, aborts, overlapped, beaten, raced,
                   unrevoked, heard>>

Updated(p) == IF req[p].op = "assign" THEN req[p].read \cup {req[p].role}
                                      ELSE req[p].read \ {req[p].role}

(* Mutant: the array is replaced by the new role. *)
UpdateRolesAlone(p) ==
    /\ req[p].pc = "write"
    /\ roles' = IF ~exists THEN roles
                ELSE IF req[p].op = "assign" THEN {req[p].role} ELSE Updated(p)
    /\ Goto(p, "revoke")
    /\ beaten' = beaten \cup {q \in Procs : req[q].pc = "issue"}
    /\ UNCHANGED <<exists, sessions, bus, aborts, told, overlapped, raced,
                   unrevoked, heard>>

(* updateRoles: UPDATE ... SET roles, computed from what findById returned;   *)
(* without a row it affects nothing and the handler goes on.                 *)
UpdateRoles(p) ==
    /\ req[p].pc = "write"
    /\ roles' = IF exists THEN Updated(p) ELSE roles
    /\ Goto(p, "revoke")
    /\ beaten' = beaten \cup {q \in Procs : req[q].pc = "issue"}
    /\ UNCHANGED <<exists, sessions, bus, aborts, told, overlapped, raced,
                   unrevoked, heard>>

(* revokeAllUserTokens(userId, 'role_changed') *)
RevokeTokens(p) ==
    /\ req[p].pc = "revoke"
    /\ active' = {}
    /\ unrevoked' = FALSE
    /\ Goto(p, "announce")
    /\ UNCHANGED <<account, issued, minted, claims, bus, aborts, told, overlapped,
                   beaten, raced, heard>>

(* safePublish: the payload takes its timestamp, and the client of this       *)
(* instance sends or buffers the event.  Timestamps are only compared between *)
(* events about one role, and are counted per role.                          *)
SafePublish(p, held) ==
    LET r == req[p].role IN
    /\ stamp' = [stamp EXCEPT ![r] = @ + 1]
    /\ wire' = wire \cup {[role |-> r, ts |-> stamp[r] + 1, held |-> held]}
    /\ heard' = IF p \in overlapped THEN heard ELSE heard \cup {r}
    /\ UNCHANGED view

(* Mutant: the event of the other method. *)
AnnounceAssigned(p) ==
    LET r == req[p].role IN
    /\ req[p].pc = "announce"
    /\ SafePublish(p, TRUE)
    /\ Tell(p, r, IF req[p].op = "assign" THEN "in" ELSE "out")
    /\ End(p)
    /\ UNCHANGED <<account, sessions, aborts, overlapped, beaten, raced, unrevoked>>

(* publishRoleAssigned or publishRoleRevoked, and the answer. *)
Announce(p) ==
    LET r == req[p].role IN
    /\ req[p].pc = "announce"
    /\ SafePublish(p, req[p].op = "assign")
    /\ Tell(p, r, IF req[p].op = "assign" THEN "in" ELSE "out")
    /\ End(p)
    /\ UNCHANGED <<account, sessions, aborts, overlapped, beaten, raced, unrevoked>>

-----------------------------------------------------------------------------
(* login: findByEmail; the password is then verified against what it read. *)
BeginLogin(p) ==
    /\ req[p].pc = "idle" /\ exists
    /\ req' = [req EXCEPT ![p] = [Idle EXCEPT !.pc = "issue", !.op = "login",
                                              !.read = roles]]
    /\ beaten' = beaten \ {p}
    /\ UNCHANGED <<account, sessions, bus, aborts, told, overlapped, raced,
                   unrevoked, heard>>

(* generateAccessToken with the roles it read, then the INSERT of the         *)
(* refresh token, whose user_id is a foreign key.                            *)
IssueLogin(p) ==
    /\ req[p].pc = "issue"
    /\ End(p)
    /\ \/ /\ ~exists
          /\ UNCHANGED <<sessions, raced>>
       \/ /\ exists
          /\ \E s \in Rows \ issued :
                /\ issued' = issued \cup {s}
                /\ active' = active \cup {s}
                /\ minted' = minted \cup {s}
                /\ claims' = [claims EXCEPT ![s] = req[p].read]
                /\ raced' = IF p \in beaten THEN raced \cup {s} ELSE raced
    /\ UNCHANGED <<account, bus, aborts, told, overlapped, beaten, unrevoked, heard>>

(* refreshTokens: the row was found active; revokeToken(id, 'rotated'). *)
BeginRefresh(p, s) ==
    /\ req[p].pc = "idle" /\ s \in active
    /\ req' = [req EXCEPT ![p] = [Idle EXCEPT !.pc = "rotate", !.op = "refresh", !.row = s]]
    /\ UNCHANGED <<account, sessions, bus, aborts, ghosts>>

Rotate(p) ==
    /\ req[p].pc = "rotate"
    /\ active' = active \ {req[p].row}
    /\ Goto(p, "reissue")
    /\ UNCHANGED <<account, issued, minted, claims, bus, aborts, ghosts>>

(* Mutant: the foreign key is not looked at. *)
ReissueUnchecked(p) ==
    /\ req[p].pc = "reissue"
    /\ \/ /\ ~exists
          /\ req' = [req EXCEPT ![p] = [@ EXCEPT !.pc = "claims", !.row = None]]
          /\ UNCHANGED <<issued, active>>
       \/ /\ exists
          /\ \E s \in Rows \ issued :
                /\ issued' = issued \cup {s}
                /\ active' = active \cup {s}
                /\ req' = [req EXCEPT ![p] = [@ EXCEPT !.pc = "claims", !.row = s]]
    /\ UNCHANGED <<account, minted, claims, bus, aborts, ghosts>>

(* generateRefreshToken of the successor. *)
Reissue(p) ==
    /\ req[p].pc = "reissue"
    /\ \/ /\ ~exists
          /\ End(p)
          /\ UNCHANGED <<issued, active>>
       \/ /\ exists
          /\ \E s \in Rows \ issued :
                /\ issued' = issued \cup {s}
                /\ active' = active \cup {s}
                /\ req' = [req EXCEPT ![p] = [@ EXCEPT !.pc = "claims", !.row = s]]
    /\ UNCHANGED <<account, minted, claims, bus, aborts, ghosts>>

(* Mutant: the claims read when the request began. *)
SignClaimsKept(p) ==
    LET s == req[p].row IN
    /\ req[p].pc = "claims"
    /\ End(p)
    /\ \/ /\ ~exists
          /\ UNCHANGED <<minted, claims>>
       \/ /\ exists
          /\ minted' = minted \cup {s}
          /\ claims' = [claims EXCEPT ![s] = req[p].read]
    /\ UNCHANGED <<account, issued, active, bus, aborts, ghosts>>

(* The controller's findById for the current roles, and the access token.  A  *)
(* deleted account throws.                                                   *)
SignClaims(p) ==
    LET s == req[p].row IN
    /\ req[p].pc = "claims"
    /\ End(p)
    /\ \/ /\ ~exists
          /\ UNCHANGED <<minted, claims>>
       \/ /\ exists
          /\ minted' = minted \cup {s}
          /\ claims' = [claims EXCEPT ![s] = roles]
    /\ UNCHANGED <<account, issued, active, bus, aborts, ghosts>>

-----------------------------------------------------------------------------
(* deleteCredential, with the cascade to refresh_tokens. *)
DeleteAccount ==
    /\ exists
    /\ exists' = FALSE
    /\ active' = {}
    /\ UNCHANGED <<roles, issued, minted, claims, bus, req, aborts, ghosts>>

(* A query of the handler rejects, or its instance dies. *)
Abort(p) ==
    /\ req[p].pc # "idle"
    /\ aborts < MaxAborts
    /\ aborts' = aborts + 1
    /\ End(p)
    /\ unrevoked' = (unrevoked \/ req[p].pc = "revoke")
    /\ heard' = IF req[p].pc \in {"revoke", "announce"} THEN heard \ {req[p].role} ELSE heard
    /\ UNCHANGED <<account, sessions, bus, told, overlapped, beaten, raced>>

(* An event reaches the consumer, which keeps, of the events about a role,    *)
(* the one with the latest timestamp.                                        *)
Deliver(e) ==
    /\ wire' = wire \ {e}
    /\ view' = IF e.ts > view[e.role].ts THEN [view EXCEPT ![e.role] = e] ELSE view
    /\ UNCHANGED <<account, sessions, stamp, req, aborts, ghosts>>

(* ... or it is lost with its connection, or gives way in a full buffer. *)
Lose(e) ==
    /\ wire' = wire \ {e}
    /\ UNCHANGED <<account, sessions, stamp, view, req, aborts, ghosts>>

(* Bound: a handler that will insert a row begins while one is left for it. *)
RowLeft ==
    Cardinality(Rows \ issued) >
        Cardinality({p \in Procs : req[p].pc \in {"issue", "rotate", "reissue"}})

(* Bound: a change begins before MaxEvents events have been published. *)
EventLeft ==
    Cardinality({e \in RoleNames \X (1..MaxEvents) : e[2] <= stamp[e[1]]}) < MaxEvents

-----------------------------------------------------------------------------
Init ==
    /\ exists = TRUE
    /\ roles = Initial
    /\ issued = {} /\ active = {} /\ minted = {}
    /\ claims = [s \in Rows |-> {}]
    /\ stamp = [r \in RoleNames |-> 0]
    /\ wire = {}
    /\ view = [r \in RoleNames |-> [role |-> r, ts |-> 0, held |-> r \in Initial]]
    /\ req = [p \in Procs |-> Idle]
    /\ aborts = 0
    /\ told = [r \in RoleNames |-> IF r \in Initial THEN "in" ELSE "out"]
    /\ overlapped = {} /\ beaten = {} /\ raced = {}
    /\ unrevoked = FALSE /\ heard = RoleNames

Change(p) ==
    \/ EventLeft /\ \E r \in RoleNames : BeginAssign(p, r) \/ BeginRevoke(p, r)
    \/ \E r \in RoleNames : RevokeNothing(p, r)
    \/ FindRole(p) \/ UpdateRoles(p) \/ RevokeTokens(p) \/ Announce(p)

Session(p) ==
    \/ RowLeft /\ (BeginLogin(p) \/ \E s \in Rows : BeginRefresh(p, s))
    \/ IssueLogin(p) \/ Rotate(p) \/ Reissue(p) \/ SignClaims(p)

Next ==
    \/ \E p \in Procs : Change(p) \/ Session(p) \/ Abort(p)
    \/ DeleteAccount
    \/ \E e \in wire : Deliver(e) \/ Lose(e)

Spec == Init /\ [][Next]_vars

-----------------------------------------------------------------------------
(* Properties *)

Req == [pc : {"idle", "define", "write", "revoke", "announce", "issue", "rotate",
              "reissue", "claims"},
        op : {"none", "assign", "revoke", "login", "refresh"},
        role : RoleNames \cup {None}, read : SUBSET RoleNames, row : Rows \cup {None}]

Event == [role : RoleNames, ts : Nat, held : BOOLEAN]

(* Every variable holds a value of its kind, a handler knows the role it      *)
(* changes and the row whose access token it signs, and no event is from the  *)
(* future.                                                                   *)
TypeOK ==
    /\ exists \in BOOLEAN
    /\ roles \subseteq RoleNames
    /\ stamp \in [RoleNames -> Nat] /\ wire \subseteq Event
    /\ view \in [RoleNames -> Event]
    /\ \A e \in wire : e.ts <= stamp[e.role]
    /\ \A r \in RoleNames : view[r].role = r /\ view[r].ts <= stamp[r]
    /\ issued \subseteq Rows
    /\ active \subseteq issued /\ minted \subseteq issued /\ raced \subseteq issued
    /\ claims \in [Rows -> SUBSET RoleNames]
    /\ req \in [Procs -> Req]
    /\ \A p \in Procs : /\ Changing(p) => req[p].role \in RoleNames
                        /\ req[p].pc = "claims" => req[p].row \in issued
    /\ aborts \in Nat
    /\ told \in [RoleNames -> {"in", "out", "open"}]
    /\ overlapped \subseteq Procs /\ beaten \subseteq Procs
    /\ unrevoked \in BOOLEAN /\ heard \subseteq RoleNames

(* assignRole and revokeRole write back an array read two statements ago, so  *)
(* concurrent changes undo one another.  Still, a role of a new account, and a *)
(* change that was answered with success and ran beside no other, are kept by *)
(* whatever changes of other roles run concurrently later, until someone asks *)
(* to change that same role.                                                 *)
SettledChangesStay ==
    exists => \A r \in RoleNames : /\ told[r] = "in" => r \in roles
                                   /\ told[r] = "out" => r \notin roles

(* "After updating roles, active tokens should be revoked to force            *)
(* re-authentication with updated role claims."  Once no change is between    *)
(* its write and its revocation, an active session goes with an access token  *)
(* that carries the account's roles, unless a login that had read the array   *)
(* before a write opened it, or a change was cut off before its revocation.   *)
FreshClaims ==
    (~unrevoked /\ \A p \in Procs : req[p].pc # "revoke")
        => \A s \in (active \cap minted) \ raced : claims[s] = roles

(* Events of several instances arrive in any order, some never.  A consumer   *)
(* that has the latest event about a role, whatever it missed of that role or *)
(* others before, knows whether the account has the role, unless a change of  *)
(* the role is still to be announced, or the last one ran beside another      *)
(* change or was cut off from its event.                                     *)
ConsumerAgrees ==
    exists => \A r \in heard :
        /\ view[r].ts = stamp[r]
        /\ \A p \in Procs : req[p].pc \in {"revoke", "announce"} => req[p].role # r
        => (view[r].held <=> r \in roles)

-----------------------------------------------------------------------------
(* What the comments say, and the code does not guarantee. *)

(* "Idempotent: skip if the user already has this role": an assignment that   *)
(* answers success leaves no active session with claims without the role.     *)
AnsweredAssignReauthenticates ==
    \A r \in RoleNames : told[r] = "in" => \A s \in active \cap minted : r \in claims[s]
=============================================================================
