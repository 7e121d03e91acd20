------------------------------ MODULE RolesProofs ------------------------------
(***************************************************************************)
(* Proofs about Roles, for any role names, handlers, rows, aborts and events. *)
(***************************************************************************)
EXTENDS Roles, TLAPS

-----------------------------------------------------------------------------
(* Types. *)

(* What the handlers remember. *)
ReqOK ==
    /\ req \in [Procs -> Req]
    /\ \A p \in Procs : /\ Changing(p) => req[p].role \in RoleNames
                        /\ req[p].pc = "claims" => req[p].row \in issued

(* The events and what the consumer has kept of them. *)
BusOK ==
    /\ stamp \in [RoleNames -> Nat] /\ wire \subseteq Event
    /\ view \in [RoleNames -> Event]
    /\ \A e \in wire : e.ts <= stamp[e.role]
    /\ \A r \in RoleNames : view[r].role = r /\ view[r].ts <= stamp[r]

LEMMA PublishType ==
    ASSUME BusOK, NEW p \in Procs, NEW held \in BOOLEAN, req[p].role \in RoleNames,
           SafePublish(p, held)
    PROVE  BusOK'
  <1> DEFINE r == req[p].role
             e == [role |-> r, ts |-> stamp[r] + 1, held |-> held]
  <1>1. e \in Event /\ e.role = r /\ e.ts = stamp[r] + 1
    BY DEF BusOK, Event
  <1>2. /\ stamp' = [stamp EXCEPT ![r] = @ + 1] /\ wire' = wire \cup {e} /\ view' = view
    BY DEF SafePublish
  <1> HIDE DEF e
  <1>3. /\ stamp' \in [RoleNames -> Nat] /\ stamp'[r] = stamp[r] + 1
        /\ \A q \in RoleNames : stamp[q] <= stamp'[q]
    BY <1>2 DEF BusOK
  <1>4. ASSUME NEW f \in wire' PROVE f.ts <= stamp'[f.role]
    <2>1. CASE f = e
      BY <1>1, <1>3, <2>1
    <2>2. CASE f \in wire
      BY <1>3, <2>2 DEF BusOK, Event
    <2>3. QED
      BY <1>2, <2>1, <2>2
  <1>5. ASSUME NEW q \in RoleNames PROVE view'[q].role = q /\ view'[q].ts <= stamp'[q]
    BY <1>2, <1>3 DEF BusOK, Event
  <1>6. QED
    BY <1>1, <1>2, <1>3, <1>4, <1>5 DEF BusOK

Deliveries == \E e \in wire : Deliver(e) \/ Lose(e)

LEMMA DeliveryType ==
    ASSUME BusOK, Deliveries
    PROVE  BusOK'
  <1> PICK e \in wire : Deliver(e) \/ Lose(e)
    BY DEF Deliveries
  <1>1. /\ wire' = wire \ {e} /\ stamp' = stamp
        /\ view' = view \/ view' = [view EXCEPT ![e.role] = e]
    BY DEF Deliver, Lose
  <1>2. e \in Event /\ e.role \in RoleNames /\ e.ts <= stamp[e.role]
    BY DEF BusOK, Event
  <1>3. view' \in [RoleNames -> Event]
    BY <1>1, <1>2 DEF BusOK
  <1>4. ASSUME NEW r \in RoleNames PROVE view'[r].role = r /\ view'[r].ts <= stamp'[r]
    BY <1>1, <1>2 DEF BusOK
  <1>5. QED
    BY <1>1, <1>3, <1>4 DEF BusOK

LEMMA DeliveryKeeps ==
    ASSUME Deliveries
    PROVE  UNCHANGED <<account, sessions, stamp, req, aborts, ghosts>>
  BY DEF Deliveries, Deliver, Lose

LEMMA EndType ==
    ASSUME ReqOK, NEW p \in Procs, End(p), issued \subseteq issued'
    PROVE  ReqOK'
  <1>1. Idle \in Req /\ Idle.pc = "idle"
    BY DEF Idle, Req
  <1>2. req' \in [Procs -> Req]
    BY <1>1 DEF ReqOK, End
  <1>3. ASSUME NEW q \in Procs
        PROVE  /\ Changing(q)' => req'[q].role \in RoleNames
               /\ req'[q].pc = "claims" => req'[q].row \in issued'
    BY <1>1, <1>3 DEF ReqOK, End, Changing
  <1>4. QED
    BY <1>2, <1>3 DEF ReqOK, Changing

LEMMA GotoType ==
    ASSUME ReqOK, NEW p \in Procs, UNCHANGED issued,
           NEW pc \in {"write", "revoke", "announce", "reissue"}, Goto(p, pc),
           Changing(p) \/ pc = "reissue"
    PROVE  ReqOK'
  <1> DEFINE r == [req[p] EXCEPT !.pc = pc]
  <1>1. r \in Req /\ r.pc = pc /\ r.role = req[p].role
    BY DEF ReqOK, Req
  <1>2. req' = [req EXCEPT ![p] = r]
    BY DEF Goto
  <1> HIDE DEF r
  <1>3. ASSUME NEW q \in Procs
        PROVE  /\ Changing(q)' => req'[q].role \in RoleNames
               /\ req'[q].pc = "claims" => req'[q].row \in issued'
    BY <1>1, <1>2, <1>3 DEF ReqOK, Changing
  <1>4. QED
    BY <1>1, <1>2, <1>3 DEF ReqOK, Changing

(* A request that starts, with r as what its handler remembers. *)
LEMMA StartType ==
    ASSUME ReqOK, NEW p \in Procs, NEW r \in Req, UNCHANGED issued,
           req' = [req EXCEPT ![p] = r], r.pc # "claims",
           r.pc \in {"define", "write", "revoke", "announce"} => r.role \in RoleNames
    PROVE  ReqOK'
  <1>1. ASSUME NEW q \in Procs
        PROVE  /\ Changing(q)' => req'[q].role \in RoleNames
               /\ req'[q].pc = "claims" => req'[q].row \in issued'
    BY <1>1 DEF ReqOK, Changing
  <1>2. QED
    BY <1>1 DEF ReqOK, Changing

LEMMA TypeInit == Init => TypeOK
  <1> SUFFICES ASSUME Init PROVE TypeOK
    OBVIOUS
  <1>1. Idle \in Req /\ Idle.pc = "idle"
    BY DEF Idle, Req
  <1>2. /\ req \in [Procs -> Req]
        /\ \A p \in Procs : req[p].pc = "idle"
    BY <1>1 DEF Init
  <1>3. \A p \in Procs : ~Changing(p) /\ req[p].pc # "claims"
    BY <1>2 DEF Changing
  <1>4. roles \subseteq RoleNames
    BY RolesAssumption DEF Init
  <1>7. BusOK
    BY DEF Init, BusOK, Event
  <1>5. claims \in [Rows -> SUBSET RoleNames]
    BY DEF Init
  <1>6. told \in [RoleNames -> {"in", "out", "open"}]
    BY DEF Init
  <1>8. QED
    BY <1>2, <1>3, <1>4, <1>5, <1>6, <1>7 DEF Init, TypeOK, BusOK

LEMMA TypeChange ==
    ASSUME TypeOK, NEW p \in Procs, Change(p)
    PROVE  TypeOK'
  <1>r. ReqOK
    BY DEF TypeOK, ReqOK, bus
  <1>p. req[p] \in Req /\ req[p].read \subseteq RoleNames
    BY <1>r DEF ReqOK, Req
  <1>1. CASE \E r \in RoleNames : BeginAssign(p, r) \/ BeginRevoke(p, r)
    <2> PICK r \in RoleNames : BeginAssign(p, r) \/ BeginRevoke(p, r)
      BY <1>1
    <2>1. ReqOK'
      <3>1. CASE BeginAssign(p, r)
        <4> DEFINE s == [Idle EXCEPT !.pc = "define", !.op = "assign",
                                     !.role = r, !.read = roles]
        <4>1. s \in Req /\ s.pc = "define" /\ s.role = r
          BY DEF Idle, Req, TypeOK, bus
        <4>2. req' = [req EXCEPT ![p] = s] /\ issued' = issued
          BY <3>1 DEF BeginAssign, sessions
        <4> HIDE DEF s
        <4>3. QED
          BY <1>r, <4>1, <4>2, StartType
      <3>2. CASE BeginRevoke(p, r)
        <4> DEFINE s == [Idle EXCEPT !.pc = "write", !.op = "revoke",
                                     !.role = r, !.read = roles]
        <4>1. s \in Req /\ s.pc = "write" /\ s.role = r
          BY DEF Idle, Req, TypeOK, bus
        <4>2. req' = [req EXCEPT ![p] = s] /\ issued' = issued
          BY <3>2 DEF BeginRevoke, sessions
        <4> HIDE DEF s
        <4>3. QED
          BY <1>r, <4>1, <4>2, StartType
      <3>3. QED
        BY <3>1, <3>2
    <2>2. /\ UNCHANGED <<account, sessions, bus, aborts, beaten, raced, unrevoked>>
          /\ told' \in [RoleNames -> {"in", "out", "open"}]
          /\ overlapped' \subseteq Procs /\ heard' \subseteq RoleNames
      BY DEF BeginAssign, BeginRevoke, StartChange, TypeOK, bus
    <2>3. QED
      BY <2>1, <2>2 DEF TypeOK, ReqOK, account, sessions, bus
  <1>2. CASE \E r \in RoleNames : RevokeNothing(p, r)
    <2>1. UNCHANGED <<account, sessions, bus, req, aborts, overlapped, beaten, raced,
                      unrevoked, heard>>
      BY <1>2 DEF RevokeNothing
    <2>2. told' \in [RoleNames -> {"in", "out", "open"}]
      BY <1>2 DEF RevokeNothing, TypeOK, bus
    <2>3. QED
      BY <2>1, <2>2 DEF TypeOK, account, sessions, Changing, bus
  <1>3. CASE FindRole(p)
    <2>1. ReqOK'
      <3>1. UNCHANGED issued /\ Changing(p)
        BY <1>3 DEF FindRole, sessions, Changing
      <3>2. End(p) \/ Goto(p, "write")
        BY <1>3 DEF FindRole
      <3>3. QED
        BY <1>r, <3>1, <3>2, EndType, GotoType
    <2>2. told' \in [RoleNames -> {"in", "out", "open"}]
      BY <1>3 DEF FindRole, Tell, TypeOK, bus
    <2>3. QED
      BY <1>3, <2>1, <2>2 DEF FindRole, TypeOK, ReqOK, account, sessions, bus
  <1>4. CASE UpdateRoles(p)
    <2>1. ReqOK'
      BY <1>4, <1>r, GotoType DEF UpdateRoles, sessions, Changing
    <2>2. roles' \subseteq RoleNames
      BY <1>4, <1>p, <1>r DEF UpdateRoles, Updated, TypeOK, ReqOK, Changing, bus
    <2>3. beaten' \subseteq Procs
      BY <1>4 DEF UpdateRoles, TypeOK, bus
    <2>4. QED
      BY <1>4, <2>1, <2>2, <2>3 DEF UpdateRoles, TypeOK, ReqOK, sessions, bus
  <1>5. CASE RevokeTokens(p)
    <2>1. ReqOK'
      BY <1>5, <1>r, GotoType DEF RevokeTokens, Changing
    <2>2. QED
      BY <1>5, <2>1 DEF RevokeTokens, TypeOK, ReqOK, account, bus
  <1>6. CASE Announce(p)
    <2>1. ReqOK'
      BY <1>6, <1>r, EndType DEF Announce, sessions
    <2>2. req[p].role \in RoleNames
      BY <1>6, <1>r DEF Announce, ReqOK, Changing
    <2>3. BusOK' /\ heard' \subseteq RoleNames
      <3>1. SafePublish(p, req[p].op = "assign")
        BY <1>6 DEF Announce
      <3>2. BusOK'
        BY <2>2, <3>1, PublishType DEF TypeOK, BusOK
      <3>3. QED
        BY <2>2, <3>1, <3>2 DEF SafePublish, TypeOK, bus
    <2>4. told' \in [RoleNames -> {"in", "out", "open"}]
      BY <1>6 DEF Announce, Tell, TypeOK, bus
    <2>5. QED
      BY <1>6, <2>1, <2>3, <2>4 DEF Announce, TypeOK, ReqOK, BusOK, account, sessions
  <1>7. QED
    BY <1>1, <1>2, <1>3, <1>4, <1>5, <1>6 DEF Change

LEMMA TypeSession ==
    ASSUME TypeOK, NEW p \in Procs, Session(p)
    PROVE  TypeOK'
  <1>r. ReqOK
    BY DEF TypeOK, ReqOK, bus
  <1>1. CASE BeginLogin(p)
    <2> DEFINE s == [Idle EXCEPT !.pc = "issue", !.op = "login", !.read = roles]
    <2>1. s \in Req /\ s.pc = "issue"
      BY DEF Idle, Req, TypeOK, bus
    <2>2. req' = [req EXCEPT ![p] = s] /\ issued' = issued
      BY <1>1 DEF BeginLogin, sessions
    <2> HIDE DEF s
    <2>3. ReqOK'
      BY <1>r, <2>1, <2>2, StartType
    <2>4. QED
      BY <1>1, <2>3 DEF BeginLogin, TypeOK, ReqOK, account, sessions, bus
  <1>2. CASE IssueLogin(p)
    <2>1. /\ issued \subseteq issued' /\ issued' \subseteq Rows
          /\ active' \subseteq issued' /\ minted' \subseteq issued' /\ raced' \subseteq issued'
      BY <1>2 DEF IssueLogin, TypeOK, sessions, bus
    <2>2. claims' \in [Rows -> SUBSET RoleNames]
      <3>1. req[p].read \subseteq RoleNames
        BY <1>r DEF ReqOK, Req
      <3>2. QED
        BY <1>2, <3>1 DEF IssueLogin, TypeOK, sessions, bus
    <2>3. ReqOK'
      BY <1>2, <1>r, <2>1, EndType DEF IssueLogin
    <2>4. QED
      BY <1>2, <2>1, <2>2, <2>3 DEF IssueLogin, TypeOK, ReqOK, account, bus
  <1>3. CASE \E s \in Rows : BeginRefresh(p, s)
    <2> PICK t \in Rows : BeginRefresh(p, t)
      BY <1>3
    <2> DEFINE s == [Idle EXCEPT !.pc = "rotate", !.op = "refresh", !.row = t]
    <2>1. s \in Req /\ s.pc = "rotate"
      BY DEF Idle, Req, TypeOK, bus
    <2>2. req' = [req EXCEPT ![p] = s] /\ issued' = issued
      BY DEF BeginRefresh, sessions
    <2> HIDE DEF s
    <2>3. ReqOK'
      BY <1>r, <2>1, <2>2, StartType
    <2>4. QED
      BY <2>3 DEF BeginRefresh, TypeOK, ReqOK, account, sessions, ghosts, bus
  <1>4. CASE Rotate(p)
    <2>1. ReqOK'
      BY <1>4, <1>r, GotoType DEF Rotate
    <2>2. QED
      BY <1>4, <2>1 DEF Rotate, TypeOK, ReqOK, account, ghosts, bus
  <1>5. CASE Reissue(p)
    <2>1. /\ issued \subseteq issued' /\ issued' \subseteq Rows
          /\ active' \subseteq issued'
      BY <1>5 DEF Reissue, TypeOK, bus
    <2>2. ReqOK'
      <3>1. CASE End(p)
        BY <1>r, <2>1, <3>1, EndType
      <3>2. CASE ~End(p)
        <4> PICK s \in Rows \ issued :
                /\ issued' = issued \cup {s}
                /\ req' = [req EXCEPT ![p] = [@ EXCEPT !.pc = "claims", !.row = s]]
          BY <1>5, <3>2 DEF Reissue
        <4> DEFINE t == [req[p] EXCEPT !.pc = "claims", !.row = s]
        <4>1. t \in Req /\ t.pc = "claims" /\ t.row = s
          BY <1>r DEF ReqOK, Req
        <4>2. req' = [req EXCEPT ![p] = t]
          OBVIOUS
        <4> HIDE DEF t
        <4>3. ASSUME NEW q \in Procs
              PROVE  /\ Changing(q)' => req'[q].role \in RoleNames
                     /\ req'[q].pc = "claims" => req'[q].row \in issued'
          BY <1>r, <4>1, <4>2, <4>3 DEF ReqOK, Changing
        <4>4. QED
          BY <1>r, <4>1, <4>2, <4>3 DEF ReqOK, Changing
      <3>3. QED
        BY <3>1, <3>2
    <2>3. QED
      BY <1>5, <2>1, <2>2 DEF Reissue, TypeOK, ReqOK, account, ghosts, bus
  <1>6. CASE SignClaims(p)
    <2>1. ReqOK' /\ req[p].row \in issued
      BY <1>6, <1>r, EndType DEF SignClaims, ReqOK
    <2>2. minted' \subseteq issued /\ claims' \in [Rows -> SUBSET RoleNames]
      BY <1>6, <2>1 DEF SignClaims, TypeOK, bus
    <2>3. QED
      BY <1>6, <2>1, <2>2 DEF SignClaims, TypeOK, ReqOK, account, ghosts, bus
  <1>7. QED
    BY <1>1, <1>2, <1>3, <1>4, <1>5, <1>6 DEF Session

LEMMA TypeElsewhere ==
    ASSUME TypeOK, \/ DeleteAccount \/ Deliveries
                   \/ (\E p \in Procs : Abort(p)) \/ UNCHANGED vars
    PROVE  TypeOK'
  <1>1. CASE DeleteAccount
    BY <1>1 DEF DeleteAccount, TypeOK, ghosts, Changing, bus
  <1>2. CASE \E p \in Procs : Abort(p)
    <2> PICK p \in Procs : Abort(p)
      BY <1>2
    <2>1. ReqOK'
      BY EndType DEF Abort, TypeOK, ReqOK, sessions, bus
    <2>2. aborts' \in Nat /\ unrevoked' \in BOOLEAN /\ heard' \subseteq RoleNames
      BY DEF Abort, TypeOK, bus
    <2>3. QED
      BY <2>1, <2>2 DEF Abort, TypeOK, ReqOK, account, sessions, bus
  <1>3. CASE UNCHANGED vars
    BY <1>3 DEF vars, TypeOK, account, sessions, ghosts, Changing, bus
  <1>4. CASE Deliveries
    <2>1. BusOK'
      BY <1>4, DeliveryType DEF TypeOK, BusOK
    <2>2. QED
      BY <1>4, <2>1, DeliveryKeeps
      DEF TypeOK, BusOK, account, sessions, ghosts, Changing
  <1>5. QED
    BY <1>1, <1>2, <1>3, <1>4

LEMMA NextSplit ==
    ASSUME [Next]_vars
    PROVE  \/ \E p \in Procs : Change(p)
           \/ \E p \in Procs : Session(p)
           \/ \E p \in Procs : Abort(p)
           \/ DeleteAccount
           \/ Deliveries
           \/ UNCHANGED vars
  BY DEF Next, Deliveries

(* Whatever handlers of role changes, logins and refreshes interleave with     *)
(* the deletion of the account and with faults, every statement finds the      *)
(* role and the row it works on.                                             *)
THEOREM TypeCorrect == Spec => []TypeOK
  <1>1. TypeOK /\ [Next]_vars => TypeOK'
    BY NextSplit, TypeChange, TypeSession, TypeElsewhere
  <1>2. QED
    BY <1>1, TypeInit, PTL DEF Spec

-----------------------------------------------------------------------------
(* Steps that touch no role change, except that they may cut one off. *)

ChangesKept == \A q \in Procs : Changing(q)' => Changing(q) /\ req'[q] = req[q]

LEMMA SessionKeeps ==
    ASSUME TypeOK, NEW p \in Procs, Session(p)
    PROVE  /\ ChangesKept
           /\ UNCHANGED <<exists, roles, bus, told, overlapped, unrevoked, heard>>
           /\ req[p].pc \notin {"define", "write", "revoke", "announce"}
           /\ req'[p].pc \notin {"define", "write", "revoke", "announce"}
           /\ \A q \in Procs \ {p} : req'[q] = req[q]
  <1>0. req \in [Procs -> Req] /\ Idle.pc = "idle"
    BY DEF TypeOK, Idle
  <1> DEFINE Step == /\ \A q \in Procs \ {p} : req'[q] = req[q]
                     /\ req[p].pc \notin {"define", "write", "revoke", "announce"}
                     /\ req'[p].pc \notin {"define", "write", "revoke", "announce"}
  <1>1. CASE BeginLogin(p)
    <2>1. Step
      BY <1>0, <1>1 DEF BeginLogin, Idle
    <2>2. QED
      BY <1>1, <2>1 DEF BeginLogin, account, ChangesKept, Changing
  <1>2. CASE IssueLogin(p)
    <2>1. Step
      BY <1>0, <1>2 DEF IssueLogin, End
    <2>2. QED
      BY <1>2, <2>1 DEF IssueLogin, account, ChangesKept, Changing
  <1>3. CASE \E s \in Rows : BeginRefresh(p, s)
    <2>1. Step
      BY <1>0, <1>3 DEF BeginRefresh, Idle
    <2>2. QED
      BY <1>3, <2>1 DEF BeginRefresh, account, ghosts, ChangesKept, Changing
  <1>4. CASE Rotate(p)
    <2>1. Step
      BY <1>0, <1>4 DEF Rotate, Goto, Req
    <2>2. QED
      BY <1>4, <2>1 DEF Rotate, account, ghosts, ChangesKept, Changing
  <1>5. CASE Reissue(p)
    <2>1. Step
      <3>1. CASE End(p)
        BY <1>0, <1>5, <3>1 DEF Reissue, End
      <3>2. CASE ~End(p)
        <4> PICK s \in Rows \ issued :
                req' = [req EXCEPT ![p] = [@ EXCEPT !.pc = "claims", !.row = s]]
          BY <1>5, <3>2 DEF Reissue
        <4>1. QED
          BY <1>0, <1>5 DEF Reissue, Req
      <3>3. QED
        BY <3>1, <3>2
    <2>2. QED
      BY <1>5, <2>1 DEF Reissue, account, ghosts, ChangesKept, Changing
  <1>6. CASE SignClaims(p)
    <2>1. Step
      BY <1>0, <1>6 DEF SignClaims, End
    <2>2. QED
      BY <1>6, <2>1 DEF SignClaims, account, ghosts, ChangesKept, Changing
  <1>7. QED
    BY <1>1, <1>2, <1>3, <1>4, <1>5, <1>6 DEF Session

LEMMA AbortKeeps ==
    ASSUME TypeOK, NEW p \in Procs, Abort(p)
    PROVE  /\ ChangesKept
           /\ UNCHANGED <<exists, roles, bus, told, overlapped, sessions, beaten, raced>>
           /\ req'[p].pc = "idle"
           /\ \A q \in Procs \ {p} : req'[q] = req[q]
  <1>1. req \in [Procs -> Req] /\ Idle.pc = "idle"
    BY DEF TypeOK, Idle
  <1>2. /\ req'[p].pc = "idle"
        /\ \A q \in Procs \ {p} : req'[q] = req[q]
    BY <1>1 DEF Abort, End
  <1>3. QED
    BY <1>2 DEF Abort, account, ChangesKept, Changing

(* What the start of a change does to the handlers. *)
LEMMA BeginChange ==
    ASSUME TypeOK, NEW p \in Procs, NEW r \in RoleNames,
           BeginAssign(p, r) \/ BeginRevoke(p, r)
    PROVE  /\ \A q \in Procs \ {p} : req'[q] = req[q]
           /\ ~Changing(p) /\ exists
           /\ req'[p].pc \in {"define", "write"}
           /\ req'[p].role = r /\ req'[p].read = roles
           /\ UNCHANGED <<account, sessions, bus, beaten, raced, unrevoked>>
           /\ StartChange(p, r)
  <1>1. req \in [Procs -> Req]
    BY DEF TypeOK
  <1>2. CASE BeginAssign(p, r)
    BY <1>1, <1>2 DEF BeginAssign, StartChange, Idle, Changing
  <1>3. CASE BeginRevoke(p, r)
    BY <1>1, <1>3 DEF BeginRevoke, StartChange, Idle, Changing
  <1>4. QED
    BY <1>2, <1>3

(* What a later statement of a change does to them. *)
LEMMA MoveOn ==
    ASSUME TypeOK, NEW p \in Procs, NEW pc \in {"write", "revoke", "announce"}, Goto(p, pc)
    PROVE  /\ \A q \in Procs \ {p} : req'[q] = req[q]
           /\ req'[p].pc = pc
           /\ req'[p].op = req[p].op /\ req'[p].role = req[p].role
           /\ req'[p].read = req[p].read
  BY DEF TypeOK, Req, Goto

LEMMA LetGo ==
    ASSUME TypeOK, NEW p \in Procs, End(p)
    PROVE  /\ \A q \in Procs \ {p} : req'[q] = req[q]
           /\ req'[p].pc = "idle"
  BY DEF TypeOK, End, Idle

-----------------------------------------------------------------------------
(* What was answered stays.  A change that runs beside no other has read the  *)
(* array that is still there; any change in flight has read every settled     *)
(* role, and the role it will change is open.                                *)

Alone == \A p \in Procs : Changing(p) /\ p \notin overlapped
            => \A q \in Procs \ {p} : ~Changing(q)

ReadSettled == \A p \in Procs : req[p].pc \in {"define", "write"} =>
                  \A r \in RoleNames : /\ told[r] = "in" => r \in req[p].read
                                       /\ told[r] = "out" => r \notin req[p].read

OwnOpen == \A p \in Procs : Changing(p) => told[req[p].role] = "open"

AloneReads == \A p \in Procs : req[p].pc \in {"define", "write"} /\ p \notin overlapped
                => req[p].read = roles

AloneWrote == \A p \in Procs : req[p].pc \in {"revoke", "announce"} /\ p \notin overlapped
                => IF req[p].op = "assign" THEN req[p].role \in roles
                                           ELSE req[p].role \notin roles

Settled == \A r \in RoleNames : /\ told[r] = "in" => r \in roles
                                /\ told[r] = "out" => r \notin roles

SettledInv ==
    exists => Alone /\ ReadSettled /\ OwnOpen /\ AloneReads /\ AloneWrote /\ Settled

LEMMA SettledInit == Init => SettledInv
  <1> SUFFICES ASSUME Init PROVE SettledInv
    OBVIOUS
  <1>1. \A p \in Procs : req[p].pc = "idle"
    BY DEF Init, Idle
  <1>2. Settled
    BY DEF Init, Settled
  <1>3. QED
    BY <1>1, <1>2 DEF SettledInv, Alone, ReadSettled, OwnOpen, AloneReads, AloneWrote, Changing

LEMMA SettledAside ==
    ASSUME SettledInv, ChangesKept, UNCHANGED <<roles, told, overlapped>>, exists' => exists
    PROVE  SettledInv'
  <1> SUFFICES ASSUME exists' PROVE SettledInv'
    BY DEF SettledInv
  <1> USE DEF ChangesKept, Changing
  <1>0. Alone /\ ReadSettled /\ OwnOpen /\ AloneReads /\ AloneWrote /\ Settled
    BY DEF SettledInv
  <1>1. Alone'
    BY <1>0 DEF Alone
  <1>2. ReadSettled'
    BY <1>0 DEF ReadSettled
  <1>3. OwnOpen'
    BY <1>0 DEF OwnOpen
  <1>4. AloneReads'
    BY <1>0 DEF AloneReads
  <1>5. AloneWrote'
    BY <1>0 DEF AloneWrote
  <1>6. Settled'
    BY <1>0 DEF Settled
  <1>7. QED
    BY <1>1, <1>2, <1>3, <1>4, <1>5, <1>6 DEF SettledInv

LEMMA SettledChange ==
    ASSUME TypeOK, SettledInv, NEW p \in Procs, Change(p), exists'
    PROVE  SettledInv'
  <1>e. UNCHANGED exists
    BY DEF Change, BeginAssign, BeginRevoke, RevokeNothing, FindRole, UpdateRoles,
           RevokeTokens, Announce, account
  <1>0. Alone /\ ReadSettled /\ OwnOpen /\ AloneReads /\ AloneWrote /\ Settled
    BY <1>e DEF SettledInv
  <1>t. /\ told \in [RoleNames -> {"in", "out", "open"}]
        /\ \A q \in Procs : Changing(q) => req[q].role \in RoleNames
    BY DEF TypeOK
  <1>1. CASE \E r \in RoleNames : BeginAssign(p, r) \/ BeginRevoke(p, r)
    <2> PICK r \in RoleNames : BeginAssign(p, r) \/ BeginRevoke(p, r)
      BY <1>1
    <2>1. /\ \A q \in Procs \ {p} : req'[q] = req[q]
          /\ ~Changing(p) /\ exists
          /\ req'[p].pc \in {"define", "write"}
          /\ req'[p].role = r /\ req'[p].read = roles
          /\ UNCHANGED account
          /\ StartChange(p, r)
      BY BeginChange
    <2>2. told' = [told EXCEPT ![r] = "open"] /\ UNCHANGED roles
      BY <2>1 DEF StartChange, account
    <2>3. \A q \in Procs \ {p} : Changing(q) => q \in overlapped' /\ p \in overlapped'
      BY <2>1 DEF StartChange
    <2>4. Alone'
      BY <2>1, <2>3 DEF Alone, Changing
    <2>5. ReadSettled'
      BY <1>0, <1>t, <2>1, <2>2 DEF ReadSettled, Settled
    <2>6. OwnOpen'
      BY <1>0, <1>t, <2>1, <2>2 DEF OwnOpen, Changing
    <2>7. AloneReads'
      BY <1>0, <2>1, <2>2, <2>3 DEF AloneReads, Changing
    <2>8. AloneWrote'
      BY <1>0, <2>1, <2>3 DEF AloneWrote, Changing
    <2>9. Settled'
      BY <1>0, <1>t, <2>2 DEF Settled
    <2>10. QED
      BY <2>4, <2>5, <2>6, <2>7, <2>8, <2>9 DEF SettledInv
  <1>2. CASE \E r \in RoleNames : RevokeNothing(p, r)
    <2> PICK r \in RoleNames : RevokeNothing(p, r)
      BY <1>2
    <2>1. /\ r \notin roles /\ told' = [told EXCEPT ![r] = "out"]
          /\ UNCHANGED <<req, roles>>
          /\ \A q \in Procs : ~Changing(q)
      BY DEF RevokeNothing, account
    <2>2. Settled'
      BY <1>0, <1>t, <2>1 DEF Settled
    <2>3. QED
      BY <2>1, <2>2
      DEF SettledInv, Alone, ReadSettled, OwnOpen, AloneReads, AloneWrote, Changing
  <1>3. CASE FindRole(p)
    <2>0. req[p].pc = "define" /\ Changing(p) /\ UNCHANGED <<roles, overlapped>>
      BY <1>3 DEF FindRole, Changing, account
    <2>1. CASE req[p].role \notin Defined
      <3>1. End(p) /\ UNCHANGED told
        BY <1>3, <2>1 DEF FindRole
      <3>2. ChangesKept
        BY <3>1, LetGo DEF ChangesKept, Changing
      <3>3. QED
        BY <3>1, <3>2, <2>0, <1>e, SettledAside
    <2>2. CASE req[p].role \in Defined \cap req[p].read
      <3>1. End(p) /\ Tell(p, req[p].role, "in")
        BY <1>3, <2>2 DEF FindRole
      <3>2. CASE p \in overlapped
        <4>1. UNCHANGED told
          BY <3>1, <3>2 DEF Tell
        <4>2. ChangesKept
          BY <3>1, LetGo DEF ChangesKept, Changing
        <4>3. QED
          BY <4>1, <4>2, <2>0, <1>e, SettledAside
      <3>3. CASE p \notin overlapped
        <4>1. told' = [told EXCEPT ![req[p].role] = "in"] /\ req[p].role \in roles
          BY <1>0, <2>0, <2>2, <3>1, <3>3 DEF Tell, AloneReads
        <4>2. \A q \in Procs : ~Changing(q)'
          BY <1>0, <2>0, <3>1, <3>3, LetGo DEF Alone, Changing
        <4>3. Settled'
          BY <1>0, <1>t, <2>0, <4>1 DEF Settled
        <4>4. QED
          BY <4>2, <4>3
          DEF SettledInv, Alone, ReadSettled, OwnOpen, AloneReads, AloneWrote, Changing
      <3>4. QED
        BY <3>2, <3>3
    <2>3. CASE req[p].role \in Defined \ req[p].read
      <3>1. Goto(p, "write") /\ UNCHANGED told
        BY <1>3, <2>3 DEF FindRole
      <3>2. /\ \A q \in Procs \ {p} : req'[q] = req[q]
            /\ req'[p].pc = "write" /\ req'[p].role = req[p].role
            /\ req'[p].read = req[p].read
        BY <3>1, MoveOn
      <3>3. Alone'
        BY <1>0, <2>0, <3>2 DEF Alone, Changing
      <3>4. ReadSettled'
        BY <1>0, <2>0, <3>1, <3>2 DEF ReadSettled
      <3>5. OwnOpen'
        BY <1>0, <2>0, <3>1, <3>2 DEF OwnOpen, Changing
      <3>6. AloneReads'
        BY <1>0, <2>0, <3>2 DEF AloneReads
      <3>7. AloneWrote'
        BY <1>0, <2>0, <3>2 DEF AloneWrote
      <3>8. Settled'
        BY <1>0, <2>0, <3>1 DEF Settled
      <3>9. QED
        BY <3>3, <3>4, <3>5, <3>6, <3>7, <3>8 DEF SettledInv
    <2>4. QED
      BY <2>1, <2>2, <2>3, <1>3 DEF FindRole
  <1>4. CASE UpdateRoles(p)
    <2>0. /\ req[p].pc = "write" /\ Changing(p)
          /\ roles' = Updated(p) /\ Goto(p, "revoke")
          /\ UNCHANGED <<told, overlapped>>
      BY <1>4, <1>e DEF UpdateRoles, Changing
    <2>1. /\ \A q \in Procs \ {p} : req'[q] = req[q]
          /\ req'[p].pc = "revoke" /\ req'[p].role = req[p].role
          /\ req'[p].op = req[p].op
      BY <2>0, MoveOn
    <2>2. Alone'
      BY <1>0, <2>0, <2>1 DEF Alone, Changing
    <2>3. ReadSettled'
      BY <1>0, <2>0, <2>1 DEF ReadSettled
    <2>4. OwnOpen'
      BY <1>0, <2>0, <2>1 DEF OwnOpen, Changing
    <2>5. \A q \in Procs \ {p} : Changing(q) => q \in overlapped
      BY <1>0, <2>0 DEF Alone
    <2>6. AloneReads'
      BY <2>0, <2>1, <2>5 DEF AloneReads, Changing
    <2>7. AloneWrote'
      BY <2>0, <2>1, <2>5 DEF AloneWrote, Changing, Updated
    <2>8. Settled'
      <3>1. told[req[p].role] = "open"
        BY <1>0, <2>0 DEF OwnOpen
      <3>2. \A r \in RoleNames : r # req[p].role => (r \in roles' <=> r \in req[p].read)
        BY <2>0 DEF Updated
      <3>3. QED
        BY <1>0, <2>0, <3>1, <3>2 DEF Settled, ReadSettled
    <2>9. QED
      BY <2>2, <2>3, <2>4, <2>6, <2>7, <2>8 DEF SettledInv
  <1>5. CASE RevokeTokens(p)
    <2>0. /\ req[p].pc = "revoke" /\ Changing(p)
          /\ Goto(p, "announce")
          /\ UNCHANGED <<roles, told, overlapped>>
      BY <1>5 DEF RevokeTokens, Changing, account
    <2>1. /\ \A q \in Procs \ {p} : req'[q] = req[q]
          /\ req'[p].pc = "announce" /\ req'[p].role = req[p].role
          /\ req'[p].op = req[p].op
      BY <2>0, MoveOn
    <2>2. Alone'
      BY <1>0, <2>0, <2>1 DEF Alone, Changing
    <2>3. ReadSettled'
      BY <1>0, <2>0, <2>1 DEF ReadSettled
    <2>4. OwnOpen'
      BY <1>0, <2>0, <2>1 DEF OwnOpen, Changing
    <2>5. AloneReads'
      BY <1>0, <2>0, <2>1 DEF AloneReads
    <2>6. AloneWrote'
      BY <1>0, <2>0, <2>1 DEF AloneWrote
    <2>7. Settled'
      BY <1>0, <2>0 DEF Settled
    <2>8. QED
      BY <2>2, <2>3, <2>4, <2>5, <2>6, <2>7 DEF SettledInv
  <1>6. CASE Announce(p)
    <2>0. /\ req[p].pc = "announce" /\ Changing(p) /\ End(p)
          /\ Tell(p, req[p].role, IF req[p].op = "assign" THEN "in" ELSE "out")
          /\ UNCHANGED <<roles, overlapped>>
      BY <1>6 DEF Announce, Changing, account
    <2>1. CASE p \in overlapped
      <3>1. UNCHANGED told
        BY <2>0, <2>1 DEF Tell
      <3>2. ChangesKept
        BY <2>0, LetGo DEF ChangesKept, Changing
      <3>3. QED
        BY <3>1, <3>2, <2>0, <1>e, SettledAside
    <2>2. CASE p \notin overlapped
      <3>1. \A q \in Procs : ~Changing(q)'
        BY <1>0, <2>0, <2>2, LetGo DEF Alone, Changing
      <3>2. Settled'
        <4>1. told' = [told EXCEPT ![req[p].role] =
                          IF req[p].op = "assign" THEN "in" ELSE "out"]
          BY <2>0, <2>2 DEF Tell
        <4>2. IF req[p].op = "assign" THEN req[p].role \in roles
                                      ELSE req[p].role \notin roles
          BY <1>0, <2>0, <2>2 DEF AloneWrote
        <4>3. QED
          BY <1>0, <1>t, <2>0, <4>1, <4>2 DEF Settled
      <3>3. QED
        BY <3>1, <3>2
        DEF SettledInv, Alone, ReadSettled, OwnOpen, AloneReads, AloneWrote, Changing
    <2>3. QED
      BY <2>1, <2>2
  <1>7. QED
    BY <1>1, <1>2, <1>3, <1>4, <1>5, <1>6 DEF Change

LEMMA SettledStep ==
    ASSUME TypeOK, SettledInv, [Next]_vars
    PROVE  SettledInv'
  <1>1. CASE \E p \in Procs : Change(p)
    BY <1>1, SettledChange DEF SettledInv
  <1>2. CASE \E p \in Procs : Session(p)
    BY <1>2, SessionKeeps, SettledAside
  <1>3. CASE \E p \in Procs : Abort(p)
    BY <1>3, AbortKeeps, SettledAside
  <1>4. CASE DeleteAccount
    BY <1>4 DEF DeleteAccount, SettledInv
  <1>5. CASE Deliveries \/ UNCHANGED vars
    BY <1>5, DeliveryKeeps, SettledAside DEF vars, account, ghosts, ChangesKept, Changing
  <1>6. QED
    BY <1>1, <1>2, <1>3, <1>4, <1>5, NextSplit

LEMMA SettledAlways == Spec => []SettledInv
  <1>1. TypeOK /\ SettledInv /\ [Next]_vars => SettledInv'
    BY SettledStep
  <1>2. QED
    BY <1>1, SettledInit, TypeCorrect, PTL DEF Spec

(* A role change that was answered with success and ran beside no other is     *)
(* kept by whatever changes of other roles run concurrently later, although    *)
(* each of them writes back the whole array it read.                         *)
THEOREM AnswersAreKept == Spec => []SettledChangesStay
  <1>1. SettledInv => SettledChangesStay
    BY DEF SettledInv, Settled, SettledChangesStay
  <1>2. QED
    BY <1>1, SettledAlways, PTL

-----------------------------------------------------------------------------
(* Claims.  A login whose read nothing overtook still holds the roles, and the *)
(* account's deletion leaves no active session behind.                       *)

NoRevocationDue == ~unrevoked /\ \A p \in Procs : req[p].pc # "revoke"

UnbeatenReads == \A p \in Procs : req[p].pc = "issue" /\ p \notin beaten
                    => req[p].read = roles

GoneHasNone == ~exists => active = {}

ClaimsInv == UnbeatenReads /\ GoneHasNone /\ FreshClaims

LEMMA ClaimsInit == Init => ClaimsInv
  <1> SUFFICES ASSUME Init PROVE ClaimsInv
    OBVIOUS
  <1>1. \A p \in Procs : req[p].pc = "idle"
    BY DEF Init, Idle
  <1>2. QED
    BY <1>1 DEF Init, ClaimsInv, UnbeatenReads, GoneHasNone, FreshClaims

(* Steps that open no session, sign nothing and write no roles. *)
LEMMA ClaimsAside ==
    ASSUME ClaimsInv, UNCHANGED <<roles, minted, claims, beaten, raced>>,
           active' \subseteq active, exists' => exists, ~exists' => active' = {},
           \A p \in Procs : req'[p].pc = "issue"
               => req[p].pc = "issue" /\ req'[p].read = req[p].read,
           NoRevocationDue' => NoRevocationDue
    PROVE  ClaimsInv'
  <1>1. UnbeatenReads'
    BY DEF ClaimsInv, UnbeatenReads
  <1>2. GoneHasNone'
    BY DEF GoneHasNone
  <1>3. FreshClaims'
    BY DEF ClaimsInv, FreshClaims, NoRevocationDue
  <1>4. QED
    BY <1>1, <1>2, <1>3 DEF ClaimsInv

LEMMA ClaimsChange ==
    ASSUME TypeOK, ClaimsInv, NEW p \in Procs, Change(p)
    PROVE  ClaimsInv'
  <1>0. GoneHasNone
    BY DEF ClaimsInv
  <1> USE DEF NoRevocationDue
  <1>1. CASE \E r \in RoleNames : BeginAssign(p, r) \/ BeginRevoke(p, r)
    <2> PICK r \in RoleNames : BeginAssign(p, r) \/ BeginRevoke(p, r)
      BY <1>1
    <2>1. /\ \A q \in Procs \ {p} : req'[q] = req[q]
          /\ ~Changing(p)
          /\ req'[p].pc \in {"define", "write"}
          /\ UNCHANGED <<account, sessions, beaten, raced, unrevoked>>
      BY BeginChange
    <2>2. QED
      BY <1>0, <2>1, ClaimsAside DEF Changing, account, sessions, GoneHasNone
  <1>2. CASE \E r \in RoleNames : RevokeNothing(p, r)
    BY <1>0, <1>2, ClaimsAside DEF RevokeNothing, account, sessions, GoneHasNone
  <1>3. CASE FindRole(p)
    <2>1. /\ req[p].pc = "define"
          /\ UNCHANGED <<account, sessions, beaten, raced, unrevoked>>
          /\ End(p) \/ Goto(p, "write")
      BY <1>3 DEF FindRole
    <2>2. /\ \A q \in Procs \ {p} : req'[q] = req[q]
          /\ req'[p].pc \in {"idle", "write"}
      BY <2>1, LetGo, MoveOn
    <2>3. QED
      BY <1>0, <2>1, <2>2, ClaimsAside DEF account, sessions, GoneHasNone
  <1>4. CASE UpdateRoles(p)
    <2>1. /\ \A q \in Procs \ {p} : req'[q] = req[q]
          /\ req'[p].pc = "revoke"
      BY <1>4, MoveOn DEF UpdateRoles
    <2>2. UnbeatenReads'
      BY <1>4, <2>1 DEF UpdateRoles, UnbeatenReads
    <2>3. GoneHasNone'
      BY <1>0, <1>4 DEF UpdateRoles, GoneHasNone, sessions
    <2>4. FreshClaims'
      BY <2>1 DEF FreshClaims
    <2>5. QED
      BY <2>2, <2>3, <2>4 DEF ClaimsInv
  <1>5. CASE RevokeTokens(p)
    <2>1. /\ \A q \in Procs \ {p} : req'[q] = req[q]
          /\ req'[p].pc = "announce"
      BY <1>5, MoveOn DEF RevokeTokens
    <2>2. active' = {} /\ UNCHANGED <<roles, beaten>>
      BY <1>5 DEF RevokeTokens, account
    <2>3. UnbeatenReads'
      BY <2>1, <2>2 DEF ClaimsInv, UnbeatenReads
    <2>4. QED
      BY <2>2, <2>3 DEF ClaimsInv, GoneHasNone, FreshClaims
  <1>6. CASE Announce(p)
    <2>1. /\ req[p].pc = "announce"
          /\ UNCHANGED <<account, sessions, beaten, raced, unrevoked>>
          /\ End(p)
      BY <1>6 DEF Announce
    <2>2. /\ \A q \in Procs \ {p} : req'[q] = req[q]
          /\ req'[p].pc = "idle"
      BY <2>1, LetGo
    <2>3. QED
      BY <1>0, <2>1, <2>2, ClaimsAside DEF account, sessions, GoneHasNone
  <1>7. QED
    BY <1>1, <1>2, <1>3, <1>4, <1>5, <1>6 DEF Change

LEMMA ClaimsSession ==
    ASSUME TypeOK, ClaimsInv, NEW p \in Procs, Session(p)
    PROVE  ClaimsInv'
  <1>0. /\ UnbeatenReads /\ GoneHasNone /\ FreshClaims
        /\ req \in [Procs -> Req] /\ claims \in [Rows -> SUBSET RoleNames]
        /\ minted \subseteq issued /\ active \subseteq issued
    BY DEF ClaimsInv, TypeOK
  <1>1. /\ \A q \in Procs \ {p} : req'[q] = req[q]
        /\ UNCHANGED <<exists, roles, unrevoked>>
        /\ req[p].pc # "revoke" /\ req'[p].pc # "revoke"
    BY SessionKeeps
  <1>2. NoRevocationDue' => NoRevocationDue
    BY <1>1 DEF NoRevocationDue
  <1>3. CASE BeginLogin(p)
    <2>1. /\ req'[p].read = roles /\ beaten' = beaten \ {p}
          /\ UNCHANGED <<active, minted, claims, raced>>
      BY <1>0, <1>3 DEF BeginLogin, sessions, Idle
    <2>2. UnbeatenReads'
      BY <1>0, <1>1, <2>1 DEF UnbeatenReads
    <2>3. GoneHasNone' /\ FreshClaims'
      BY <1>0, <1>1, <1>2, <2>1 DEF GoneHasNone, FreshClaims, NoRevocationDue
    <2>4. QED
      BY <2>2, <2>3 DEF ClaimsInv
  <1>4. CASE IssueLogin(p)
    <2>1. req[p].pc = "issue" /\ req'[p].pc = "idle" /\ UNCHANGED beaten
      BY <1>4, LetGo DEF IssueLogin
    <2>2. UnbeatenReads'
      BY <1>0, <1>1, <2>1 DEF UnbeatenReads
    <2>3. CASE ~exists
      BY <1>0, <1>1, <1>2, <1>4, <2>2, <2>3
      DEF IssueLogin, sessions, ClaimsInv, GoneHasNone, FreshClaims, NoRevocationDue
    <2>4. CASE exists
      <3> PICK s \in Rows \ issued :
              /\ active' = active \cup {s} /\ minted' = minted \cup {s}
              /\ claims' = [claims EXCEPT ![s] = req[p].read]
              /\ raced' = IF p \in beaten THEN raced \cup {s} ELSE raced
        BY <1>4, <2>4 DEF IssueLogin
      <3>1. p \notin beaten => claims'[s] = roles
        BY <1>0, <2>1 DEF UnbeatenReads
      <3>2. \A t \in (active \cap minted) \ raced : t # s /\ claims'[t] = claims[t]
        BY <1>0
      <3>3. FreshClaims'
        BY <1>0, <1>1, <1>2, <3>1, <3>2 DEF FreshClaims, NoRevocationDue
      <3>4. QED
        BY <1>1, <2>2, <2>4, <3>3 DEF ClaimsInv, GoneHasNone
    <2>5. QED
      BY <2>3, <2>4
  <1>5. CASE \E s \in Rows : BeginRefresh(p, s)
    <2> PICK s \in Rows : BeginRefresh(p, s)
      BY <1>5
    <2>1. req'[p].pc = "rotate"
          /\ UNCHANGED <<active, minted, claims, beaten, raced>>
      BY <1>0 DEF BeginRefresh, sessions, ghosts, Idle
    <2>2. QED
      BY <1>0, <1>1, <1>2, <2>1, ClaimsAside DEF GoneHasNone
  <1>6. CASE Rotate(p)
    <2>1. /\ req'[p].pc = "reissue" /\ active' \subseteq active
          /\ UNCHANGED <<minted, claims, beaten, raced>>
      BY <1>0, <1>6 DEF Rotate, Goto, Req, ghosts
    <2>2. QED
      BY <1>0, <1>1, <1>2, <2>1, ClaimsAside DEF GoneHasNone
  <1>7. CASE Reissue(p)
    <2>1. UNCHANGED <<minted, claims, beaten, raced>>
      BY <1>7 DEF Reissue, ghosts
    <2>2. CASE ~exists
      <3>1. req'[p].pc = "idle" /\ UNCHANGED active
        BY <1>7, <2>2, LetGo DEF Reissue
      <3>2. QED
        BY <1>0, <1>1, <1>2, <2>1, <3>1, ClaimsAside DEF GoneHasNone
    <2>3. CASE exists
      <3> PICK s \in Rows \ issued :
              /\ active' = active \cup {s}
              /\ req' = [req EXCEPT ![p] = [@ EXCEPT !.pc = "claims", !.row = s]]
        BY <1>7, <2>3 DEF Reissue
      <3>1. req'[p].pc = "claims"
        BY <1>0 DEF Req
      <3>2. UnbeatenReads'
        BY <1>0, <1>1, <2>1, <3>1 DEF UnbeatenReads
      <3>3. active' \cap minted' = active \cap minted
        BY <1>0, <2>1
      <3>4. FreshClaims'
        BY <1>0, <1>1, <1>2, <2>1, <3>3 DEF FreshClaims, NoRevocationDue
      <3>5. QED
        BY <1>1, <2>3, <3>2, <3>4 DEF ClaimsInv, GoneHasNone
    <2>4. QED
      BY <2>2, <2>3
  <1>8. CASE SignClaims(p)
    <2>1. req'[p].pc = "idle" /\ UNCHANGED <<active, beaten, raced>>
      BY <1>8, LetGo DEF SignClaims, ghosts
    <2>2. UnbeatenReads' /\ GoneHasNone'
      BY <1>0, <1>1, <2>1 DEF UnbeatenReads, GoneHasNone
    <2>3. FreshClaims'
      <3>1. CASE ~exists
        BY <1>0, <1>1, <2>1, <3>1 DEF FreshClaims, GoneHasNone
      <3>2. CASE exists
        <4>1. /\ minted' = minted \cup {req[p].row}
              /\ claims' = [claims EXCEPT ![req[p].row] = roles]
          BY <1>8, <3>2 DEF SignClaims
        <4>2. issued \subseteq Rows
          BY DEF TypeOK
        <4>3. \A t \in active : claims'[t] = IF t = req[p].row THEN roles ELSE claims[t]
          BY <1>0, <4>1, <4>2
        <4>4. QED
          BY <1>0, <1>1, <1>2, <2>1, <4>1, <4>3 DEF FreshClaims, NoRevocationDue
      <3>3. QED
        BY <3>1, <3>2
    <2>4. QED
      BY <2>2, <2>3 DEF ClaimsInv
  <1>9. QED
    BY <1>3, <1>4, <1>5, <1>6, <1>7, <1>8 DEF Session

LEMMA ClaimsStep ==
    ASSUME TypeOK, ClaimsInv, [Next]_vars
    PROVE  ClaimsInv'
  <1>1. CASE \E p \in Procs : Change(p)
    BY <1>1, ClaimsChange
  <1>2. CASE \E p \in Procs : Session(p)
    BY <1>2, ClaimsSession
  <1>3. CASE \E p \in Procs : Abort(p)
    <2> PICK p \in Procs : Abort(p)
      BY <1>3
    <2>1. /\ req'[p].pc = "idle"
          /\ \A q \in Procs \ {p} : req'[q] = req[q]
          /\ UNCHANGED <<exists, roles, active, minted, claims, beaten, raced>>
      BY AbortKeeps DEF sessions
    <2>2. NoRevocationDue' => NoRevocationDue
      BY <2>1 DEF Abort, NoRevocationDue
    <2>3. QED
      BY <2>1, <2>2, ClaimsAside DEF ClaimsInv, GoneHasNone
  <1>4. CASE DeleteAccount
    BY <1>4, ClaimsAside DEF DeleteAccount, ghosts, NoRevocationDue
  <1>5. CASE Deliveries \/ UNCHANGED vars
    BY <1>5, DeliveryKeeps, ClaimsAside
    DEF vars, account, sessions, ghosts, NoRevocationDue, ClaimsInv, GoneHasNone
  <1>6. QED
    BY <1>1, <1>2, <1>3, <1>4, <1>5, NextSplit

(* Every access token of an active session carries the account's roles, once   *)
(* the changes in flight have revoked what they had to, except for sessions of *)
(* a login that a write of the roles overtook.                               *)
THEOREM ClaimsAreFresh == Spec => []FreshClaims
  <1>1. ClaimsInv => FreshClaims
    BY DEF ClaimsInv
  <1>2. TypeOK /\ ClaimsInv /\ [Next]_vars => ClaimsInv'
    BY ClaimsStep
  <1>3. QED
    BY <1>1, <1>2, ClaimsInit, TypeCorrect, PTL DEF Spec

-----------------------------------------------------------------------------
(* The consumer.  A role that counts as heard is not being changed beside      *)
(* another change; unless its change has been written and not yet announced,   *)
(* every handler that will write has read it as it is, and the latest event    *)
(* about it, wherever that is, says how it is.                               *)

Written(p) == req[p].pc \in {"revoke", "announce"}

(* A change of r is written and not yet announced. *)
Pending(r) == \E p \in Procs : Written(p) /\ req[p].role = r

(* A change that ran beside another makes its role uncertain until a change of *)
(* that role runs alone.                                                     *)
HeardAlone == \A p \in Procs : Changing(p) /\ p \in overlapped => req[p].role \notin heard

(* The handlers have read what the array still says of such a role. *)
HeardRead == \A r \in heard : ~Pending(r) =>
    \A p \in Procs : req[p].pc \in {"define", "write"} => (r \in req[p].read <=> r \in roles)

(* An event that is the latest about its role says what the array says, *)
(* wherever it is on its way.                                           *)
Truthful(e) == e.ts = stamp[e.role] => (e.held <=> e.role \in roles)

HeardTold == \A r \in heard : ~Pending(r) =>
    Truthful(view[r]) /\ \A e \in wire : e.role = r => Truthful(e)

ConsumerInv == exists => HeardAlone /\ HeardRead /\ HeardTold

BusKept ==
    /\ UNCHANGED stamp
    /\ wire' \subseteq wire
    /\ \A r \in RoleNames : view'[r] = view[r] \/ (view'[r] \in wire /\ view'[r].role = r)

WrittenKept == \A p \in Procs : Written(p) /\ req[p].role \in heard' => req'[p] = req[p]

LEMMA ConsumerInit == Init => ConsumerInv
  <1> SUFFICES ASSUME Init PROVE ConsumerInv
    OBVIOUS
  <1>1. \A p \in Procs : req[p].pc = "idle"
    BY DEF Init, Idle
  <1>2. HeardTold
    BY DEF Init, HeardTold, Truthful
  <1>3. QED
    BY <1>1, <1>2 DEF ConsumerInv, HeardAlone, HeardRead, Changing

(* Steps that start no change and write none; they may deliver events, and     *)
(* they may cut a change off if its role no longer counts as heard.            *)
LEMMA ConsumerAside ==
    ASSUME TypeOK, ConsumerInv, ChangesKept, BusKept, WrittenKept,
           UNCHANGED <<exists, roles, overlapped>>, heard' \subseteq heard
    PROVE  ConsumerInv'
  <1> SUFFICES ASSUME exists' PROVE ConsumerInv'
    BY DEF ConsumerInv
  <1>0. HeardAlone /\ HeardRead /\ HeardTold
    BY DEF ConsumerInv
  <1>h. heard \subseteq RoleNames
    BY DEF TypeOK
  <1>1. \A r \in heard' : ~Pending(r)' => ~Pending(r)
    BY DEF Pending, Written, WrittenKept
  <1>2. HeardAlone'
    BY <1>0 DEF HeardAlone, ChangesKept
  <1>3. HeardRead'
    BY <1>0, <1>1 DEF HeardRead, ChangesKept, Changing
  <1>4. ASSUME NEW r \in heard', ~Pending(r)'
        PROVE  Truthful(view[r])' /\ \A e \in wire' : e.role = r => Truthful(e)'
    <2>1. Truthful(view[r]) /\ \A e \in wire : e.role = r => Truthful(e)
      BY <1>0, <1>1, <1>4 DEF HeardTold
    <2>2. view'[r] = view[r] \/ (view'[r] \in wire /\ view'[r].role = r)
      BY <1>4, <1>h DEF BusKept
    <2>3. QED
      BY <2>1, <2>2 DEF Truthful, BusKept
  <1>5. HeardTold'
    BY <1>4 DEF HeardTold
  <1>6. QED
    BY <1>2, <1>3, <1>5 DEF ConsumerInv

LEMMA ConsumerChange ==
    ASSUME TypeOK, SettledInv, ConsumerInv, NEW p \in Procs, Change(p)
    PROVE  ConsumerInv'
  <1> SUFFICES ASSUME exists' PROVE ConsumerInv'
    BY DEF ConsumerInv
  <1>e. UNCHANGED exists
    BY DEF Change, BeginAssign, BeginRevoke, RevokeNothing, FindRole, UpdateRoles,
           RevokeTokens, Announce, account
  <1>0. HeardAlone /\ HeardRead /\ HeardTold /\ Alone /\ AloneWrote
    BY <1>e DEF ConsumerInv, SettledInv
  <1>h. heard \subseteq RoleNames
    BY DEF TypeOK
  <1>1. CASE \E r \in RoleNames : BeginAssign(p, r) \/ BeginRevoke(p, r)
    <2> PICK r \in RoleNames : BeginAssign(p, r) \/ BeginRevoke(p, r)
      BY <1>1
    <2>1. /\ \A q \in Procs \ {p} : req'[q] = req[q]
          /\ ~Changing(p)
          /\ req'[p].pc \in {"define", "write"}
          /\ req'[p].role = r /\ req'[p].read = roles
          /\ UNCHANGED account
          /\ StartChange(p, r)
      BY BeginChange
    <2>2. UNCHANGED <<roles, bus>>
      BY <2>1 DEF BeginAssign, BeginRevoke, account
    <2>3. /\ heard' \subseteq heard
          /\ \A q \in Procs : Changing(q)' /\ q \in overlapped' => req'[q].role \notin heard'
      <3>1. CASE \A q \in Procs : ~Changing(q)
        <4>1. heard' = heard /\ p \notin overlapped'
          BY <2>1, <3>1 DEF StartChange
        <4>2. QED
          BY <2>1, <3>1, <4>1 DEF Changing
      <3>2. CASE \E q \in Procs : Changing(q)
        <4>1. heard' = heard \ ({req[q].role : q \in {q \in Procs : Changing(q)}} \cup {r})
          BY <2>1, <3>2 DEF StartChange
        <4>2. \A q \in Procs : Changing(q) => req[q].role \notin heard'
          BY <4>1
        <4>3. QED
          BY <2>1, <4>1, <4>2 DEF Changing
      <3>3. QED
        BY <3>1, <3>2
    <2>4. \A x \in heard' : ~Pending(x)' => ~Pending(x)
      BY <2>1 DEF Pending, Written, Changing
    <2>5. HeardAlone'
      BY <2>3 DEF HeardAlone
    <2>6. HeardRead'
      BY <1>0, <2>1, <2>2, <2>3, <2>4 DEF HeardRead
    <2>7. HeardTold'
      BY <1>0, <2>2, <2>3, <2>4 DEF HeardTold, Truthful, bus
    <2>8. QED
      BY <2>5, <2>6, <2>7 DEF ConsumerInv
  <1>2. CASE \E r \in RoleNames : RevokeNothing(p, r)
    <2>1. UNCHANGED <<exists, roles, bus, req, overlapped, heard>>
      BY <1>2 DEF RevokeNothing, account
    <2>2. ChangesKept /\ BusKept /\ WrittenKept
      BY <2>1 DEF ChangesKept, Changing, BusKept, WrittenKept, bus
    <2>3. QED
      BY <2>1, <2>2, ConsumerAside
  <1>3. CASE FindRole(p)
    <2>1. /\ req[p].pc = "define"
          /\ UNCHANGED <<account, bus, overlapped, heard>>
          /\ End(p) \/ Goto(p, "write")
      BY <1>3 DEF FindRole
    <2>2. CASE End(p)
      <3>1. ChangesKept
        BY <2>2, LetGo DEF ChangesKept, Changing
      <3>2. BusKept /\ WrittenKept
        BY <2>1, <2>2, LetGo DEF Written, BusKept, WrittenKept, bus
      <3>3. UNCHANGED <<exists, roles, overlapped>> /\ heard' \subseteq heard
        BY <2>1 DEF account
      <3>4. QED
        BY <3>1, <3>2, <3>3, ConsumerAside
    <2>3. CASE Goto(p, "write")
      <3>1. /\ \A q \in Procs \ {p} : req'[q] = req[q]
            /\ req'[p].pc = "write" /\ req'[p].role = req[p].role
            /\ req'[p].read = req[p].read
        BY <2>3, MoveOn
      <3>2. \A x \in heard' : ~Pending(x)' => ~Pending(x)
        BY <2>1, <3>1 DEF Pending, Written
      <3>3. HeardAlone'
        BY <1>0, <2>1, <3>1 DEF HeardAlone, Changing
      <3>4. HeardRead'
        BY <1>0, <2>1, <3>1, <3>2 DEF HeardRead, account
      <3>5. HeardTold'
        BY <1>0, <2>1, <3>2 DEF HeardTold, Truthful, bus, account
      <3>6. QED
        BY <3>3, <3>4, <3>5 DEF ConsumerInv
    <2>4. QED
      BY <2>1, <2>2, <2>3
  <1>4. CASE UpdateRoles(p)
    <2>1. /\ req[p].pc = "write" /\ Goto(p, "revoke")
          /\ roles' = Updated(p) /\ UNCHANGED <<bus, overlapped, heard>>
      BY <1>4, <1>e DEF UpdateRoles
    <2>2. /\ \A q \in Procs \ {p} : req'[q] = req[q]
          /\ req'[p].pc = "revoke" /\ req'[p].role = req[p].role
      BY <2>1, MoveOn
    <2>3. \A x \in heard' : ~Pending(x)' => ~Pending(x) /\ x # req[p].role
      BY <2>1, <2>2 DEF Pending, Written
    <2>4. \A x \in heard' : ~Pending(x)' => (x \in roles' <=> x \in roles)
      BY <1>0, <2>1, <2>3 DEF HeardRead, Updated
    <2>5. HeardAlone'
      BY <1>0, <2>1, <2>2 DEF HeardAlone, Changing
    <2>6. HeardRead'
      BY <1>0, <2>1, <2>2, <2>3, <2>4 DEF HeardRead
    <2>7. HeardTold'
      <3>1. \A e \in wire : e.role \in RoleNames
        BY DEF TypeOK, Event
      <3>2. \A x \in heard : view[x].role = x
        BY <1>h DEF TypeOK
      <3>3. QED
        BY <1>0, <2>1, <2>3, <2>4, <3>1, <3>2 DEF HeardTold, Truthful, bus
    <2>8. QED
      BY <2>5, <2>6, <2>7 DEF ConsumerInv
  <1>5. CASE RevokeTokens(p)
    <2>1. /\ req[p].pc = "revoke" /\ Goto(p, "announce")
          /\ UNCHANGED <<roles, bus, overlapped, heard>>
      BY <1>5 DEF RevokeTokens, account
    <2>2. /\ \A q \in Procs \ {p} : req'[q] = req[q]
          /\ req'[p].pc = "announce" /\ req'[p].role = req[p].role
      BY <2>1, MoveOn
    <2>3. \A x \in heard' : ~Pending(x)' => ~Pending(x)
      BY <2>1, <2>2 DEF Pending, Written
    <2>4. HeardAlone'
      BY <1>0, <2>1, <2>2 DEF HeardAlone, Changing
    <2>5. HeardRead'
      BY <1>0, <2>1, <2>2, <2>3 DEF HeardRead
    <2>6. HeardTold'
      BY <1>0, <2>1, <2>3 DEF HeardTold, Truthful, bus
    <2>7. QED
      BY <2>4, <2>5, <2>6 DEF ConsumerInv
  <1>6. CASE Announce(p)
    <2> PICK o \in RoleNames : o = req[p].role
      BY <1>6 DEF Announce, Changing, TypeOK
    <2> DEFINE f == [role |-> o, ts |-> stamp[o] + 1, held |-> (req[p].op = "assign")]
    <2>1. /\ req[p].pc = "announce" /\ End(p) /\ UNCHANGED <<roles, overlapped>>
          /\ stamp' = [stamp EXCEPT ![o] = @ + 1] /\ wire' = wire \cup {f}
          /\ heard' = (IF p \in overlapped THEN heard ELSE heard \cup {o})
          /\ view' = view
      BY <1>6 DEF Announce, SafePublish, account
    <2>2. /\ \A q \in Procs \ {p} : req'[q] = req[q]
          /\ req'[p].pc = "idle" /\ Changing(p)
      BY <2>1, LetGo DEF Changing
    <2>3. f.role = o /\ f.ts = stamp[o] + 1 /\ (f.held <=> req[p].op = "assign")
      OBVIOUS
    <2> HIDE DEF f
    <2>4. ASSUME NEW x \in heard, x # o, ~Pending(x)'
          PROVE  /\ Truthful(view[x])' /\ \A e \in wire' : e.role = x => Truthful(e)'
                 /\ ~Pending(x)
      <3>1. ~Pending(x)
        BY <2>1, <2>2, <2>4 DEF Pending, Written
      <3>2. stamp'[x] = stamp[x] /\ view[x].role = x
        BY <1>h, <2>1, <2>4 DEF TypeOK
      <3>3. QED
        BY <1>0, <2>1, <2>3, <2>4, <3>1, <3>2 DEF HeardTold, Truthful
    <2>5. CASE p \in overlapped
      <3>1. heard' = heard /\ o \notin heard
        BY <1>0, <2>1, <2>2, <2>5 DEF HeardAlone
      <3>2. HeardAlone'
        BY <1>0, <2>1, <2>2, <3>1 DEF HeardAlone, Changing
      <3>3. HeardRead'
        BY <1>0, <2>1, <2>2, <2>4, <3>1 DEF HeardRead
      <3>4. HeardTold'
        BY <2>4, <3>1 DEF HeardTold
      <3>5. QED
        BY <3>2, <3>3, <3>4 DEF ConsumerInv
    <2>6. CASE p \notin overlapped
      <3>1. \A q \in Procs : ~Changing(q)'
        BY <1>0, <2>2, <2>6 DEF Alone, Changing
      <3>2. HeardAlone' /\ HeardRead'
        BY <3>1 DEF HeardAlone, HeardRead, Changing
      <3>3. req[p].op = "assign" <=> o \in roles
        BY <1>0, <2>1, <2>6 DEF AloneWrote
      <3>4. stamp'[o] = stamp[o] + 1 /\ stamp[o] \in Nat
        BY <2>1, <2>2 DEF TypeOK
      <3>5. view[o].role = o /\ view[o].ts <= stamp[o] /\ view[o].ts \in Nat
        BY <2>2 DEF TypeOK, Event
      <3>6. Truthful(view[o])'
        <4>1. view'[o].role = o /\ view'[o].ts # stamp'[o]
          BY <2>1, <3>4, <3>5
        <4>2. QED
          BY <4>1 DEF Truthful
      <3>7. ASSUME NEW e \in wire', e.role = o PROVE Truthful(e)'
        <4>1. CASE e = f
          BY <2>1, <2>3, <3>3, <4>1 DEF Truthful
        <4>2. CASE e \in wire
          <5>1. e.ts <= stamp[o] /\ e.ts \in Nat
            BY <3>7, <4>2 DEF TypeOK, Event
          <5>2. e.ts # stamp'[o]
            BY <3>4, <5>1
          <5>3. QED
            BY <3>7, <5>2 DEF Truthful
        <4>3. QED
          BY <2>1, <4>1, <4>2
      <3>8. HeardTold'
        BY <2>1, <2>4, <3>6, <3>7 DEF HeardTold
      <3>9. QED
        BY <3>2, <3>8 DEF ConsumerInv
    <2>7. QED
      BY <2>5, <2>6
  <1>7. QED
    BY <1>1, <1>2, <1>3, <1>4, <1>5, <1>6 DEF Change

LEMMA ConsumerStep ==
    ASSUME TypeOK, SettledInv, ConsumerInv, [Next]_vars
    PROVE  ConsumerInv'
  <1>1. CASE \E p \in Procs : Change(p)
    BY <1>1, ConsumerChange
  <1>2. CASE \E p \in Procs : Session(p)
    <2> PICK p \in Procs : Session(p)
      BY <1>2
    <2>1. /\ ChangesKept
          /\ UNCHANGED <<exists, roles, bus, overlapped, heard>>
          /\ ~Written(p)
          /\ \A q \in Procs \ {p} : req'[q] = req[q]
      BY SessionKeeps DEF Written
    <2>2. BusKept /\ WrittenKept
      BY <2>1 DEF BusKept, WrittenKept, bus
    <2>3. QED
      BY <2>1, <2>2, ConsumerAside
  <1>3. CASE \E p \in Procs : Abort(p)
    <2> PICK p \in Procs : Abort(p)
      BY <1>3
    <2>1. /\ ChangesKept /\ UNCHANGED <<exists, roles, bus, overlapped>>
          /\ \A q \in Procs \ {p} : req'[q] = req[q]
      BY AbortKeeps
    <2>2. heard' \subseteq heard /\ (Written(p) => req[p].role \notin heard')
      BY DEF Abort, Written
    <2>3. BusKept /\ WrittenKept
      BY <2>1, <2>2 DEF BusKept, WrittenKept, bus
    <2>4. QED
      BY <2>1, <2>2, <2>3, ConsumerAside
  <1>4. CASE DeleteAccount
    BY <1>4 DEF DeleteAccount, ConsumerInv
  <1>5. CASE Deliveries
    <2> PICK e \in wire : Deliver(e) \/ Lose(e)
      BY <1>5 DEF Deliveries
    <2>1. /\ wire' \subseteq wire
          /\ view' = view \/ view' = [view EXCEPT ![e.role] = e]
      BY DEF Deliver, Lose
    <2>2. \A r \in RoleNames : view'[r] = view[r] \/ (view'[r] \in wire /\ view'[r].role = r)
      BY <2>1 DEF TypeOK
    <2>3. UNCHANGED <<account, stamp, req, ghosts>>
      BY <1>5, DeliveryKeeps
    <2>4. BusKept
      BY <2>1, <2>2, <2>3 DEF BusKept
    <2>5. /\ UNCHANGED <<exists, roles, overlapped, heard>>
          /\ ChangesKept /\ WrittenKept
      BY <2>3 DEF account, ghosts, ChangesKept, Changing, WrittenKept
    <2>6. QED
      BY <2>4, <2>5, ConsumerAside
  <1>6. CASE UNCHANGED vars
    <2>1. /\ UNCHANGED <<exists, roles, overlapped, heard>>
          /\ ChangesKept /\ WrittenKept /\ BusKept
      BY <1>6 DEF vars, account, bus, ghosts, ChangesKept, Changing, WrittenKept, BusKept
    <2>2. QED
      BY <2>1, ConsumerAside
  <1>7. QED
    BY <1>1, <1>2, <1>3, <1>4, <1>5, <1>6, NextSplit

(* A consumer that has the latest event about a role agrees with the account,  *)
(* in whatever order the events of any number of instances arrive and however  *)
(* many are lost, unless the last change of the role ran beside another or was  *)
(* cut off from its event.                                                   *)
THEOREM ConsumersAgree == Spec => []ConsumerAgrees
  <1>1. TypeOK /\ ConsumerInv => ConsumerAgrees
    BY DEF TypeOK, ConsumerInv, HeardTold, Truthful, Pending, Written, ConsumerAgrees
  <1>2. TypeOK /\ SettledInv /\ ConsumerInv /\ [Next]_vars => ConsumerInv'
    BY ConsumerStep
  <1>3. QED
    BY <1>1, <1>2, ConsumerInit, TypeCorrect, SettledAlways, PTL DEF Spec
=============================================================================
