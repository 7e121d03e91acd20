---------------------------- MODULE RequestsProofs ----------------------------
(***************************************************************************)
(* Proofs about Requests, for any requests, addresses and faults.            *)
(***************************************************************************)
EXTENDS Requests, TLAPS

-----------------------------------------------------------------------------
(* Addresses and answers *)

LEMMA LowerFacts ==
    \A e \in Email : Lower(e) \in Email /\ Lower(Lower(e)) = Lower(e)
  BY DEF Lower, Email

LEMMA AnswerFacts ==
    /\ None.status = 0 /\ Created.status = 201 /\ RequestTimeout.status = 408
    /\ ApiKeyMissing.status = 401 /\ ValidationFailed.status = 400
    /\ Conflict.status = 409 /\ ConnectionReset.status = 0
    /\ ConnectionReset # None
    /\ QueryFailed("unique").status = 409 /\ QueryFailed("none").status = 500
    /\ QueryFailed("foreign key") = QueryFailed("none")
  BY DEF None, Created, RequestTimeout, ApiKeyMissing, ValidationFailed, Conflict,
         ConnectionReset, QueryFailed, Response

-----------------------------------------------------------------------------
(* What a step leaves of the handlers and of the answers. *)

Pcs == {"unsent", "check", "insert", "issue", "enforce", "audit", "probe", "done"}

ReqOK == req \in [Reqs -> [pc : Pcs, email : Email]]

Others(r) == \A q \in Reqs \ {r} : req'[q] = req[q]

AnswersOK == answer \in [Reqs -> Answers]

(* The answer of r is a, unless it has one. *)
Answered(r, a) ==
    /\ \A q \in Reqs \ {r} : answer'[q] = answer[q]
    /\ answer[r] = None => answer'[r] = a
    /\ answer[r] # None => answer'[r] = answer[r]

LEMMA Moved ==
    ASSUME ReqOK, NEW r \in Reqs, NEW pc \in Pcs, Goto(r, pc)
    PROVE  /\ ReqOK' /\ Others(r)
           /\ req'[r].pc = pc /\ req'[r].email = req[r].email
  <1> DEFINE h == [req[r] EXCEPT !.pc = pc]
  <1>1. h \in [pc : Pcs, email : Email] /\ h.pc = pc /\ h.email = req[r].email
    BY DEF ReqOK
  <1>2. req' = [req EXCEPT ![r] = h]
    BY DEF Goto
  <1> HIDE DEF h
  <1>3. QED
    BY <1>1, <1>2 DEF ReqOK, Others

LEMMA Replied ==
    ASSUME ReqOK, AnswersOK, NEW r \in Reqs, NEW a \in Answers, Reply(r, a)
    PROVE  /\ ReqOK' /\ Others(r)
           /\ req'[r].pc = "done" /\ req'[r].email = req[r].email
           /\ AnswersOK' /\ Answered(r, a)
  <1>1. Goto(r, "done")
    BY DEF Reply
  <1>2. /\ ReqOK' /\ Others(r)
        /\ req'[r].pc = "done" /\ req'[r].email = req[r].email
    BY <1>1, Moved DEF Pcs
  <1>3. answer' = [answer EXCEPT ![r] = IF answer[r] = None THEN a ELSE answer[r]]
    BY DEF Reply
  <1>4. AnswersOK' /\ Answered(r, a)
    BY <1>3 DEF AnswersOK, Answered
  <1>5. QED
    BY <1>2, <1>4

(* The answers of a handler that ends early. *)
Early == {ApiKeyMissing, ValidationFailed, Conflict, QueryFailed("unique"),
          QueryFailed("none"), ConnectionReset}

LEMMA NoneIsNoAnswer ==
    /\ \A a \in Early : a # None
    /\ Created # None /\ RequestTimeout # None
    /\ \A code : Response(200, code) # None
  BY DEF Early, None, Created, RequestTimeout, ApiKeyMissing, ValidationFailed, Conflict,
         ConnectionReset, QueryFailed, Response

LEMMA NotCreated ==
    /\ Created # None /\ Created # RequestTimeout
    /\ \A a \in Early : a # Created
    /\ RequestTimeout # Created /\ None # Created
    /\ \A code : Response(200, code) # Created
  BY DEF Early, None, Created, RequestTimeout, ApiKeyMissing, ValidationFailed, Conflict,
         ConnectionReset, QueryFailed, Response

(* What every step does: a handler ends early, with what it found; ...        *)
Cause(r, a) ==
    \/ req[r].pc = "unsent" /\ a \in {ApiKeyMissing, ValidationFailed}
    \/ req[r].pc = "check" /\ a = Conflict /\ \E u \in users : Holds(u, req[r].email)
    \/ req[r].pc = "insert" /\ a = QueryFailed("unique")
       /\ \E u \in users : u.email = req[r].email
    \/ req[r].pc = "issue" /\ a = QueryFailed("none") /\ ~Exists(r)
    \/ /\ AtWork(r) /\ a \in {QueryFailed("none"), ConnectionReset}
       /\ BeforePublish(r) => r \in cut'

Ends(r, a) ==
    /\ Reply(r, a) /\ Cause(r, a)
    /\ cut' = cut \/ (BeforePublish(r) /\ cut' = cut \cup {r})
    /\ faults' = faults \/ (faults < MaxFaults /\ faults' = faults + 1)
    /\ UNCHANGED <<database, announced, links, probes, inserted, holders, window>>

(* ... or goes on: *)
Looks(r) ==
    /\ req[r].pc = "check" /\ \A u \in users : ~Holds(u, req[r].email)
    /\ Goto(r, "insert")
    /\ UNCHANGED <<database, announced, links, probes, answer, faults, ghosts>>

Inserts(r) ==
    LET e == req[r].email IN
    /\ req[r].pc = "insert" /\ \A u \in users : u.email # e
    /\ users' = users \cup {[id |-> r, email |-> e]}
    /\ inserted' = inserted \cup {r}
    /\ holders' = [q \in Reqs |-> IF AtWork(q) /\ q # r /\ Lower(req[q].email) = Lower(e)
                                  THEN holders[q] \cup {r} ELSE holders[q]]
    /\ Goto(r, "issue")
    /\ UNCHANGED <<sessions, audited, announced, links, probes, answer, faults, cut, window>>

Issues(r) ==
    /\ req[r].pc = "issue" /\ Exists(r)
    /\ sessions' = sessions \cup {r}
    /\ Goto(r, "enforce")
    /\ UNCHANGED <<users, audited, announced, links, probes, answer, faults, ghosts>>

LEMMA NextSplit ==
    ASSUME [Next]_vars
    PROVE  \/ \E r \in Reqs : \E a \in Early : Ends(r, a)
           \/ \E r \in Reqs, e \in Email : Register(r, e)
           \/ \E r \in Reqs : Looks(r)
           \/ \E r \in Reqs : Inserts(r)
           \/ \E r \in Reqs : Issues(r)
           \/ \E r \in Reqs : PublishUserCreated(r)
           \/ \E r \in Reqs : CreateAuditLog(r)
           \/ \E r \in Reqs : Ready(r)
           \/ \E r \in Reqs, d \in Deps : Probe(r, d)
           \/ \E r \in Reqs : TimesOut(r)
           \/ Outage
           \/ \E u \in users : DeleteCredentials(u)
           \/ UNCHANGED vars
  <1>1. ASSUME NEW r \in Reqs, RefuseKey(r) PROVE Ends(r, ApiKeyMissing)
    BY <1>1 DEF RefuseKey, Ends, Cause, database, ghosts
  <1>2. ASSUME NEW r \in Reqs, RefuseBody(r) PROVE Ends(r, ValidationFailed)
    BY <1>2 DEF RefuseBody, Ends, Cause, database, ghosts
  <1>3. ASSUME NEW r \in Reqs, FindByEmail(r) PROVE Ends(r, Conflict) \/ Looks(r)
    BY <1>3 DEF FindByEmail, Ends, Cause, Looks, database, ghosts
  <1>4. ASSUME NEW r \in Reqs, CreateCredential(r)
        PROVE  Ends(r, QueryFailed("unique")) \/ Inserts(r)
    BY <1>4 DEF CreateCredential, Ends, Cause, Inserts, database, ghosts
  <1>5. ASSUME NEW r \in Reqs, GenerateRefreshToken(r)
        PROVE  Ends(r, QueryFailed("none")) \/ Issues(r)
    BY <1>5, AnswerFacts DEF GenerateRefreshToken, Ends, Cause, Issues, database, ghosts
  <1>6. ASSUME NEW r \in Reqs, StatementFails(r) PROVE Ends(r, QueryFailed("none"))
    <2>1. AtWork(r)
      BY <1>6 DEF StatementFails, AtWork
    <2>2. QED
      BY <1>6, <2>1 DEF StatementFails, Ends, Cause, database, ghosts
  <1>7. ASSUME NEW r \in Reqs, Dies(r) PROVE Ends(r, ConnectionReset)
    BY <1>7 DEF Dies, Ends, Cause, database, ghosts
  <1>8. QED
    BY <1>1, <1>2, <1>3, <1>4, <1>5, <1>6, <1>7
       DEF Next, Registration, HealthCheck, Early

(* The handler that moved, in each of these. *)
LEMMA EndMoves ==
    ASSUME ReqOK, AnswersOK, NEW r \in Reqs, NEW a \in Early, Ends(r, a)
    PROVE  /\ ReqOK' /\ Others(r)
           /\ req'[r].pc = "done" /\ req'[r].email = req[r].email
           /\ AnswersOK' /\ Answered(r, a)
           /\ AtWork(r) \/ req[r].pc = "unsent"
  <1>1. a \in Answers
    BY DEF Early, Answers
  <1>2. AtWork(r) \/ req[r].pc = "unsent"
    BY DEF Ends, Cause, AtWork
  <1>3. Reply(r, a)
    BY DEF Ends
  <1>4. QED
    BY <1>1, <1>2, <1>3, Replied

LEMMA RegisterMoves ==
    ASSUME ReqOK, NEW r \in Reqs, NEW e \in Email, Register(r, e)
    PROVE  /\ ReqOK' /\ Others(r) /\ req[r].pc = "unsent"
           /\ req'[r].pc = "check" /\ req'[r].email = Lower(e)
  <1> DEFINE h == [pc |-> "check", email |-> Lower(e)]
  <1>1. h \in [pc : Pcs, email : Email] /\ h.pc = "check" /\ h.email = Lower(e)
    BY LowerFacts DEF Pcs
  <1>2. req' = [req EXCEPT ![r] = h]
    BY DEF Register, Transform
  <1> HIDE DEF h
  <1>3. QED
    BY <1>1, <1>2 DEF ReqOK, Others, Register

Health == {Response(200, s) : s \in {"healthy", "degraded", "unhealthy"}}

LEMMA ProbeMoves ==
    ASSUME ReqOK, AnswersOK, NEW r \in Reqs, NEW d \in Deps, Probe(r, d),
           NEW found, found = [probes[r] EXCEPT ![d] = Now(d)]
    PROVE  /\ ReqOK' /\ AnswersOK' /\ req[r].pc = "probe" /\ Others(r)
           /\ req'[r].email = req[r].email
           /\ \/ UNCHANGED <<req, answer>>
              \/ /\ \A x \in Deps : found[x] # "pending"
                 /\ req'[r].pc = "done" /\ Answered(r, Response(200, Aggregate(found)))
                 /\ Response(200, Aggregate(found)) \in Health
  <1>1. CASE UNCHANGED <<req, answer>>
    BY <1>1 DEF Probe, ReqOK, AnswersOK, Others
  <1>2. CASE ~UNCHANGED <<req, answer>>
    <2> DEFINE a == Response(200, Aggregate(found))
    <2>1. Reply(r, a) /\ \A x \in Deps : found[x] # "pending"
      BY <1>2 DEF Probe
    <2>2. Aggregate(found) \in {"healthy", "degraded", "unhealthy"}
      BY DEF Aggregate
    <2>3. a \in Health /\ a \in Answers
      BY <2>2 DEF Health, Answers
    <2> HIDE DEF a
    <2>4. /\ ReqOK' /\ Others(r)
          /\ req'[r].pc = "done" /\ req'[r].email = req[r].email
          /\ AnswersOK' /\ Answered(r, a)
      BY <2>1, <2>3, Replied
    <2>5. QED
      BY <2>1, <2>3, <2>4 DEF a, Probe
  <1>3. QED
    BY <1>1, <1>2

LEMMA AuditMoves ==
    ASSUME ReqOK, AnswersOK, NEW r \in Reqs, CreateAuditLog(r)
    PROVE  /\ ReqOK' /\ Others(r) /\ req[r].pc = "audit"
           /\ req'[r].pc = "done" /\ req'[r].email = req[r].email
           /\ AnswersOK' /\ Answered(r, Created)
  <1>1. Created \in Answers
    BY DEF Answers
  <1>2. QED
    BY <1>1, Replied DEF CreateAuditLog

LEMMA TimeoutMoves ==
    ASSUME AnswersOK, NEW r \in Reqs, TimesOut(r)
    PROVE  AnswersOK' /\ Answered(r, RequestTimeout) /\ answer[r] = None /\ UNCHANGED req
  <1>1. RequestTimeout \in Answers
    BY DEF Answers
  <1>2. answer' = [answer EXCEPT ![r] = RequestTimeout] /\ answer[r] = None
    BY DEF TimesOut
  <1>3. QED
    BY <1>1, <1>2 DEF TimesOut, AnswersOK, Answered

(* The statements after which the handler goes on. *)
StepsTo(r, from, to) ==
    /\ ReqOK' /\ Others(r) /\ req[r].pc = from
    /\ req'[r].pc = to /\ req'[r].email = req[r].email
    /\ UNCHANGED answer

LEMMA GoesOn ==
    ASSUME ReqOK, NEW r \in Reqs
    PROVE  /\ Looks(r) => StepsTo(r, "check", "insert")
           /\ Inserts(r) => StepsTo(r, "insert", "issue")
           /\ Issues(r) => StepsTo(r, "issue", "enforce")
           /\ PublishUserCreated(r) => StepsTo(r, "enforce", "audit")
           /\ Ready(r) => StepsTo(r, "unsent", "probe")
  <1>1. Looks(r) => StepsTo(r, "check", "insert")
    BY Moved DEF Looks, StepsTo, Pcs
  <1>2. Inserts(r) => StepsTo(r, "insert", "issue")
    BY Moved DEF Inserts, StepsTo, Pcs
  <1>3. Issues(r) => StepsTo(r, "issue", "enforce")
    BY Moved DEF Issues, StepsTo, Pcs
  <1>4. PublishUserCreated(r) => StepsTo(r, "enforce", "audit")
    BY Moved DEF PublishUserCreated, StepsTo, Pcs
  <1>5. Ready(r) => StepsTo(r, "unsent", "probe")
    BY Moved DEF Ready, StepsTo, Pcs
  <1>6. QED
    BY <1>1, <1>2, <1>3, <1>4, <1>5

LEMMA OutageWatched ==
    ASSUME Outage
    PROVE  Watch /\ UNCHANGED <<database, announced, req, probes, answer, inserted, holders, cut>>
  BY DEF Outage, GoesDown, ComesBack, Disconnects, Reconnects

LEMMA HandlersRest ==
    ASSUME \/ Outage
           \/ \E u \in users : DeleteCredentials(u)
           \/ UNCHANGED vars
    PROVE  UNCHANGED <<req, answer, announced, inserted, holders, probes>>
  BY OutageWatched DEF DeleteCredentials, vars, ghosts

-----------------------------------------------------------------------------
(* How far a handler is.  Only a handler that is over has an answer, other     *)
(* than that of the time limit.                                              *)
Stage(r) ==
    /\ req[r].pc \in {"unsent", "check", "insert", "probe"} => r \notin inserted
    /\ req[r].pc \in {"issue", "enforce", "audit"} => r \in inserted
    /\ req[r].pc = "audit" => r \in announced
    /\ req[r].pc = "done" => answer[r] # None
    /\ answer[r] # None /\ answer[r] # RequestTimeout => req[r].pc = "done"
    /\ req[r].email = Lower(req[r].email)

HandlersOK == ReqOK /\ AnswersOK /\ \A r \in Reqs : Stage(r)

LEMMA StageFrame ==
    ASSUME HandlersOK, NEW r \in Reqs, Others(r), ReqOK', AnswersOK',
           \A q \in Reqs \ {r} : answer'[q] = answer[q],
           inserted' = inserted \/ inserted' = inserted \cup {r},
           announced \subseteq announced', Stage(r)'
    PROVE  HandlersOK'
  <1>1. ASSUME NEW q \in Reqs \ {r} PROVE Stage(q)'
    <2>1. req'[q] = req[q] /\ answer'[q] = answer[q] /\ Stage(q)
      BY DEF Others, HandlersOK
    <2>2. QED
      BY <2>1 DEF Stage
  <1>2. \A q \in Reqs : Stage(q)'
    BY <1>1
  <1>3. QED
    BY <1>2 DEF HandlersOK

LEMMA StageKept ==
    ASSUME HandlersOK, [Next]_vars
    PROVE  HandlersOK'
  <1> USE DEF HandlersOK
  <1>1. ASSUME NEW r \in Reqs, NEW a \in Early, Ends(r, a)
        PROVE  HandlersOK'
    <2>1. a # None
      BY NoneIsNoAnswer
    <2>2. Stage(r)'
      BY <1>1, <2>1, EndMoves DEF Stage, Answered
    <2>3. QED
      BY <1>1, <2>2, EndMoves, StageFrame DEF Ends, Answered
  <1>2. ASSUME NEW r \in Reqs, NEW e \in Email, Register(r, e)
        PROVE  HandlersOK'
    <2>1. UNCHANGED <<answer, inserted, announced>>
      BY <1>2 DEF Register
    <2>2. Stage(r)'
      BY <1>2, <2>1, RegisterMoves, LowerFacts DEF Stage
    <2>3. QED
      BY <1>2, <2>1, <2>2, RegisterMoves, StageFrame DEF AnswersOK
  <1>3. ASSUME NEW r \in Reqs, Looks(r)
        PROVE  HandlersOK'
    <2>1. StepsTo(r, "check", "insert") /\ UNCHANGED <<inserted, announced>>
      BY <1>3, GoesOn DEF Looks, ghosts
    <2>2. Stage(r)'
      BY <2>1 DEF Stage, StepsTo
    <2>3. QED
      BY <2>1, <2>2, StageFrame DEF AnswersOK, StepsTo
  <1>4. ASSUME NEW r \in Reqs, Inserts(r)
        PROVE  HandlersOK'
    <2>1. StepsTo(r, "insert", "issue") /\ UNCHANGED announced /\ inserted' = inserted \cup {r}
      BY <1>4, GoesOn DEF Inserts
    <2>2. Stage(r)'
      BY <2>1 DEF Stage, StepsTo
    <2>3. QED
      BY <2>1, <2>2, StageFrame DEF AnswersOK, StepsTo
  <1>5. ASSUME NEW r \in Reqs, Issues(r)
        PROVE  HandlersOK'
    <2>1. StepsTo(r, "issue", "enforce") /\ UNCHANGED <<inserted, announced>>
      BY <1>5, GoesOn DEF Issues, ghosts
    <2>2. Stage(r)'
      BY <2>1 DEF Stage, StepsTo
    <2>3. QED
      BY <2>1, <2>2, StageFrame DEF AnswersOK, StepsTo
  <1>6. ASSUME NEW r \in Reqs, PublishUserCreated(r)
        PROVE  HandlersOK'
    <2>1. /\ StepsTo(r, "enforce", "audit")
          /\ UNCHANGED inserted /\ announced' = announced \cup {r}
      BY <1>6, GoesOn DEF PublishUserCreated, ghosts
    <2>2. Stage(r)'
      BY <2>1 DEF Stage, StepsTo
    <2>3. QED
      BY <2>1, <2>2, StageFrame DEF AnswersOK, StepsTo
  <1>7. ASSUME NEW r \in Reqs, CreateAuditLog(r)
        PROVE  HandlersOK'
    <2>1. UNCHANGED <<inserted, announced>>
      BY <1>7 DEF CreateAuditLog, ghosts
    <2>2. Stage(r)'
      BY <1>7, <2>1, AuditMoves, NoneIsNoAnswer DEF Stage, Answered
    <2>3. QED
      BY <1>7, <2>1, <2>2, AuditMoves, StageFrame DEF Answered
  <1>8. ASSUME NEW r \in Reqs, Ready(r)
        PROVE  HandlersOK'
    <2>1. StepsTo(r, "unsent", "probe") /\ UNCHANGED <<inserted, announced>>
      BY <1>8, GoesOn DEF Ready
    <2>2. Stage(r)'
      BY <2>1 DEF Stage, StepsTo
    <2>3. QED
      BY <2>1, <2>2, StageFrame DEF AnswersOK, StepsTo
  <1>9. ASSUME NEW r \in Reqs, NEW d \in Deps, Probe(r, d)
        PROVE  HandlersOK'
    <2> DEFINE found == [probes[r] EXCEPT ![d] = Now(d)]
               a == Response(200, Aggregate(found))
    <2>1. UNCHANGED <<inserted, announced>>
      BY <1>9 DEF Probe, ghosts
    <2>2. /\ ReqOK' /\ AnswersOK' /\ req[r].pc = "probe" /\ Others(r)
          /\ req'[r].email = req[r].email
          /\ \/ UNCHANGED <<req, answer>>
             \/ req'[r].pc = "done" /\ Answered(r, a)
      BY <1>9, ProbeMoves
    <2>3. a # None
      BY NoneIsNoAnswer
    <2> HIDE DEF a, found
    <2>4. Stage(r)'
      BY <2>1, <2>2, <2>3 DEF Stage, Answered
    <2>5. QED
      BY <2>1, <2>2, <2>4, StageFrame DEF Answered
  <1>10. ASSUME NEW r \in Reqs, TimesOut(r)
         PROVE  HandlersOK'
    <2>1. UNCHANGED <<req, inserted, announced>>
      BY <1>10 DEF TimesOut, ghosts
    <2>2. Stage(r)'
      BY <1>10, <2>1, TimeoutMoves, NoneIsNoAnswer DEF Stage, Answered
    <2>3. QED
      BY <1>10, <2>1, <2>2, TimeoutMoves, StageFrame DEF Answered, ReqOK, Others
  <1>11. CASE UNCHANGED <<req, answer, announced, inserted, holders, probes>>
    BY <1>11 DEF ReqOK, AnswersOK, Stage
  <1>12. QED
    BY <1>1, <1>2, <1>3, <1>4, <1>5, <1>6, <1>7, <1>8, <1>9, <1>10, <1>11, NextSplit, HandlersRest

-----------------------------------------------------------------------------
(* The accounts.  Their addresses are stored in lower case, so that the unique *)
(* index, which compares spellings, keeps one account for an address.          *)
RowsOK ==
    /\ users \subseteq [id : Reqs, email : Email]
    /\ \A u \in users : u.id \in inserted /\ u.email = Lower(u.email)
    /\ \A u, v \in users : u.id = v.id \/ u.email = v.email => u = v

LEMMA RowsKept ==
    ASSUME HandlersOK, RowsOK, [Next]_vars
    PROVE  RowsOK'
  <1>1. ASSUME NEW r \in Reqs, Inserts(r)
        PROVE  RowsOK'
    <2> DEFINE n == [id |-> r, email |-> req[r].email]
    <2>1. /\ n \in [id : Reqs, email : Email] /\ n.id = r /\ n.email = req[r].email
      BY DEF HandlersOK, ReqOK
    <2>2. /\ users' = users \cup {n} /\ inserted' = inserted \cup {r}
          /\ \A u \in users : u.email # n.email
      BY <1>1 DEF Inserts
    <2>3. r \notin inserted /\ n.email = Lower(n.email)
      BY <1>1, <2>1 DEF Inserts, HandlersOK, Stage
    <2> HIDE DEF n
    <2>4. \A u \in users : u.id # n.id
      BY <2>1, <2>3 DEF RowsOK
    <2>5. users' \subseteq [id : Reqs, email : Email]
      BY <2>1, <2>2 DEF RowsOK
    <2>6. \A u \in users' : u.id \in inserted' /\ u.email = Lower(u.email)
      BY <2>1, <2>2, <2>3 DEF RowsOK
    <2>7. \A u, v \in users' : u.id = v.id \/ u.email = v.email => u = v
      BY <2>2, <2>4 DEF RowsOK
    <2>8. QED
      BY <2>5, <2>6, <2>7 DEF RowsOK
  <1>2. ASSUME users' \subseteq users, inserted' = inserted
        PROVE  RowsOK'
    BY <1>2 DEF RowsOK
  <1>3. ASSUME NEW r \in Reqs, NEW a \in Early, Ends(r, a) PROVE RowsOK'
    BY <1>2, <1>3 DEF Ends, database
  <1>4. ASSUME NEW r \in Reqs,
               \/ \E e \in Email : Register(r, e)
               \/ \E d \in Deps : Probe(r, d)
               \/ Looks(r) \/ Issues(r) \/ PublishUserCreated(r) \/ CreateAuditLog(r)
               \/ Ready(r) \/ TimesOut(r)
        PROVE  RowsOK'
    BY <1>2, <1>4 DEF Register, Probe, Looks, Issues, PublishUserCreated, CreateAuditLog, Ready,
                      TimesOut, database, ghosts
  <1>5. CASE Outage
    BY <1>2, <1>5, OutageWatched DEF database
  <1>6. CASE \E u \in users : DeleteCredentials(u)
    BY <1>2, <1>6 DEF DeleteCredentials, ghosts
  <1>7. CASE UNCHANGED vars
    BY <1>2, <1>7 DEF vars, database, ghosts
  <1>8. QED
    BY <1>1, <1>3, <1>4, <1>5, <1>6, <1>7, NextSplit

(* What an account has, and what is left of one that is gone. *)
RecordsOK ==
    /\ \A r \in sessions : Exists(r)
    /\ announced \subseteq inserted /\ audited \subseteq announced
    /\ inserted \subseteq Reqs /\ cut \subseteq inserted

LEMMA RecordsKept ==
    ASSUME HandlersOK, RowsOK, RecordsOK, [Next]_vars
    PROVE  RecordsOK'
  <1>1. ASSUME NEW r \in Reqs, NEW a \in Early, Ends(r, a)
        PROVE  RecordsOK'
    <2>1. BeforePublish(r) => r \in inserted
      BY DEF BeforePublish, HandlersOK, Stage
    <2>2. cut' \subseteq inserted
      BY <1>1, <2>1 DEF Ends, RecordsOK
    <2>3. QED
      BY <1>1, <2>2 DEF Ends, database, RecordsOK, Exists
  <1>2. ASSUME NEW r \in Reqs, Inserts(r)
        PROVE  RecordsOK'
    BY <1>2 DEF Inserts, RecordsOK, Exists
  <1>3. ASSUME NEW r \in Reqs, Issues(r)
        PROVE  RecordsOK'
    BY <1>3 DEF Issues, ghosts, RecordsOK, Exists
  <1>4. ASSUME NEW r \in Reqs, PublishUserCreated(r)
        PROVE  RecordsOK'
    <2>1. r \in inserted
      BY <1>4 DEF PublishUserCreated, HandlersOK, Stage
    <2>2. QED
      BY <1>4, <2>1 DEF PublishUserCreated, database, ghosts, RecordsOK, Exists
  <1>5. ASSUME NEW r \in Reqs, CreateAuditLog(r)
        PROVE  RecordsOK'
    <2>1. r \in announced
      BY <1>5 DEF CreateAuditLog, HandlersOK, Stage
    <2>2. QED
      BY <1>5, <2>1 DEF CreateAuditLog, ghosts, RecordsOK, Exists
  <1>6. ASSUME NEW d \in users, DeleteCredentials(d)
        PROVE  RecordsOK'
    <2>1. users' = users \ {d} /\ sessions' = sessions \ {d.id}
      BY <1>6 DEF DeleteCredentials
    <2>2. ASSUME NEW r \in sessions' PROVE Exists(r)'
      <3>1. PICK u \in users : u.id = r
        BY <2>1, <2>2 DEF RecordsOK, Exists
      <3>2. u \in users'
        BY <2>1, <2>2, <3>1
      <3>3. QED
        BY <3>1, <3>2 DEF Exists
    <2>3. QED
      BY <1>6, <2>2 DEF DeleteCredentials, ghosts, RecordsOK
  <1>7. ASSUME UNCHANGED <<users, sessions, audited, announced, inserted, cut>>
        PROVE  RecordsOK'
    BY <1>7 DEF RecordsOK, Exists
  <1>8. ASSUME NEW r \in Reqs,
               \/ \E e \in Email : Register(r, e)
               \/ \E d \in Deps : Probe(r, d)
               \/ Looks(r) \/ Ready(r) \/ TimesOut(r)
        PROVE  RecordsOK'
    BY <1>7, <1>8 DEF Register, Probe, Looks, Ready, TimesOut, database, ghosts
  <1>9. CASE Outage
    BY <1>7, <1>9, OutageWatched DEF database
  <1>10. CASE UNCHANGED vars
    BY <1>7, <1>10 DEF vars, database, ghosts
  <1>11. QED
    BY <1>1, <1>2, <1>3, <1>4, <1>5, <1>6, <1>8, <1>9, <1>10, NextSplit

(* The dependencies, and what is noted of them and of the accounts. *)
LinksOK == up \in [Deps -> BOOLEAN] /\ connected \in BOOLEAN

NotesOK ==
    /\ LinksOK
    /\ probes \in [Reqs -> [Deps -> {"pending", "up", "down"}]]
    /\ faults \in 0..MaxFaults
    /\ holders \in [Reqs -> SUBSET inserted]
    /\ window \in [Reqs -> [Deps -> SUBSET {"up", "down"}]]

LEMMA NowType == \A d : Now(d) \in {"up", "down"}
  BY DEF Now

LEMMA WatchedType ==
    ASSUME NotesOK, Watch
    PROVE  window' \in [Reqs -> [Deps -> SUBSET {"up", "down"}]]
  <1>1. ASSUME NEW r \in Reqs
        PROVE  [d \in Deps |-> window[r][d] \cup {Now(d)'}] \in [Deps -> SUBSET {"up", "down"}]
    BY DEF NotesOK, Now
  <1>2. QED
    BY <1>1 DEF Watch, NotesOK

LEMMA LinksRest == ASSUME LinksOK, UNCHANGED links PROVE LinksOK'
  BY DEF LinksOK, links

LEMMA LinksKept == ASSUME LinksOK, Outage PROVE LinksOK'
  <1>1. ASSUME NEW d \in Deps, GoesDown(d) \/ ComesBack(d) PROVE LinksOK'
    BY <1>1 DEF GoesDown, ComesBack, LinksOK
  <1>2. CASE Disconnects \/ Reconnects
    BY <1>2 DEF Disconnects, Reconnects, LinksOK
  <1>3. QED
    BY <1>1, <1>2 DEF Outage

LEMMA NotesKept ==
    ASSUME RowsOK, NotesOK, [Next]_vars
    PROVE  NotesOK'
  <1>1. ASSUME UNCHANGED <<links, probes, holders, inserted, window>>,
               faults' = faults \/ (faults < MaxFaults /\ faults' = faults + 1)
        PROVE  NotesOK'
    BY <1>1, LinksRest, RequestsAssumption DEF NotesOK
  <1>2. ASSUME NEW r \in Reqs, NEW a \in Early, Ends(r, a) PROVE NotesOK'
    BY <1>1, <1>2 DEF Ends
  <1>3. ASSUME NEW r \in Reqs, NEW e \in Email, Register(r, e) PROVE NotesOK'
    <2>1. {u.id : u \in {v \in users : Holds(v, e)}} \in SUBSET inserted
      BY DEF RowsOK
    <2>2. QED
      BY <1>3, <2>1, LinksRest DEF Register, NotesOK
  <1>4. ASSUME NEW r \in Reqs, Inserts(r) PROVE NotesOK'
    <2>1. holders' \in [Reqs -> SUBSET inserted']
      BY <1>4 DEF Inserts, NotesOK
    <2>2. QED
      BY <1>4, <2>1, LinksRest DEF Inserts, NotesOK
  <1>5. ASSUME NEW r \in Reqs,
               \/ Looks(r) \/ Issues(r) \/ PublishUserCreated(r) \/ CreateAuditLog(r) \/ TimesOut(r)
        PROVE  NotesOK'
    BY <1>1, <1>5 DEF Looks, Issues, PublishUserCreated, CreateAuditLog, TimesOut, ghosts
  <1>6. ASSUME NEW r \in Reqs, Ready(r) PROVE NotesOK'
    <2>1. [d \in Deps |-> IF d = "rabbitmq" THEN Now(d) ELSE "pending"]
             \in [Deps -> {"pending", "up", "down"}]
      BY NowType
    <2>2. [d \in Deps |-> {Now(d)}] \in [Deps -> SUBSET {"up", "down"}]
      BY NowType
    <2>3. QED
      BY <1>6, <2>1, <2>2, LinksRest DEF Ready, NotesOK
  <1>7. ASSUME NEW r \in Reqs, NEW d \in Deps, Probe(r, d) PROVE NotesOK'
    <2> DEFINE found == [probes[r] EXCEPT ![d] = Now(d)]
    <2>1. found \in [Deps -> {"pending", "up", "down"}]
      BY NowType DEF NotesOK
    <2>2. probes' = [probes EXCEPT ![r] = found]
      BY <1>7 DEF Probe
    <2> HIDE DEF found
    <2>3. QED
      BY <1>7, <2>1, <2>2, LinksRest DEF Probe, ghosts, NotesOK
  <1>8. CASE Outage
    <2>1. window' \in [Reqs -> [Deps -> SUBSET {"up", "down"}]]
      BY <1>8, WatchedType, OutageWatched
    <2>2. faults' \in 0..MaxFaults
      BY <1>8, RequestsAssumption DEF Outage, GoesDown, ComesBack, Disconnects, Reconnects, NotesOK
    <2>3. LinksOK'
      BY <1>8, LinksKept DEF NotesOK
    <2>4. QED
      BY <1>8, <2>1, <2>2, <2>3, OutageWatched DEF NotesOK
  <1>9. CASE \E u \in users : DeleteCredentials(u)
    BY <1>1, <1>9 DEF DeleteCredentials, ghosts
  <1>10. CASE UNCHANGED vars
    BY <1>1, <1>10 DEF vars, ghosts
  <1>11. QED
    BY <1>2, <1>3, <1>4, <1>5, <1>6, <1>7, <1>8, <1>9, <1>10, NextSplit

TypeInv == HandlersOK /\ RowsOK /\ RecordsOK /\ NotesOK

LEMMA InitTypes == Init => TypeInv
  <1> SUFFICES ASSUME Init PROVE TypeInv
    OBVIOUS
  <1>1. Unsent.email \in Email /\ Unsent.email = Lower(Unsent.email) /\ Unsent.pc = "unsent"
    <2> DEFINE first == CHOOSE a \in Addresses : TRUE
               spelled == [address |-> first, upper |-> FALSE]
    <2>1. first \in Addresses
      BY RequestsAssumption
    <2>2. spelled \in Email
      BY <2>1 DEF Email
    <2>3. Unsent.email = Lower(spelled) /\ Unsent.pc = "unsent"
      BY DEF Unsent
    <2> HIDE DEF spelled
    <2>4. QED
      BY <2>2, <2>3, LowerFacts
  <1>2. Unsent \in [pc : Pcs, email : Email]
    BY <1>1 DEF Unsent, Pcs
  <1>3. ReqOK /\ AnswersOK
    BY <1>2 DEF Init, ReqOK, AnswersOK, Answers
  <1>4. \A r \in Reqs : Stage(r)
    BY <1>1 DEF Init, Stage
  <1>5. RowsOK /\ RecordsOK
    BY DEF Init, RowsOK, RecordsOK
  <1>6. NotesOK
    BY RequestsAssumption DEF Init, NotesOK, LinksOK
  <1>7. QED
    BY <1>3, <1>4, <1>5, <1>6 DEF TypeInv, HandlersOK

LEMMA NextTypes == TypeInv /\ [Next]_vars => TypeInv'
  BY StageKept, RowsKept, RecordsKept, NotesKept DEF TypeInv

LEMMA TypesKept == Spec => []TypeInv
  BY InitTypes, NextTypes, PTL DEF Spec

(* Every variable of the model holds a value of its kind, the refresh tokens   *)
(* belong to accounts, and a request without an answer is not over.            *)
THEOREM TypeCorrect == Spec => []TypeOK
  <1>1. TypeInv => TypeOK
    BY DEF TypeInv, HandlersOK, Stage, ReqOK, Pcs, AnswersOK, RowsOK, RecordsOK, NotesOK, LinksOK,
       TypeOK
  <1>2. QED
    BY <1>1, TypesKept, PTL

(* Concurrent registrations leave one account for an address, in any spelling, *)
(* although each looks the address up two awaits before its INSERT.            *)
THEOREM OneAccount == Spec => []OneAccountPerAddress
  <1>1. TypeInv => OneAccountPerAddress
    BY DEF TypeInv, RowsOK, OneAccountPerAddress, Holds
  <1>2. QED
    BY <1>1, TypesKept, PTL

-----------------------------------------------------------------------------
(* The truth of the answers.  Between its look-up and its answer, a            *)
(* registration has noted every account that holds its address; and the        *)
(* account of one that has passed its refresh token's INSERT has that token,    *)
(* or is gone with it.                                                       *)
Noted(r) ==
    req[r].pc \in {"check", "insert"}
        => \A u \in users : Holds(u, req[r].email) => u.id \in holders[r]

NotedInv == \A r \in Reqs : Noted(r)

LEMMA NotedFrame ==
    ASSUME NotedInv, NEW r \in Reqs, Others(r), users' \subseteq users,
           \A q \in Reqs \ {r} : holders[q] \subseteq holders'[q], Noted(r)'
    PROVE  NotedInv'
  <1>1. ASSUME NEW q \in Reqs \ {r} PROVE Noted(q)'
    BY DEF NotedInv, Noted, Others, Holds
  <1>2. QED
    BY <1>1 DEF NotedInv

LEMMA NotedKept ==
    ASSUME TypeInv, NotedInv, [Next]_vars
    PROVE  NotedInv'
  <1> USE DEF TypeInv, HandlersOK
  <1>1. ASSUME NEW r \in Reqs, Others(r), UNCHANGED <<users, holders>>,
               req'[r].pc \notin {"check", "insert"}
        PROVE  NotedInv'
    <2>1. Noted(r)'
      BY <1>1 DEF Noted
    <2>2. QED
      BY <1>1, <2>1, NotedFrame
  <1>2. ASSUME NEW r \in Reqs, NEW a \in Early, Ends(r, a) PROVE NotedInv'
    BY <1>1, <1>2, EndMoves DEF Ends, database
  <1>3. ASSUME NEW r \in Reqs, NEW e \in Email, Register(r, e) PROVE NotedInv'
    <2>1. /\ holders' = [holders EXCEPT ![r] = {u.id : u \in {v \in users : Holds(v, e)}}]
          /\ UNCHANGED users
      BY <1>3 DEF Register, database
    <2>2. /\ holders'[r] = {u.id : u \in {v \in users : Holds(v, e)}}
          /\ \A q \in Reqs \ {r} : holders'[q] = holders[q]
      BY <2>1 DEF NotesOK
    <2>3. Others(r) /\ req'[r].email = Lower(e)
      BY <1>3, RegisterMoves
    <2>4. \A u \in users : Holds(u, Lower(e)) => Holds(u, e)
      BY LowerFacts DEF Holds
    <2>5. Noted(r)'
      BY <2>1, <2>2, <2>3, <2>4 DEF Noted, Holds
    <2>6. QED
      BY <2>1, <2>2, <2>3, <2>5, NotedFrame
  <1>4. ASSUME NEW r \in Reqs, Looks(r) PROVE NotedInv'
    <2>1. StepsTo(r, "check", "insert") /\ UNCHANGED <<users, holders>>
      BY <1>4, GoesOn DEF Looks, ghosts, database
    <2>2. Noted(r)'
      BY <2>1 DEF NotedInv, Noted, StepsTo, Holds
    <2>3. QED
      BY <2>1, <2>2, NotedFrame DEF StepsTo
  <1>5. ASSUME NEW r \in Reqs, Inserts(r) PROVE NotedInv'
    <2> DEFINE n == [id |-> r, email |-> req[r].email]
    <2>1. n.id = r /\ n.email = req[r].email
      OBVIOUS
    <2>2. /\ users' = users \cup {n}
          /\ \A q \in Reqs : holders'[q] = IF AtWork(q) /\ q # r /\ Lower(req[q].email) = Lower(n.email)
                                          THEN holders[q] \cup {r} ELSE holders[q]
      BY <1>5 DEF Inserts
    <2>3. StepsTo(r, "insert", "issue")
      BY <1>5, GoesOn
    <2> HIDE DEF n
    <2>4. ASSUME NEW q \in Reqs, req'[q].pc \in {"check", "insert"},
                 NEW u \in users', Holds(u, req'[q].email)
          PROVE  u.id \in holders'[q]
      <3>1. q # r /\ req'[q] = req[q]
        BY <2>3, <2>4 DEF StepsTo, Others
      <3>2. CASE u \in users
        BY <2>2, <2>4, <3>1, <3>2 DEF NotedInv, Noted
      <3>3. CASE u = n
        <4>1. AtWork(q) /\ Lower(req[q].email) = Lower(n.email)
          BY <2>4, <3>1, <3>3 DEF AtWork, Holds
        <4>2. QED
          BY <2>1, <2>2, <3>1, <3>3, <4>1
      <3>4. QED
        BY <2>2, <3>2, <3>3
    <2>5. QED
      BY <2>4 DEF NotedInv, Noted, Holds
  <1>6. ASSUME NEW r \in Reqs, Issues(r) PROVE NotedInv'
    BY <1>1, <1>6, GoesOn DEF Issues, StepsTo, ghosts
  <1>7. ASSUME NEW r \in Reqs, PublishUserCreated(r) PROVE NotedInv'
    BY <1>1, <1>7, GoesOn DEF PublishUserCreated, StepsTo, ghosts, database
  <1>8. ASSUME NEW r \in Reqs, CreateAuditLog(r) PROVE NotedInv'
    BY <1>1, <1>8, AuditMoves DEF CreateAuditLog, ghosts
  <1>9. ASSUME NEW r \in Reqs, Ready(r) PROVE NotedInv'
    BY <1>1, <1>9, GoesOn DEF Ready, StepsTo, database
  <1>10. ASSUME NEW r \in Reqs, NEW d \in Deps, Probe(r, d) PROVE NotedInv'
    <2>1. Others(r) /\ req'[r].pc \in {"probe", "done"}
      BY <1>10, ProbeMoves
    <2>2. QED
      BY <1>1, <1>10, <2>1 DEF Probe, ghosts, database
  <1>11. ASSUME UNCHANGED <<req, holders>>, users' \subseteq users PROVE NotedInv'
    BY <1>11 DEF NotedInv, Noted, Holds
  <1>12. ASSUME NEW r \in Reqs, TimesOut(r) PROVE NotedInv'
    BY <1>11, <1>12 DEF TimesOut, ghosts, database
  <1>13. CASE Outage
    BY <1>11, <1>13, OutageWatched DEF database
  <1>14. CASE \E u \in users : DeleteCredentials(u)
    BY <1>11, <1>14 DEF DeleteCredentials, ghosts
  <1>15. CASE UNCHANGED vars
    BY <1>11, <1>15 DEF vars, ghosts, database
  <1>16. QED
    BY <1>2, <1>3, <1>4, <1>5, <1>6, <1>7, <1>8, <1>9, <1>10, <1>12, <1>13, <1>14, <1>15,
       NextSplit

SessionKept(r) ==
    req[r].pc \in {"enforce", "audit"} \/ answer[r] = Created => (Exists(r) => r \in sessions)

SessionInv == \A r \in Reqs : SessionKept(r)

LEMMA SessionFrame ==
    ASSUME SessionInv, NEW r \in Reqs, Others(r), UNCHANGED <<users, sessions>>,
           \A q \in Reqs \ {r} : answer'[q] = answer[q],
           \/ req'[r].pc \notin {"enforce", "audit"} /\ answer'[r] # Created
           \/ req[r].pc \in {"enforce", "audit"} \/ answer[r] = Created
    PROVE  SessionInv'
  <1>1. ASSUME NEW q \in Reqs PROVE SessionKept(q)'
    <2>1. CASE q = r
      BY <2>1 DEF SessionInv, SessionKept, Exists
    <2>2. CASE q # r
      BY <2>2 DEF SessionInv, SessionKept, Exists, Others
    <2>3. QED
      BY <2>1, <2>2
  <1>2. QED
    BY <1>1 DEF SessionInv

LEMMA CreatedIsLast ==
    ASSUME HandlersOK, NEW r \in Reqs, answer[r] = Created
    PROVE  req[r].pc = "done"
  <1>1. Created # None /\ Created # RequestTimeout
    BY NotCreated
  <1>2. QED
    BY <1>1 DEF HandlersOK, Stage

LEMMA SessionsKept ==
    ASSUME TypeInv, SessionInv, [Next]_vars
    PROVE  SessionInv'
  <1> USE DEF TypeInv, HandlersOK
  <1>1. ASSUME NEW r \in Reqs, NEW a \in Early, Ends(r, a) PROVE SessionInv'
    <2>1. Others(r) /\ req'[r].pc = "done" /\ Answered(r, a) /\ UNCHANGED <<users, sessions>>
      BY <1>1, EndMoves DEF Ends, database
    <2>2. answer'[r] = Created => answer[r] = Created
      BY <2>1, NotCreated DEF Answered
    <2>3. QED
      BY <2>1, <2>2, SessionFrame DEF Answered
  <1>2. ASSUME NEW r \in Reqs, NEW from, NEW to, StepsTo(r, from, to),
               UNCHANGED <<users, sessions>>,
               to \notin {"enforce", "audit"} \/ from \in {"enforce", "audit"}
        PROVE  SessionInv'
    BY <1>2, SessionFrame DEF StepsTo
  <1>3. ASSUME NEW r \in Reqs, NEW e \in Email, Register(r, e) PROVE SessionInv'
    <2>1. /\ Others(r) /\ req'[r].pc = "check" /\ UNCHANGED <<users, sessions, answer>>
          /\ req[r].pc = "unsent"
      BY <1>3, RegisterMoves DEF Register, database
    <2>2. QED
      BY <2>1, SessionFrame
  <1>4. ASSUME NEW r \in Reqs, Looks(r) PROVE SessionInv'
    BY <1>2, <1>4, GoesOn DEF Looks, database
  <1>5. ASSUME NEW r \in Reqs, Inserts(r) PROVE SessionInv'
    <2>1. StepsTo(r, "insert", "issue") /\ sessions' = sessions
      BY <1>5, GoesOn DEF Inserts
    <2>2. \A q \in Reqs \ {r} : Exists(q)' => Exists(q)
      BY <1>5 DEF Inserts, Exists
    <2>3. ASSUME NEW q \in Reqs PROVE SessionKept(q)'
      <3>1. CASE q = r
        <4>1. answer'[r] # Created /\ req'[r].pc = "issue"
          BY <2>1, CreatedIsLast DEF StepsTo
        <4>2. QED
          BY <3>1, <4>1 DEF SessionKept
      <3>2. CASE q # r
        <4>1. req'[q] = req[q] /\ answer'[q] = answer[q] /\ (Exists(q)' => Exists(q))
          BY <2>1, <2>2, <3>2 DEF StepsTo, Others
        <4>2. QED
          BY <2>1, <4>1 DEF SessionInv, SessionKept
      <3>3. QED
        BY <3>1, <3>2
    <2>4. QED
      BY <2>3 DEF SessionInv
  <1>6. ASSUME NEW r \in Reqs, Issues(r) PROVE SessionInv'
    <2>1. StepsTo(r, "issue", "enforce") /\ users' = users /\ sessions' = sessions \cup {r}
      BY <1>6, GoesOn DEF Issues
    <2>2. ASSUME NEW q \in Reqs PROVE SessionKept(q)'
      BY <2>1 DEF SessionInv, SessionKept, StepsTo, Others, Exists
    <2>3. QED
      BY <2>2 DEF SessionInv
  <1>7. ASSUME NEW r \in Reqs, PublishUserCreated(r) PROVE SessionInv'
    BY <1>2, <1>7, GoesOn DEF PublishUserCreated, database
  <1>8. ASSUME NEW r \in Reqs, CreateAuditLog(r) PROVE SessionInv'
    BY <1>8, AuditMoves, SessionFrame DEF CreateAuditLog, Answered
  <1>9. ASSUME NEW r \in Reqs, Ready(r) PROVE SessionInv'
    BY <1>2, <1>9, GoesOn DEF Ready, database
  <1>10. ASSUME NEW r \in Reqs, NEW d \in Deps, Probe(r, d) PROVE SessionInv'
    <2>1. /\ Others(r) /\ req[r].pc = "probe" /\ UNCHANGED <<users, sessions>>
          /\ \/ UNCHANGED <<req, answer>>
             \/ req'[r].pc = "done" /\ \E code : Answered(r, Response(200, code))
      BY <1>10, ProbeMoves DEF Probe, database
    <2>2. answer[r] # Created
      BY <2>1, CreatedIsLast
    <2>3. CASE UNCHANGED <<req, answer>>
      BY <2>1, <2>2, <2>3, SessionFrame
    <2>4. CASE req'[r].pc = "done" /\ \E code : Answered(r, Response(200, code))
      <3>1. PICK code : Answered(r, Response(200, code))
        BY <2>4
      <3>2. answer'[r] # Created
        BY <2>2, <3>1, NotCreated DEF Answered
      <3>3. QED
        BY <2>1, <2>4, <3>1, <3>2, SessionFrame DEF Answered
    <2>5. QED
      BY <2>1, <2>3, <2>4
  <1>11. ASSUME NEW r \in Reqs, TimesOut(r) PROVE SessionInv'
    <2>1. Answered(r, RequestTimeout) /\ answer[r] = None /\ UNCHANGED <<req, users, sessions>>
      BY <1>11, TimeoutMoves DEF TimesOut, database
    <2>2. answer'[r] # Created
      BY <2>1, NotCreated DEF Answered
    <2>3. \/ req'[r].pc \notin {"enforce", "audit"} /\ answer'[r] # Created
          \/ req[r].pc \in {"enforce", "audit"} \/ answer[r] = Created
      BY <2>1, <2>2
    <2>4. QED
      BY <2>1, <2>3, SessionFrame DEF Answered, Others
  <1>12. CASE Outage
    BY <1>12, OutageWatched DEF database, SessionInv, SessionKept, Exists
  <1>13. ASSUME NEW d \in users, DeleteCredentials(d) PROVE SessionInv'
    <2>1. users' = users \ {d} /\ sessions' = sessions \ {d.id} /\ UNCHANGED <<req, answer>>
      BY <1>13 DEF DeleteCredentials
    <2>2. ASSUME NEW q \in Reqs, Exists(q)' PROVE Exists(q) /\ q # d.id
      <3>1. PICK u \in users : u # d /\ u.id = q
        BY <2>1, <2>2 DEF Exists
      <3>2. QED
        BY <3>1 DEF Exists, RowsOK
    <2>3. ASSUME NEW q \in Reqs PROVE SessionKept(q)'
      BY <2>1, <2>2 DEF SessionInv, SessionKept
    <2>4. QED
      BY <2>3 DEF SessionInv
  <1>14. CASE UNCHANGED vars
    BY <1>14 DEF vars, database, SessionInv, SessionKept, Exists
  <1>15. QED
    BY <1>1, <1>3, <1>4, <1>5, <1>6, <1>7, <1>8, <1>9, <1>10, <1>11, <1>12, <1>13, <1>14,
       NextSplit

(* The rest of what an answer says. *)
Truth(r) ==
    /\ answer[r] = Created => r \in inserted /\ r \in announced /\ r \in audited
    /\ answer[r].status = 409 => r \notin inserted /\ holders[r] # {}
    /\ answer[r].status \in {400, 401} => r \notin inserted

TruthInv == \A r \in Reqs : Truth(r)

LEMMA TruthFrame ==
    ASSUME TruthInv, NEW r \in Reqs,
           \A q \in Reqs \ {r} : answer'[q] = answer[q] /\ holders[q] \subseteq holders'[q],
           inserted' = inserted \/ inserted' = inserted \cup {r},
           announced \subseteq announced', audited \subseteq audited', Truth(r)'
    PROVE  TruthInv'
  <1>1. ASSUME NEW q \in Reqs \ {r} PROVE Truth(q)'
    BY DEF TruthInv, Truth
  <1>2. QED
    BY <1>1 DEF TruthInv

(* A handler that is not over has no answer that claims anything. *)
LEMMA TruthOpen ==
    ASSUME HandlersOK, NEW r \in Reqs, req[r].pc # "done"
    PROVE  /\ answer[r] # Created /\ answer[r].status \notin {409, 400, 401}
           /\ answer[r] = None \/ answer[r] = RequestTimeout
  <1>1. answer[r] = None \/ answer[r] = RequestTimeout
    BY DEF HandlersOK, Stage
  <1>2. answer[r] # Created
    BY <1>1, NotCreated
  <1>3. QED
    BY <1>1, <1>2 DEF None, RequestTimeout, Response

(* Why a handler ended early is what its answer says. *)
LEMMA EarlyIsTrue ==
    ASSUME HandlersOK, NotedInv, NEW r \in Reqs, NEW a \in Early, Cause(r, a)
    PROVE  /\ a # Created
           /\ a.status = 409 => r \notin inserted /\ holders[r] # {}
           /\ a.status \in {400, 401} => r \notin inserted
  <1>1. a # Created
    BY NotCreated
  <1>2. req[r].pc \in {"unsent", "check", "insert"} => r \notin inserted
    BY DEF HandlersOK, Stage
  <1>3. ASSUME req[r].pc \in {"check", "insert"}, NEW u \in users, Holds(u, req[r].email)
        PROVE  holders[r] # {}
    BY <1>3 DEF NotedInv, Noted
  <1>4. CASE req[r].pc = "unsent" /\ a \in {ApiKeyMissing, ValidationFailed}
    BY <1>1, <1>2, <1>4 DEF ApiKeyMissing, ValidationFailed, Response
  <1>5. CASE req[r].pc = "check" /\ \E u \in users : Holds(u, req[r].email)
    BY <1>1, <1>2, <1>3, <1>5
  <1>6. CASE req[r].pc = "insert" /\ \E u \in users : u.email = req[r].email
    <2>1. PICK u \in users : u.email = req[r].email
      BY <1>6
    <2>2. Holds(u, req[r].email)
      BY <2>1 DEF Holds
    <2>3. QED
      BY <1>1, <1>2, <1>3, <1>6, <2>2
  <1>7. CASE a \in {QueryFailed("none"), ConnectionReset}
    <2>1. a.status \notin {400, 401, 409}
      BY <1>7 DEF QueryFailed, ConnectionReset, Response
    <2>2. QED
      BY <1>1, <2>1
  <1>8. QED
    BY <1>4, <1>5, <1>6, <1>7 DEF Cause

LEMMA TruthKept ==
    ASSUME TypeInv, NotedInv, TruthInv, [Next]_vars
    PROVE  TruthInv'
  <1> USE DEF TypeInv
  <1>1. ASSUME NEW r \in Reqs, NEW a \in Early, Ends(r, a) PROVE TruthInv'
    <2>1. /\ Answered(r, a) /\ req[r].pc # "done" /\ Cause(r, a)
          /\ UNCHANGED <<inserted, holders, announced, audited>>
      BY <1>1, EndMoves DEF Ends, database, AtWork, HandlersOK
    <2>2. Truth(r)'
      <3>1. CASE answer[r] = None
        <4>1. answer'[r] = a
          BY <2>1, <3>1 DEF Answered
        <4>2. QED
          BY <2>1, <4>1, EarlyIsTrue DEF Truth
      <3>2. CASE answer[r] # None
        <4>1. answer'[r] = answer[r]
          BY <2>1, <3>2 DEF Answered
        <4>2. QED
          BY <2>1, <4>1, TruthOpen DEF Truth
      <3>3. QED
        BY <3>1, <3>2
    <2>3. QED
      BY <2>1, <2>2, TruthFrame DEF Answered
  <1>2. ASSUME NEW r \in Reqs, req[r].pc # "done", UNCHANGED <<answer, inserted>>,
               \A q \in Reqs \ {r} : holders[q] \subseteq holders'[q],
               announced \subseteq announced', audited \subseteq audited'
        PROVE  TruthInv'
    <2>1. Truth(r)'
      BY <1>2, TruthOpen DEF Truth
    <2>2. QED
      BY <1>2, <2>1, TruthFrame
  <1>3. ASSUME NEW r \in Reqs, NEW e \in Email, Register(r, e) PROVE TruthInv'
    <2>1. \A q \in Reqs \ {r} : holders'[q] = holders[q]
      BY <1>3 DEF Register, NotesOK
    <2>2. QED
      BY <1>2, <1>3, <2>1 DEF Register, database
  <1>4. ASSUME NEW r \in Reqs, Looks(r) PROVE TruthInv'
    BY <1>2, <1>4 DEF Looks, database, ghosts
  <1>5. ASSUME NEW r \in Reqs, Inserts(r) PROVE TruthInv'
    <2>1. Truth(r)'
      BY <1>5, TruthOpen DEF Inserts, Truth
    <2>2. \A q \in Reqs : holders[q] \subseteq holders'[q]
      BY <1>5 DEF Inserts
    <2>3. UNCHANGED <<answer, announced, audited>> /\ inserted' = inserted \cup {r}
      BY <1>5 DEF Inserts
    <2>4. QED
      BY <2>1, <2>2, <2>3, TruthFrame
  <1>6. ASSUME NEW r \in Reqs, Issues(r) PROVE TruthInv'
    BY <1>2, <1>6 DEF Issues, ghosts
  <1>7. ASSUME NEW r \in Reqs, PublishUserCreated(r) PROVE TruthInv'
    BY <1>2, <1>7 DEF PublishUserCreated, database, ghosts
  <1>8. ASSUME NEW r \in Reqs, CreateAuditLog(r) PROVE TruthInv'
    <2>1. /\ Answered(r, Created) /\ req[r].pc = "audit"
          /\ UNCHANGED <<inserted, holders, announced>> /\ audited' = audited \cup {r}
      BY <1>8, AuditMoves DEF CreateAuditLog, ghosts, HandlersOK
    <2>2. r \in inserted /\ r \in announced
      BY <2>1 DEF HandlersOK, Stage
    <2>3. Truth(r)'
      <3>1. CASE answer[r] = None
        <4>1. answer'[r].status = 201
          BY <2>1, <3>1 DEF Answered, Created, Response
        <4>2. QED
          BY <2>1, <2>2, <4>1 DEF Truth
      <3>2. CASE answer[r] # None
        <4>1. answer'[r] = answer[r]
          BY <2>1, <3>2 DEF Answered
        <4>2. QED
          BY <2>1, <4>1, TruthOpen DEF Truth
      <3>3. QED
        BY <3>1, <3>2
    <2>4. QED
      BY <2>1, <2>3, TruthFrame DEF Answered
  <1>9. ASSUME NEW r \in Reqs, Ready(r) PROVE TruthInv'
    BY <1>2, <1>9 DEF Ready, database
  <1>10. ASSUME NEW r \in Reqs, NEW d \in Deps, Probe(r, d) PROVE TruthInv'
    <2>1. /\ req[r].pc = "probe"
          /\ UNCHANGED <<inserted, holders, announced, audited>>
          /\ answer' = answer \/ \E code : Answered(r, Response(200, code))
      BY <1>10, ProbeMoves DEF Probe, database, ghosts, HandlersOK
    <2>2. CASE answer' = answer
      BY <1>2, <2>1, <2>2
    <2>3. CASE \E code : Answered(r, Response(200, code))
      <3>1. PICK code : Answered(r, Response(200, code))
        BY <2>3
      <3>2. Truth(r)'
        <4>1. CASE answer[r] = None
          <5>1. answer'[r] = Response(200, code)
            BY <3>1, <4>1 DEF Answered
          <5>2. answer'[r].status = 200 /\ answer'[r] # Created
            BY <5>1, NotCreated DEF Response
          <5>3. QED
            BY <5>2 DEF Truth
        <4>2. CASE answer[r] # None
          <5>1. answer'[r] = answer[r]
            BY <3>1, <4>2 DEF Answered
          <5>2. QED
            BY <2>1, <5>1, TruthOpen DEF Truth
        <4>3. QED
          BY <4>1, <4>2
      <3>3. QED
        BY <2>1, <3>1, <3>2, TruthFrame DEF Answered
    <2>4. QED
      BY <2>1, <2>2, <2>3
  <1>11. ASSUME NEW r \in Reqs, TimesOut(r) PROVE TruthInv'
    <2>1. /\ Answered(r, RequestTimeout) /\ answer[r] = None
          /\ UNCHANGED <<inserted, holders, announced, audited>>
      BY <1>11, TimeoutMoves DEF TimesOut, database, ghosts, HandlersOK
    <2>2. answer'[r] # Created /\ answer'[r].status = 408
      BY <2>1, NotCreated DEF Answered, RequestTimeout, Response
    <2>3. Truth(r)'
      BY <2>2 DEF Truth
    <2>4. QED
      BY <2>1, <2>3, TruthFrame DEF Answered
  <1>12. CASE Outage
    BY <1>12, OutageWatched DEF database, TruthInv, Truth
  <1>13. CASE \E u \in users : DeleteCredentials(u)
    BY <1>13 DEF DeleteCredentials, ghosts, TruthInv, Truth
  <1>14. CASE UNCHANGED vars
    BY <1>14 DEF vars, database, ghosts, TruthInv, Truth
  <1>15. QED
    BY <1>1, <1>3, <1>4, <1>5, <1>6, <1>7, <1>8, <1>9, <1>10, <1>11, <1>12, <1>13, <1>14,
       NextSplit

(* An answer that says what happened is true, whatever other requests,         *)
(* deletions and outages ran beside it, and although a handler whose request    *)
(* has timed out goes on.                                                    *)
THEOREM AnswersTrue == Spec => []AnswersAreTrue
  <1>1. Init => NotedInv /\ SessionInv /\ TruthInv
    <2>1. Init => NotedInv /\ SessionInv
      BY NotCreated DEF Init, Unsent, NotedInv, Noted, SessionInv, SessionKept
    <2>2. None.status = 0
      BY DEF None, Response
    <2>3. Init => TruthInv
      BY <2>2, NotCreated DEF Init, TruthInv, Truth
    <2>4. QED
      BY <2>1, <2>3
  <1>2. TypeInv /\ NotedInv /\ SessionInv /\ TruthInv /\ [Next]_vars
            => NotedInv' /\ SessionInv' /\ TruthInv'
    BY NotedKept, SessionsKept, TruthKept
  <1>3. SessionInv /\ TruthInv => AnswersAreTrue
    BY DEF SessionInv, SessionKept, TruthInv, Truth, AnswersAreTrue
  <1>4. QED
    BY <1>1, <1>2, <1>3, TypesKept, PTL DEF Spec

-----------------------------------------------------------------------------
(* The event of a registration that is over. *)
Told(r) == req[r].pc = "done" /\ Exists(r) => r \in announced \cup cut

ToldInv == \A r \in Reqs : Told(r)

LEMMA ToldFrame ==
    ASSUME ToldInv, NEW r \in Reqs, Others(r), \A q \in Reqs \ {r} : Exists(q)' => Exists(q),
           announced \subseteq announced', cut \subseteq cut', Told(r)'
    PROVE  ToldInv'
  <1>1. ASSUME NEW q \in Reqs \ {r} PROVE Told(q)'
    <2>1. req'[q] = req[q] /\ (Exists(q)' => Exists(q))
      BY DEF Others
    <2>2. QED
      BY <2>1 DEF ToldInv, Told
  <1>2. QED
    BY <1>1 DEF ToldInv

LEMMA ToldKept ==
    ASSUME TypeInv, ToldInv, [Next]_vars
    PROVE  ToldInv'
  <1> USE DEF TypeInv, HandlersOK
  <1>1. \A r \in Reqs : r \notin inserted => ~Exists(r)
    BY DEF RowsOK, Exists
  <1>2. ASSUME NEW r \in Reqs, Others(r), req'[r].pc # "done",
               UNCHANGED <<users, cut>>, announced \subseteq announced'
        PROVE  ToldInv'
    <2>1. \A q \in Reqs : Exists(q)' => Exists(q)
      BY <1>2 DEF Exists
    <2>2. Told(r)'
      BY <1>2 DEF Told
    <2>3. QED
      BY <1>2, <2>1, <2>2, ToldFrame
  <1>3. ASSUME NEW r \in Reqs, NEW a \in Early, Ends(r, a) PROVE ToldInv'
    <2>1. /\ Others(r) /\ Cause(r, a) /\ UNCHANGED <<users, announced>> /\ cut \subseteq cut'
      BY <1>3, EndMoves DEF Ends, database
    <2>2. ~Exists(r) \/ r \in announced \/ r \in cut'
      <3>1. CASE req[r].pc \in {"unsent", "check", "insert", "probe"}
        BY <1>1, <3>1 DEF Stage
      <3>2. CASE req[r].pc = "audit"
        BY <3>2 DEF Stage
      <3>3. CASE req[r].pc \in {"issue", "enforce"}
        BY <2>1, <3>3 DEF Cause, BeforePublish
      <3>4. QED
        BY <2>1, <3>1, <3>2, <3>3 DEF Cause, AtWork, ReqOK, Pcs
    <2>3. \A q \in Reqs : Exists(q)' => Exists(q)
      BY <2>1 DEF Exists
    <2>4. Told(r)'
      BY <2>1, <2>2, <2>3 DEF Told
    <2>5. QED
      BY <2>1, <2>3, <2>4, ToldFrame
  <1>4. ASSUME NEW r \in Reqs, NEW e \in Email, Register(r, e) PROVE ToldInv'
    BY <1>2, <1>4, RegisterMoves DEF Register, database
  <1>5. ASSUME NEW r \in Reqs, Looks(r) PROVE ToldInv'
    BY <1>2, <1>5, GoesOn DEF Looks, StepsTo, database, ghosts
  <1>6. ASSUME NEW r \in Reqs, Inserts(r) PROVE ToldInv'
    <2>1. StepsTo(r, "insert", "issue") /\ UNCHANGED <<announced, cut>>
      BY <1>6, GoesOn DEF Inserts
    <2>2. \A q \in Reqs \ {r} : Exists(q)' => Exists(q)
      BY <1>6 DEF Inserts, Exists
    <2>3. Told(r)'
      BY <2>1 DEF StepsTo, Told
    <2>4. QED
      BY <2>1, <2>2, <2>3, ToldFrame DEF StepsTo
  <1>7. ASSUME NEW r \in Reqs, Issues(r) PROVE ToldInv'
    BY <1>2, <1>7, GoesOn DEF Issues, StepsTo, ghosts
  <1>8. ASSUME NEW r \in Reqs, PublishUserCreated(r) PROVE ToldInv'
    BY <1>2, <1>8, GoesOn DEF PublishUserCreated, StepsTo, database, ghosts
  <1>9. ASSUME NEW r \in Reqs, CreateAuditLog(r) PROVE ToldInv'
    <2>1. Others(r) /\ req[r].pc = "audit" /\ UNCHANGED <<users, announced, cut>>
      BY <1>9, AuditMoves DEF CreateAuditLog, ghosts
    <2>2. r \in announced
      BY <2>1 DEF Stage
    <2>3. \A q \in Reqs : Exists(q)' => Exists(q)
      BY <2>1 DEF Exists
    <2>4. Told(r)'
      BY <2>1, <2>2 DEF Told
    <2>5. QED
      BY <2>1, <2>3, <2>4, ToldFrame
  <1>10. ASSUME NEW r \in Reqs, Ready(r) PROVE ToldInv'
    BY <1>2, <1>10, GoesOn DEF Ready, StepsTo, database
  <1>11. ASSUME NEW r \in Reqs, NEW d \in Deps, Probe(r, d) PROVE ToldInv'
    <2>1. Others(r) /\ req[r].pc = "probe" /\ UNCHANGED <<users, announced, cut>>
      BY <1>11, ProbeMoves DEF Probe, database, ghosts
    <2>2. ~Exists(r)
      BY <1>1, <2>1 DEF Stage
    <2>3. \A q \in Reqs : Exists(q)' => Exists(q)
      BY <2>1 DEF Exists
    <2>4. Told(r)'
      BY <2>2, <2>3 DEF Told
    <2>5. QED
      BY <2>1, <2>3, <2>4, ToldFrame
  <1>12. ASSUME UNCHANGED <<req, announced, cut>>, users' \subseteq users PROVE ToldInv'
    BY <1>12 DEF ToldInv, Told, Exists
  <1>13. ASSUME NEW r \in Reqs, TimesOut(r) PROVE ToldInv'
    BY <1>12, <1>13 DEF TimesOut, ghosts, database
  <1>14. CASE Outage
    BY <1>12, <1>14, OutageWatched DEF database
  <1>15. CASE \E u \in users : DeleteCredentials(u)
    BY <1>12, <1>15 DEF DeleteCredentials, ghosts
  <1>16. CASE UNCHANGED vars
    BY <1>12, <1>16 DEF vars, ghosts, database
  <1>17. QED
    BY <1>3, <1>4, <1>5, <1>6, <1>7, <1>8, <1>9, <1>10, <1>11, <1>13, <1>14, <1>15, <1>16,
       NextSplit

(* An account whose registration is over has been announced, whatever its      *)
(* client was told, unless the handler was stopped between the INSERT of the   *)
(* account and the event.                                                    *)
THEOREM Announced == Spec => []AnnouncedUnlessCut
  <1>1. Init => ToldInv
    BY DEF Init, Unsent, ToldInv, Told
  <1>2. TypeInv /\ ToldInv /\ [Next]_vars => ToldInv'
    BY ToldKept
  <1>3. TypeInv /\ ToldInv => AnnouncedUnlessCut
    BY DEF TypeInv, RowsOK, ToldInv, Told, Exists, AnnouncedUnlessCut
  <1>4. QED
    BY <1>1, <1>2, <1>3, TypesKept, PTL DEF Spec

-----------------------------------------------------------------------------
(* The health check.  While it runs, what a probe would find now and what one  *)
(* has found are among what it would have found since the check began.         *)
Watching(r) ==
    req[r].pc = "probe" =>
        \A d \in Deps : /\ Now(d) \in window[r][d]
                        /\ probes[r][d] # "pending" => probes[r][d] \in window[r][d]

Witnessed(r) ==
    answer[r].status = 200 =>
        /\ answer[r].code = "healthy" => \A d \in Deps : "up" \in window[r][d]
        /\ answer[r].code = "degraded" =>
              "up" \in window[r]["postgresql"] /\ \E d \in Deps : "down" \in window[r][d]
        /\ answer[r].code = "unhealthy" => "down" \in window[r]["postgresql"]

HealthInv == \A r \in Reqs : Watching(r) /\ Witnessed(r)

LEMMA HealthFrame ==
    ASSUME HealthInv, NEW r \in Reqs, Others(r), UNCHANGED links,
           \A q \in Reqs \ {r} : /\ answer'[q] = answer[q]
                                 /\ probes'[q] = probes[q] /\ window'[q] = window[q],
           Watching(r)', Witnessed(r)'
    PROVE  HealthInv'
  <1>1. ASSUME NEW q \in Reqs \ {r} PROVE Watching(q)'
    <2>1. req'[q] = req[q] /\ probes'[q] = probes[q] /\ window'[q] = window[q] /\ Watching(q)
      BY DEF Others, HealthInv
    <2>2. QED
      BY <2>1 DEF Watching, Now, links
  <1>2. ASSUME NEW q \in Reqs \ {r} PROVE Witnessed(q)'
    <2>1. answer'[q] = answer[q] /\ window'[q] = window[q] /\ Witnessed(q)
      BY DEF HealthInv
    <2>2. QED
      BY <2>1 DEF Witnessed
  <1>3. QED
    BY <1>1, <1>2 DEF HealthInv

LEMMA ProbesSeen ==
    ASSUME HealthInv, NEW r \in Reqs, req[r].pc = "probe", NEW d \in Deps
    PROVE  /\ Now(d) \in window[r][d]
           /\ probes[r][d] # "pending" => probes[r][d] \in window[r][d]
  <1>1. Watching(r)
    BY DEF HealthInv
  <1>2. QED
    BY <1>1 DEF Watching

(* What checkHealth makes of the three results. *)
LEMMA Aggregates ==
    ASSUME NEW found \in [Deps -> {"up", "down"}], NEW seen \in [Deps -> SUBSET {"up", "down"}],
           \A d \in Deps : found[d] \in seen[d]
    PROVE  /\ Aggregate(found) = "healthy" => \A d \in Deps : "up" \in seen[d]
           /\ Aggregate(found) = "degraded" =>
                 "up" \in seen["postgresql"] /\ \E d \in Deps : "down" \in seen[d]
           /\ Aggregate(found) = "unhealthy" => "down" \in seen["postgresql"]
  <1>1. "postgresql" \in Deps
    BY DEF Deps
  <1>2. \A d \in Deps : found[d] = "up" \/ found[d] = "down"
    OBVIOUS
  <1>3. CASE found["postgresql"] = "down"
    BY <1>1, <1>3 DEF Aggregate
  <1>4. CASE found["postgresql"] = "up" /\ \E d \in Deps : found[d] = "down"
    BY <1>1, <1>4 DEF Aggregate
  <1>5. CASE \A d \in Deps : found[d] = "up"
    BY <1>1, <1>5 DEF Aggregate
  <1>6. QED
    BY <1>1, <1>2, <1>3, <1>4, <1>5

LEMMA HealthKept ==
    ASSUME TypeInv, HealthInv, [Next]_vars
    PROVE  HealthInv'
  <1> USE DEF TypeInv, HandlersOK
  <1>1. \A r \in Reqs : req[r].pc # "done" => answer[r].status # 200
    <2>1. ASSUME NEW r \in Reqs, req[r].pc # "done" PROVE answer[r].status # 200
      <3>1. answer[r] = None \/ answer[r] = RequestTimeout
        BY <2>1, TruthOpen
      <3>2. QED
        BY <3>1 DEF None, RequestTimeout, Response
    <2>2. QED
      BY <2>1
  <1>2. ASSUME NEW r \in Reqs, Others(r), UNCHANGED <<links, probes, window>>,
               req'[r].pc # "probe",
               \A q \in Reqs \ {r} : answer'[q] = answer[q],
               answer'[r].status # 200
        PROVE  HealthInv'
    BY <1>2, HealthFrame DEF Watching, Witnessed
  <1>3. ASSUME NEW r \in Reqs, NEW a \in Early, Ends(r, a) PROVE HealthInv'
    <2>1. /\ Others(r) /\ req'[r].pc = "done" /\ Answered(r, a) /\ req[r].pc # "done"
          /\ UNCHANGED <<links, probes, window>>
      BY <1>3, EndMoves DEF Ends, AtWork
    <2>2. a.status # 200
      BY DEF Early, ApiKeyMissing, ValidationFailed, Conflict, QueryFailed, ConnectionReset, Response
    <2>3. answer'[r].status # 200
      BY <1>1, <2>1, <2>2 DEF Answered
    <2>4. QED
      BY <1>2, <2>1, <2>3 DEF Answered
  <1>4. ASSUME NEW r \in Reqs, NEW from, NEW to, StepsTo(r, from, to),
               from # "done", to # "probe", UNCHANGED <<links, probes, window>>
        PROVE  HealthInv'
    BY <1>1, <1>2, <1>4 DEF StepsTo
  <1>5. ASSUME NEW r \in Reqs, NEW e \in Email, Register(r, e) PROVE HealthInv'
    <2>1. /\ Others(r) /\ req[r].pc = "unsent" /\ req'[r].pc = "check"
          /\ UNCHANGED <<links, probes, window, answer>>
      BY <1>5, RegisterMoves DEF Register
    <2>2. QED
      BY <1>1, <1>2, <2>1
  <1>6. ASSUME NEW r \in Reqs, Looks(r) PROVE HealthInv'
    BY <1>4, <1>6, GoesOn DEF Looks, ghosts
  <1>7. ASSUME NEW r \in Reqs, Inserts(r) PROVE HealthInv'
    BY <1>4, <1>7, GoesOn DEF Inserts
  <1>8. ASSUME NEW r \in Reqs, Issues(r) PROVE HealthInv'
    BY <1>4, <1>8, GoesOn DEF Issues, ghosts
  <1>9. ASSUME NEW r \in Reqs, PublishUserCreated(r) PROVE HealthInv'
    BY <1>4, <1>9, GoesOn DEF PublishUserCreated, ghosts
  <1>10. ASSUME NEW r \in Reqs, CreateAuditLog(r) PROVE HealthInv'
    <2>1. /\ Others(r) /\ req'[r].pc = "done" /\ Answered(r, Created) /\ req[r].pc = "audit"
          /\ UNCHANGED <<links, probes, window>>
      BY <1>10, AuditMoves DEF CreateAuditLog, ghosts
    <2>2. answer'[r].status # 200
      BY <1>1, <2>1 DEF Answered, Created, Response
    <2>3. QED
      BY <1>2, <2>1, <2>2 DEF Answered
  <1>11. ASSUME NEW r \in Reqs, Ready(r) PROVE HealthInv'
    <2>1. StepsTo(r, "unsent", "probe") /\ UNCHANGED links
      BY <1>11, GoesOn DEF Ready
    <2>2. /\ probes'[r] = [d \in Deps |-> IF d = "rabbitmq" THEN Now(d) ELSE "pending"]
          /\ window'[r] = [d \in Deps |-> {Now(d)}]
          /\ \A q \in Reqs \ {r} : probes'[q] = probes[q] /\ window'[q] = window[q]
      BY <1>11 DEF Ready, NotesOK
    <2>3. Watching(r)'
      BY <2>1, <2>2 DEF Watching, Now, links
    <2>4. Witnessed(r)'
      BY <1>1, <2>1 DEF Witnessed, StepsTo
    <2>5. QED
      BY <2>1, <2>2, <2>3, <2>4, HealthFrame DEF StepsTo
  <1>12. ASSUME NEW r \in Reqs, NEW d \in Deps, Probe(r, d) PROVE HealthInv'
    <2> DEFINE found == [probes[r] EXCEPT ![d] = Now(d)]
    <2>1. /\ AnswersOK' /\ req[r].pc = "probe" /\ Others(r)
          /\ \/ UNCHANGED <<req, answer>>
             \/ /\ \A x \in Deps : found[x] # "pending"
                /\ req'[r].pc = "done" /\ Answered(r, Response(200, Aggregate(found)))
      BY <1>12, ProbeMoves
    <2>2. probes' = [probes EXCEPT ![r] = found] /\ UNCHANGED <<links, window>>
      BY <1>12 DEF Probe, ghosts
    <2>3. found \in [Deps -> {"pending", "up", "down"}] /\ found[d] = Now(d)
          /\ \A x \in Deps \ {d} : found[x] = probes[r][x]
      BY NowType DEF NotesOK
    <2>4. window[r] \in [Deps -> SUBSET {"up", "down"}]
      BY DEF NotesOK
    <2> HIDE DEF found
    <2>5. \A x \in Deps : Now(x) \in window[r][x] /\ (found[x] # "pending" => found[x] \in window[r][x])
      BY <2>1, <2>3, ProbesSeen
    <2>6. /\ probes'[r] = found /\ window' = window
          /\ \A q \in Reqs \ {r} : probes'[q] = probes[q] /\ answer'[q] = answer[q]
      BY <2>1, <2>2 DEF NotesOK, Answered
    <2>7. Watching(r)'
      BY <2>2, <2>5, <2>6 DEF Watching, Now, links
    <2>8. Witnessed(r)'
      <3>1. CASE answer'[r].status # 200
        BY <3>1 DEF Witnessed
      <3>2. CASE answer'[r].status = 200
        <4>1. /\ answer'[r] = Response(200, Aggregate(found))
              /\ \A x \in Deps : found[x] # "pending"
          BY <1>1, <2>1, <3>2 DEF Answered
        <4>2. answer'[r].code = Aggregate(found)
          BY <4>1 DEF Response
        <4>3. found \in [Deps -> {"up", "down"}] /\ \A x \in Deps : found[x] \in window[r][x]
          BY <2>3, <2>5, <4>1
        <4>4. /\ Aggregate(found) = "healthy" => \A x \in Deps : "up" \in window[r][x]
              /\ Aggregate(found) = "degraded" =>
                    "up" \in window[r]["postgresql"] /\ \E x \in Deps : "down" \in window[r][x]
              /\ Aggregate(found) = "unhealthy" => "down" \in window[r]["postgresql"]
          BY <2>4, <4>3, Aggregates
        <4>5. QED
          BY <2>6, <4>2, <4>4 DEF Witnessed
      <3>3. QED
        BY <3>1, <3>2
    <2>9. QED
      BY <2>1, <2>2, <2>6, <2>7, <2>8, HealthFrame
  <1>13. ASSUME NEW r \in Reqs, TimesOut(r) PROVE HealthInv'
    <2>1. /\ Answered(r, RequestTimeout) /\ answer[r] = None
          /\ UNCHANGED <<req, links, probes, window>>
      BY <1>13, TimeoutMoves DEF TimesOut, ghosts
    <2>2. answer'[r].status # 200
      BY <2>1 DEF Answered, RequestTimeout, Response
    <2>3. Watching(r)'
      BY <2>1 DEF HealthInv, Watching, Now, links
    <2>4. Witnessed(r)'
      BY <2>2 DEF Witnessed
    <2>5. QED
      BY <2>1, <2>3, <2>4, HealthFrame DEF Answered, Others
  <1>14. CASE Outage
    <2>1. Watch /\ UNCHANGED <<req, probes, answer>>
      BY <1>14, OutageWatched
    <2>2. ASSUME NEW r \in Reqs PROVE Watching(r)' /\ Witnessed(r)'
      <3>1. CASE req[r].pc = "probe"
        <4>1. \A d \in Deps : window'[r][d] = window[r][d] \cup {Now(d)'}
          BY <2>1, <3>1 DEF Watch
        <4>2. ASSUME NEW d \in Deps
              PROVE  /\ Now(d)' \in window'[r][d]
                     /\ probes[r][d] # "pending" => probes[r][d] \in window'[r][d]
          BY <3>1, <4>1, ProbesSeen
        <4>3. Watching(r)'
          BY <2>1, <4>2 DEF Watching
        <4>4. Witnessed(r)'
          BY <1>1, <2>1, <3>1 DEF Witnessed
        <4>5. QED
          BY <4>3, <4>4
      <3>2. CASE req[r].pc # "probe"
        <4>1. window'[r] = window[r]
          BY <2>1, <3>2 DEF Watch
        <4>2. QED
          BY <2>1, <3>2, <4>1 DEF HealthInv, Watching, Witnessed
      <3>3. QED
        BY <3>1, <3>2
    <2>3. QED
      BY <2>2 DEF HealthInv
  <1>15. CASE (\E u \in users : DeleteCredentials(u)) \/ UNCHANGED vars
    <2>1. UNCHANGED <<req, answer, links, probes, window>>
      BY <1>15 DEF DeleteCredentials, vars, ghosts
    <2>2. QED
      BY <2>1 DEF HealthInv, Watching, Witnessed, Now, links
  <1>16. QED
    BY <1>3, <1>5, <1>6, <1>7, <1>8, <1>9, <1>10, <1>11, <1>12, <1>13, <1>14, <1>15, NextSplit

(* What the answer says of PostgreSQL, of Redis and of the flag of the RabbitMQ *)
(* client was so of each at some moment of the check, although the probes look  *)
(* at different moments and the flag follows the broker late or not at all.    *)
THEOREM HealthWitnessed == Spec => []HealthIsWitnessed
  <1>1. None.status = 0
    BY DEF None, Response
  <1>2. Init => HealthInv
    BY <1>1 DEF Init, Unsent, HealthInv, Watching, Witnessed
  <1>3. TypeInv /\ HealthInv /\ [Next]_vars => HealthInv'
    BY HealthKept
  <1>4. HealthInv => HealthIsWitnessed
    BY DEF HealthInv, Witnessed, HealthIsWitnessed
  <1>5. QED
    BY <1>2, <1>3, <1>4, TypesKept, PTL DEF Spec
=============================================================================
