------------------------------ MODULE Requests ------------------------------
(***************************************************************************)
(* What a client is told, and what has happened: requests on their way       *)
(* through the API-key check, the time limit, the validation pipe, a handler *)
(* and the exception filters, for the endpoint with the most statements,     *)
(* POST /auth/register, and the one that asks every dependency, GET          *)
(* /health/ready.  A handler whose request has timed out goes on.            *)
(*                                                                         *)
(* One action is one statement with the code up to the next await.  A        *)
(* request, and the account it creates, are named by one id.                 *)
(***************************************************************************)
EXTENDS Naturals, FiniteSets

CONSTANTS
    Reqs,
    Addresses,      \* e-mail addresses, apart from upper and lower case
    MaxFaults       \* bound: outages and instances that die

ASSUME RequestsAssumption == MaxFaults \in Nat /\ Addresses # {}

VARIABLES
    users,          \* user_credentials: id and e-mail
    sessions,       \* ids with the refresh token of their registration
    announced,      \* USER_ACCOUNT_CREATED has been given to RabbitMQClient
    audited,        \* the REGISTER entry is in audit_logs
    up,             \* the dependencies that answer
    connected,      \* isConnected() of the RabbitMQClient of the instance that is asked
    req,            \* the handlers
    probes,         \* what a health check has found so far
    answer,         \* the response of each request
    faults,
    inserted,       \* auxiliary: requests that have created an account
    holders,        \* auxiliary: accounts that held the address meanwhile
    cut,            \* auxiliary: handlers stopped before they could publish
    window          \* auxiliary: what a probe would have found during a check

database == <<users, sessions, audited>>
links == <<up, connected>>
ghosts == <<inserted, holders, cut, window>>
vars == <<database, announced, links, req, probes, answer, faults, ghosts>>

-----------------------------------------------------------------------------
Deps == {"postgresql", "redis", "rabbitmq"}

Email == [address : Addresses, upper : BOOLEAN]
Lower(e) == [e EXCEPT !.upper = FALSE]

(* Mutant: trim() only. *)
TransformTrims(e) == e

(* RegisterDto: trim().toLowerCase() *)
Transform(e) == Lower(e)

(* The answers.  HttpExceptionFilter keeps the status; the code is the one    *)
(* the exception was made with, and a ConflictException made from a string    *)
(* has none.                                                                 *)
Response(status, code) == [status |-> status, code |-> code]

None == Response(0, "none")
Created == Response(201, "none")
ApiKeyMissing == Response(401, "none")
ValidationFailed == Response(400, "VALIDATION_ERROR")
Conflict == Response(409, "INTERNAL_SERVER_ERROR")
RequestTimeout == Response(408, "INTERNAL_SERVER_ERROR")
ConnectionReset == Response(0, "reset")

(* Mutant: every violated constraint is a duplicate. *)
QueryFailedCoarse(constraint) ==
    IF constraint # "none" THEN Response(409, "AUTH_EMAIL_EXISTS")
                           ELSE Response(500, "INTERNAL_SERVER_ERROR")

(* TypeOrmExceptionFilter: 23505 is the unique index, the rest a fault. *)
QueryFailed(constraint) ==
    IF constraint = "unique" THEN Response(409, "AUTH_EMAIL_EXISTS")
                             ELSE Response(500, "INTERNAL_SERVER_ERROR")

(* Mutant: degraded, whatever is down, unless everything is. *)
AggregateLenient(found) ==
    IF \A d \in Deps : found[d] = "down" THEN "unhealthy"
    ELSE IF \E d \in Deps : found[d] = "down" THEN "degraded" ELSE "healthy"

(* checkHealth: the status of the whole. *)
Aggregate(found) ==
    IF found["postgresql"] = "down" THEN "unhealthy"
    ELSE IF \E d \in Deps : found[d] = "down" THEN "degraded" ELSE "healthy"

-----------------------------------------------------------------------------
Unsent == [pc |-> "unsent", email |-> Lower([address |-> CHOOSE a \in Addresses : TRUE,
                                             upper |-> FALSE])]

AtWork(r) == req[r].pc \notin {"unsent", "done"}

Goto(r, pc) == req' = [req EXCEPT ![r] = [@ EXCEPT !.pc = pc]]

(* The handler ends; its answer goes out unless another has. *)
Reply(r, a) ==
    /\ Goto(r, "done")
    /\ answer' = [answer EXCEPT ![r] = IF @ = None THEN a ELSE @]

Holds(u, e) == Lower(u.email) = Lower(e)
Exists(id) == \E u \in users : u.id = id

-----------------------------------------------------------------------------
(* ApiKeyMiddleware answers a request without the key, and so would          *)
(* InternalApiKeyGuard; /health is excluded from both.                       *)
RefuseKey(r) ==
    /\ req[r].pc = "unsent"
    /\ Reply(r, ApiKeyMissing)
    /\ UNCHANGED <<database, announced, links, probes, faults, ghosts>>

(* CustomValidationPipe finds the body of a registration invalid. *)
RefuseBody(r) ==
    /\ req[r].pc = "unsent"
    /\ Reply(r, ValidationFailed)
    /\ UNCHANGED <<database, announced, links, probes, faults, ghosts>>

(* A registration that is let through, with the address of the DTO. *)
Register(r, e) ==
    /\ req[r].pc = "unsent"
    /\ req' = [req EXCEPT ![r] = [pc |-> "check", email |-> Transform(e)]]
    /\ holders' = [holders EXCEPT ![r] = {u.id : u \in {v \in users : Holds(v, e)}}]
    /\ UNCHANGED <<database, announced, links, probes, answer, faults, inserted, cut, window>>

(* register: findByEmail, and the 409 of a duplicate. *)
FindByEmail(r) ==
    /\ req[r].pc = "check" /\ up["postgresql"]
    /\ \/ /\ \E u \in users : Holds(u, req[r].email)
          /\ Reply(r, Conflict)
       \/ /\ \A u \in users : ~Holds(u, req[r].email)
          /\ Goto(r, "insert")
          /\ UNCHANGED answer
    /\ UNCHANGED <<database, announced, links, probes, faults, ghosts>>

(* createCredential: the password is hashed, then the INSERT, which the       *)
(* unique index on "email" as it is spelled may refuse.                       *)
CreateCredential(r) ==
    LET e == req[r].email IN
    /\ req[r].pc = "insert" /\ up["postgresql"]
    /\ \/ /\ \E u \in users : u.email = e
          /\ Reply(r, QueryFailed("unique"))
          /\ UNCHANGED <<users, inserted, holders>>
       \/ /\ \A u \in users : u.email # e
          /\ users' = users \cup {[id |-> r, email |-> e]}
          /\ inserted' = inserted \cup {r}
          /\ holders' = [q \in Reqs |-> IF AtWork(q) /\ q # r /\ Lower(req[q].email) = Lower(e)
                                        THEN holders[q] \cup {r} ELSE holders[q]]
          /\ Goto(r, "issue")
          /\ UNCHANGED answer
    /\ UNCHANGED <<sessions, audited, announced, links, probes, faults, cut, window>>

(* generateRefreshToken: the INSERT, with a foreign key to the account. *)
GenerateRefreshToken(r) ==
    /\ req[r].pc = "issue" /\ up["postgresql"]
    /\ \/ /\ Exists(r)
          /\ sessions' = sessions \cup {r}
          /\ Goto(r, "enforce")
          /\ UNCHANGED answer
       \/ /\ ~Exists(r)
          /\ Reply(r, QueryFailed("foreign key"))
          /\ UNCHANGED sessions
    /\ UNCHANGED <<users, audited, announced, links, probes, faults, ghosts>>

(* Mutant: no event while there is no connection. *)
PublishConnected(r) ==
    /\ req[r].pc = "enforce" /\ up["postgresql"]
    /\ announced' = IF connected THEN announced \cup {r} ELSE announced
    /\ Goto(r, "audit")
    /\ UNCHANGED <<database, links, probes, answer, faults, ghosts>>

(* enforceMaxSessions counts one session and revokes none; then, without a    *)
(* pause, publishUserCreated: publish or bufferEvent, none of which waits.    *)
PublishUserCreated(r) ==
    /\ req[r].pc = "enforce" /\ up["postgresql"]
    /\ announced' = announced \cup {r}
    /\ Goto(r, "audit")
    /\ UNCHANGED <<database, links, probes, answer, faults, ghosts>>

(* auditLogRepository.create, and the answer. *)
CreateAuditLog(r) ==
    /\ req[r].pc = "audit" /\ up["postgresql"]
    /\ audited' = audited \cup {r}
    /\ Reply(r, Created)
    /\ UNCHANGED <<users, sessions, announced, links, probes, faults, ghosts>>

BeforePublish(r) == req[r].pc \in {"issue", "enforce"}

(* A statement of a registration rejects: 500, and what it has written stays. *)
StatementFails(r) ==
    /\ req[r].pc \in {"check", "insert", "issue", "enforce", "audit"}
    /\ ~up["postgresql"]
    /\ Reply(r, QueryFailed("none"))
    /\ cut' = IF BeforePublish(r) THEN cut \cup {r} ELSE cut
    /\ UNCHANGED <<database, announced, links, probes, faults, inserted, holders, window>>

-----------------------------------------------------------------------------
(* What a probe finds: a query and a PING are answered or not; checkRabbitMQ  *)
(* reads the flag of the client and asks no broker.                           *)
Now(d) == IF (IF d = "rabbitmq" THEN connected ELSE up[d]) THEN "up" ELSE "down"

(* ready: no key is asked for.  checkHealth starts its three probes; the one  *)
(* of RabbitMQ is over on the spot.                                          *)
Ready(r) ==
    /\ req[r].pc = "unsent"
    /\ Goto(r, "probe")
    /\ probes' = [probes EXCEPT ![r] = [d \in Deps |-> IF d = "rabbitmq" THEN Now(d)
                                                                      ELSE "pending"]]
    /\ window' = [window EXCEPT ![r] = [d \in Deps |-> {Now(d)}]]
    /\ UNCHANGED <<database, announced, links, answer, faults, inserted, holders, cut>>

(* A probe ends; with the last one, the answer: 200, whatever was found. *)
Probe(r, d) ==
    LET found == [probes[r] EXCEPT ![d] = Now(d)] IN
    /\ req[r].pc = "probe" /\ probes[r][d] = "pending"
    /\ probes' = [probes EXCEPT ![r] = found]
    /\ \/ /\ \E x \in Deps : found[x] = "pending"
          /\ UNCHANGED <<req, answer>>
       \/ /\ \A x \in Deps : found[x] # "pending"
          /\ Reply(r, Response(200, Aggregate(found)))
    /\ UNCHANGED <<database, announced, links, faults, ghosts>>

-----------------------------------------------------------------------------
(* Mutant: a limit for the first statement only. *)
TimesOutEarly(r) ==
    /\ req[r].pc \in {"check", "probe"} /\ answer[r] = None
    /\ answer' = [answer EXCEPT ![r] = RequestTimeout]
    /\ UNCHANGED <<database, announced, links, req, probes, faults, ghosts>>

(* TimeoutInterceptor: the answer is 408.  rxjs unsubscribes from the         *)
(* handler, which goes on; what it returns or throws then is dropped.         *)
TimesOut(r) ==
    /\ AtWork(r) /\ answer[r] = None
    /\ answer' = [answer EXCEPT ![r] = RequestTimeout]
    /\ UNCHANGED <<database, announced, links, req, probes, faults, ghosts>>

(* The instance of a handler dies. *)
Dies(r) ==
    /\ AtWork(r) /\ faults < MaxFaults
    /\ faults' = faults + 1
    /\ Reply(r, ConnectionReset)
    /\ cut' = IF BeforePublish(r) THEN cut \cup {r} ELSE cut
    /\ UNCHANGED <<database, announced, links, probes, inserted, holders, window>>

(* What the checks under way would find now. *)
Watch ==
    window' = [r \in Reqs |-> IF req[r].pc = "probe"
                              THEN [d \in Deps |-> window[r][d] \cup {Now(d)'}]
                              ELSE window[r]]

GoesDown(d) ==
    /\ up[d] /\ faults < MaxFaults
    /\ faults' = faults + 1
    /\ up' = [up EXCEPT ![d] = FALSE]
    /\ UNCHANGED <<database, announced, connected, req, probes, answer, inserted, holders, cut>>
    /\ Watch

ComesBack(d) ==
    /\ ~up[d]
    /\ up' = [up EXCEPT ![d] = TRUE]
    /\ UNCHANGED <<database, announced, connected, req, probes, answer, faults, inserted,
                   holders, cut>>
    /\ Watch

(* The client hears that its connection or channel is gone: some time after   *)
(* the broker, or with the broker up.                                        *)
Disconnects ==
    /\ connected
    /\ connected' = FALSE
    /\ UNCHANGED <<database, announced, up, req, probes, answer, faults, inserted, holders, cut>>
    /\ Watch

(* connect() has had its answers from the broker.  It may never be called      *)
(* again, and the flag stay down with the broker up: no fairness.             *)
Reconnects ==
    /\ ~connected /\ up["rabbitmq"]
    /\ connected' = TRUE
    /\ UNCHANGED <<database, announced, up, req, probes, answer, faults, inserted, holders, cut>>
    /\ Watch

Outage ==
    \/ \E d \in Deps : GoesDown(d) \/ ComesBack(d)
    \/ Disconnects \/ Reconnects

(* deleteCredentials, with the cascade to refresh_tokens. *)
DeleteCredentials(u) ==
    /\ users' = users \ {u}
    /\ sessions' = sessions \ {u.id}
    /\ UNCHANGED <<audited, announced, links, req, probes, answer, faults, ghosts>>

-----------------------------------------------------------------------------
Init ==
    /\ users = {} /\ sessions = {} /\ announced = {} /\ audited = {}
    /\ up = [d \in Deps |-> TRUE] /\ connected \in BOOLEAN
    /\ req = [r \in Reqs |-> Unsent]
    /\ probes = [r \in Reqs |-> [d \in Deps |-> "pending"]]
    /\ answer = [r \in Reqs |-> None]
    /\ faults = 0
    /\ inserted = {} /\ cut = {}
    /\ holders = [r \in Reqs |-> {}]
    /\ window = [r \in Reqs |-> [d \in Deps |-> {}]]

Registration(r) ==
    \/ \E e \in Email : Register(r, e)
    \/ FindByEmail(r) \/ CreateCredential(r) \/ GenerateRefreshToken(r)
    \/ PublishUserCreated(r) \/ CreateAuditLog(r) \/ StatementFails(r)

HealthCheck(r) == Ready(r) \/ \E d \in Deps : Probe(r, d)

Next ==
    \/ \E r \in Reqs : \/ RefuseKey(r) \/ RefuseBody(r)
                       \/ Registration(r) \/ HealthCheck(r)
                       \/ TimesOut(r) \/ Dies(r)
    \/ Outage
    \/ \E u \in users : DeleteCredentials(u)

Spec == Init /\ [][Next]_vars

(* The timer of a request fires.  Nothing is assumed of the stores, which     *)
(* may leave a statement waiting for ever.                                   *)
FairSpec == Spec /\ \A r \in Reqs : WF_vars(TimesOut(r))

-----------------------------------------------------------------------------
(* Properties *)

Answers == {None, Created, ApiKeyMissing, ValidationFailed, Conflict, RequestTimeout,
            ConnectionReset, QueryFailed("unique"), QueryFailed("none")}
           \cup {Response(200, s) : s \in {"healthy", "degraded", "unhealthy"}}

(* Every variable holds a value of its kind, the refresh tokens belong to     *)
(* accounts, and a request without an answer is not over.                     *)
TypeOK ==
    /\ users \subseteq [id : Reqs, email : Email]
    /\ \A r \in sessions : Exists(r)
    /\ announced \subseteq inserted /\ audited \subseteq announced
    /\ up \in [Deps -> BOOLEAN] /\ connected \in BOOLEAN
    /\ req \in [Reqs -> [pc : {"unsent", "check", "insert", "issue", "enforce", "audit",
                               "probe", "done"}, email : Email]]
    /\ probes \in [Reqs -> [Deps -> {"pending", "up", "down"}]]
    /\ answer \in [Reqs -> Answers]
    /\ \A r \in Reqs : req[r].pc = "done" => answer[r] # None
    /\ faults \in 0..MaxFaults
    /\ inserted \subseteq Reqs /\ cut \subseteq inserted
    /\ holders \in [Reqs -> SUBSET inserted]
    /\ window \in [Reqs -> [Deps -> SUBSET {"up", "down"}]]

(* Accounts are looked up by LOWER(email), but the index is on email, and the *)
(* look-up of a registration is two awaits before its INSERT: concurrent      *)
(* registrations still leave one account for an address, in any spelling.      *)
OneAccountPerAddress ==
    \A u, v \in users : Holds(u, v.email) => u = v

(* An answer that says what happened is true, although the request ran beside *)
(* others, deletions and outages: 201 means an account with its session, its   *)
(* event and its audit entry; 409, from the look-up or from the index, that    *)
(* this request created nothing and another account held the address           *)
(* meanwhile; 400 and 401 that nothing was created.                            *)
AnswersAreTrue ==
    \A r \in Reqs :
        /\ answer[r] = Created => /\ r \in inserted \cap announced \cap audited
                                  /\ Exists(r) => r \in sessions
        /\ answer[r].status = 409 => r \notin inserted /\ holders[r] # {}
        /\ answer[r].status \in {400, 401} => r \notin inserted

(* "Publish domain event (fire-and-forget)": the four statements before it     *)
(* are committed one by one.  An account whose registration is over has been   *)
(* announced, whatever its client was told and whether or not the broker was   *)
(* there, unless the handler was stopped between the account and the event.    *)
AnnouncedUnlessCut ==
    \A u \in users : req[u.id].pc = "done" => u.id \in announced \cup cut

(* The three probes look at different moments, so "healthy" need not mean that *)
(* everything was up at once.  It does mean that at some moments of the check  *)
(* PostgreSQL and Redis each were up and the RabbitMQ client took itself for   *)
(* connected, "degraded" that PostgreSQL was up and one of the others not, and *)
(* "unhealthy" that PostgreSQL was down.  Of the broker it says nothing.       *)
HealthIsWitnessed ==
    \A r \in Reqs : answer[r].status = 200 =>
        /\ answer[r].code = "healthy" => \A d \in Deps : "up" \in window[r][d]
        /\ answer[r].code = "degraded" =>
              "up" \in window[r]["postgresql"] /\ \E d \in Deps : "down" \in window[r][d]
        /\ answer[r].code = "unhealthy" => "down" \in window[r]["postgresql"]

(* A request is answered although no store answers it. *)
EveryRequestAnswered ==
    \A r \in Reqs : (req[r].pc # "unsent") ~> (answer[r] # None)

-----------------------------------------------------------------------------
(* What the documentation says, and the code does not guarantee. *)

(* "503: Service or one or more dependencies are unhealthy" *)
ReadyTellsUnhealthy ==
    \A r \in Reqs : answer[r].code = "unhealthy" => answer[r].status = 503

(* "'healthy': All three dependencies (PostgreSQL, Redis, RabbitMQ) are up": a  *)
(* check does not find a broker up that is down.                              *)
ProbeAsksBroker ==
    [][\A r \in Reqs : Ready(r) /\ ~up["rabbitmq"] => probes'[r]["rabbitmq"] = "down"]_vars

(* A registration that answers an error has created no account. *)
FailureCreatesNothing ==
    \A r \in Reqs : answer[r].status \in {408, 500} => r \notin inserted

(* A duplicate is reported with the code AUTH_EMAIL_EXISTS. *)
DuplicateHasCode ==
    \A r \in Reqs : answer[r].status = 409 => answer[r].code = "AUTH_EMAIL_EXISTS"
=============================================================================
