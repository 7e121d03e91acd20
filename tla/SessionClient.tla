---------------------------- MODULE SessionClient ----------------------------
(***************************************************************************)
(* RefreshTokens composed with the devices that use it.  A device has one    *)
(* request out at a time and keeps the refresh token of the last answer.     *)
(* When no answer comes, because the timeout interceptor has answered 408 or *)
(* the instance has died, the device repeats the request or logs in again,   *)
(* while the handler of the first request goes on: the interceptor           *)
(* unsubscribes from it and cancels nothing.                                 *)
(***************************************************************************)
EXTENDS RefreshTokens

CONSTANTS
    Devices,
    MaxLosses       \* bound: answers that a device does not wait for

ASSUME ClientAssumption ==
    /\ IsFiniteSet(Devices)
    /\ MaxLosses \in Nat
    /\ None \notin Procs

VARIABLES
    holds,          \* the refresh token a device keeps
    serving,        \* the handler that serves its request
    losses,         \* requests that ended without their answer
    doubtful,       \* auxiliary: tokens presented by such a request
    raced           \* auxiliary: tokens read again between a read and its revocation

device == <<holds, serving, losses, doubtful, raced>>
allVars == <<vars, device>>

-----------------------------------------------------------------------------
Resting(d) == serving[d] = None

(* No request is out: the guards of a device that sends one through p. *)
Sends(d, p) ==
    /\ Resting(d)
    /\ serving' = [serving EXCEPT ![d] = p]
    /\ UNCHANGED <<holds, losses, doubtful>>

(* POST /auth/login, by a device without a session. *)
SendLogin(d, p, u) ==
    /\ holds[d] = None
    /\ BeginLogin(p, u)
    /\ Sends(d, p)
    /\ UNCHANGED raced

(* A handler has found token t active and not yet revoked it. *)
Rotating(t) == \E p \in Procs : req[p].pc = "rotate" /\ req[p].token = t

(* POST /auth/refresh-token with the token it keeps. *)
SendRefresh(d, p) ==
    LET t == holds[d] IN
    /\ t # None
    /\ \/ /\ RefreshAccepted(p, t)
          /\ raced' = IF Rotating(t) THEN raced \cup {t} ELSE raced
       \/ /\ RefreshReused(p, t)
          /\ UNCHANGED raced
    /\ Sends(d, p)

(* The refresh is refused: no row, or one that is expired and not revoked. *)
Refused(d) ==
    LET t == holds[d] IN
    /\ Resting(d) /\ t # None
    /\ ~IsStored(t) \/ (~row[t].revoked /\ row[t].age = Past)
    /\ holds' = [holds EXCEPT ![d] = None]
    /\ UNCHANGED <<vars, serving, losses, doubtful, raced>>

(* POST /auth/logout with the token it keeps. *)
SendLogout(d, p) ==
    /\ holds[d] # None
    /\ BeginLogout(p, holds[d])
    /\ Sends(d, p)
    /\ UNCHANGED raced

(* Mutant: the answer of a refresh carries the token it was sent. *)
AnswerStale(d, p) ==
    /\ serving[d] = p
    /\ serving' = [serving EXCEPT ![d] = None]
    /\ \/ /\ handed' = handed
          /\ holds' = [holds EXCEPT ![d] = None]
       \/ /\ handed' # handed
          /\ holds' = [holds EXCEPT ![d] = req[p].token]

(* The answer of handler p: the refresh token of a login or a refresh, the   *)
(* end of the session of a logout, or an error, after which the device logs  *)
(* in again.                                                                 *)
Answer(d, p) ==
    /\ serving[d] = p
    /\ serving' = [serving EXCEPT ![d] = None]
    /\ \/ /\ handed' = handed
          /\ holds' = [holds EXCEPT ![d] = None]
       \/ \E t \in handed' \ handed : holds' = [holds EXCEPT ![d] = t]

(* A statement of handler p; with the last one it answers, if the device     *)
(* still waits.                                                              *)
Serve(p) ==
    /\ Step(p)
    /\ \/ /\ req'[p].pc # "idle" \/ \A d \in Devices : serving[d] # p
          /\ UNCHANGED <<holds, serving>>
       \/ /\ req'[p].pc = "idle"
          /\ \E d \in Devices : Answer(d, p)
    /\ UNCHANGED <<losses, doubtful, raced>>

(* The device is left without an answer: it will repeat the request with the *)
(* token it keeps, or forget that token and log in again.                    *)
Unanswered(d) ==
    /\ losses' = losses + 1
    /\ serving' = [serving EXCEPT ![d] = None]
    /\ \E t \in {holds[d], None} : holds' = [holds EXCEPT ![d] = t]
    /\ doubtful' = doubtful \cup ({holds[d]} \ {None})
    /\ UNCHANGED raced

(* TimeoutInterceptor: 408, and the handler goes on. *)
TimesOut(d) ==
    /\ ~Resting(d)
    /\ losses < MaxLosses
    /\ Unanswered(d)
    /\ UNCHANGED vars

(* A query rejects or the instance dies, with or without a device waiting. *)
Dies(p) ==
    /\ Abort(p)
    /\ \/ /\ \A d \in Devices : serving[d] # p
          /\ UNCHANGED device
       \/ \E d \in Devices : serving[d] = p /\ Unanswered(d)

(* The cleanup job, deletions and revocations by others, and time. *)
Elsewhere ==
    /\ \/ \E t \in Tokens : RevokeSession(t) \/ Age(t)
       \/ \E u \in Users : RevokeAllUserTokens(u) \/ DeleteAccount(u)
       \/ Cleanup
    /\ UNCHANGED device

-----------------------------------------------------------------------------
ClientInit ==
    /\ Init
    /\ holds = [d \in Devices |-> None]
    /\ serving = [d \in Devices |-> None]
    /\ losses = 0
    /\ doubtful = {} /\ raced = {}

Requests(d, p) ==
    \/ \E u \in Users : SendLogin(d, p, u)
    \/ SendRefresh(d, p) \/ SendLogout(d, p)

ClientNext ==
    \/ \E d \in Devices, p \in Procs : Requests(d, p)
    \/ \E d \in Devices : Refused(d) \/ TimesOut(d)
    \/ \E p \in Procs : Serve(p) \/ Dies(p)
    \/ Elsewhere

ClientSpec == ClientInit /\ [][ClientNext]_allVars

-----------------------------------------------------------------------------
(* Properties *)

(* A device keeps a token that was handed out, no two devices share a handler *)
(* or a token, and a handler that is waited for is at work.                   *)
ClientTypeOK ==
    /\ TypeOK
    /\ holds \in [Devices -> handed \cup {None}]
    /\ serving \in [Devices -> Procs \cup {None}]
    /\ losses \in Nat
    /\ doubtful \subseteq handed /\ raced \subseteq handed
    /\ \A d \in Devices : serving[d] # None => req[serving[d]].pc # "idle"
    /\ \A d, e \in Devices : d # e => /\ serving[d] = serving[e] => serving[d] = None
                                      /\ holds[d] = holds[e] => holds[d] = None

(* Refresh tokens are "single-use with rotation", although the test of        *)
(* revoked and the revocation are two statements: a request that is repeated  *)
(* while the first still runs is accepted as well.  What that can cost is     *)
(* bounded: there is at most one active session for every device that keeps a *)
(* token or waits for one, and one for every answer that did not arrive.       *)
Using == {d \in Devices : holds[d] # None \/ ~Resting(d)}

SessionsAccounted ==
    Cardinality(UNION {Active(u) : u \in Users}) <= Cardinality(Using) + losses

(* "Single-use": a token is exchanged twice only if a second refresh reads it   *)
(* before the first has revoked it.  From then on no request that repeats it,  *)
(* because an answer was lost or a handler died between its statements, gets a *)
(* second successor: not beside the first handler, not after it, not when the  *)
(* successors, or the token, have been revoked or deleted.                     *)
SingleUseUnlessRaced ==
    \A s, t \in Tokens :
        s # t /\ parent[s] = parent[t] /\ parent[s] # None => parent[s] \in raced

(* Reuse detection ends every session of a user.  A device that gets its      *)
(* answers never sets it off with a token it has exchanged: behind it is a     *)
(* request whose answer was lost, or a token that something else ended.        *)
ReuseHasCause ==
    \A p \in Procs : req[p].pc = "reuse" =>
        \/ req[p].token \in doubtful
        \/ \A s \in Tokens : parent[s] # req[p].token

-----------------------------------------------------------------------------
(* What the comments say, and the code does not guarantee. *)

(* "If a revoked refresh token is presented" its user is replaying an old      *)
(* token, or it was stolen before it was rotated: it has been exchanged.       *)
ReuseMeansReplay ==
    \A p \in Procs : req[p].pc = "reuse" =>
        \E s \in Tokens : parent[s] = req[p].token
=============================================================================
