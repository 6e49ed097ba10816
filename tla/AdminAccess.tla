----------------------------- MODULE AdminAccess -----------------------------
(***************************************************************************)
(* The administrators of the operator: the first one is set up by anyone,  *)
(* the others are created and deleted by administrators.  An administrator *)
(* logs in by signing a challenge, and then presents a token.              *)
(*                                                                         *)
(* The operator keeps no challenge and no token.  A challenge is proved by *)
(* its MAC, whose secret changes at midnight and with the process; a token *)
(* by its signature, whose secret is kept in a file.                       *)
(***************************************************************************)
EXTENDS Naturals

CONSTANTS
    Users,              \* public keys
    Handlers,           \* slots for calls being served at the same time
    NoUser, NoToken,    \* null
    ChallengeValidity,  \* five minutes
    TokenValidity,      \* operator.admin.jwt.tokenValidity
    Midnight,           \* when the cron job runs
    MaxTime,            \* bound on the clock
    MaxCalls,           \* bound on the calls that arrive
    MaxFailures         \* bound on the calls given up and the crashes

ASSUME NullAssumption == NoUser \notin Users
ASSUME TimesAssumption ==
    /\ ChallengeValidity \in Nat /\ TokenValidity \in Nat \ {0}
    /\ Midnight \subseteq Nat
    /\ MaxTime \in Nat

VARIABLES
    users,      \* the public keys in the table "user"
    hmacSecret, \* the secret of ChallengeService, which each draw replaces
    challenges, \* the challenges handed out
    tokens,     \* the tokens handed out
    call,       \* call[h]: the call slot h is serving
    now,        \* the clock
    renewed,    \* the times at which the cron job has run
    deletedAt,  \* history: when each public key was last deleted
    calls, failures

vars == <<users, hmacSecret, challenges, tokens, call, now, renewed, deletedAt, calls, failures>>

-----------------------------------------------------------------------------
(* Data.  A challenge is what its MAC covers, and the secret of the MAC.    *)

Times == 0..(MaxTime + ChallengeValidity + TokenValidity)
Challenge == [secret : Nat, expires : Times]
NoChallenge == [secret |-> 0, expires |-> 0]

\* asked: when the call arrived that the token answers
Token == [user : Users, expires : Times, asked : Times]

\* user: whom the call sets up or logs in; since: when it arrived
Call == [pc : {"idle", "countUsers", "createFirst", "findUser", "signToken", "guard", "crud"},
         user : Users \cup {NoUser}, challenge : Challenge, token : Token \cup {NoToken},
         since : Times]
Idle == [pc |-> "idle", user |-> NoUser, challenge |-> NoChallenge, token |-> NoToken, since |-> 0]

Never == MaxTime + 1

TypeOK ==
    /\ users \subseteq Users
    /\ hmacSecret \in Nat \ {0}
    /\ challenges \subseteq {c \in Challenge : c.secret \in 1..hmacSecret}
    /\ tokens \subseteq Token
    /\ call \in [Handlers -> Call]
    /\ now \in 0..MaxTime
    /\ renewed \subseteq Midnight
    /\ deletedAt \in [Users -> 0..Never]
    /\ calls \in Nat /\ failures \in Nat

Init ==
    /\ users = {}
    /\ hmacSecret = 1
    /\ challenges = {} /\ tokens = {}
    /\ call = [h \in Handlers |-> Idle]
    /\ now = 0
    /\ renewed = {}
    /\ deletedAt = [u \in Users |-> Never]
    /\ calls = 0 /\ failures = 0

\* Bounds of the model.
Arrives == calls < MaxCalls /\ calls' = calls + 1
FailureLeft == failures < MaxFailures /\ failures' = failures + 1

Goto(h, c) == call' = [call EXCEPT ![h] = c]
SameClock == UNCHANGED <<hmacSecret, now, renewed>>

-----------------------------------------------------------------------------
(* POST /setup: the users are counted, and the first one is created.        *)

Setup(h, u) ==
    /\ call[h].pc = "idle" /\ Arrives
    /\ Goto(h, [Idle EXCEPT !.pc = "countUsers", !.user = u])
    /\ SameClock /\ UNCHANGED <<users, challenges, tokens, deletedAt, failures>>

CountUsers(h) ==
    /\ call[h].pc = "countUsers"
    /\ Goto(h, IF users = {} THEN [call[h] EXCEPT !.pc = "createFirst"] ELSE Idle)
    /\ SameClock /\ UNCHANGED <<users, challenges, tokens, deletedAt, calls, failures>>

\* save() inserts the user, or updates the one of that key.
CreateFirstUser(h) ==
    /\ call[h].pc = "createFirst"
    /\ users' = users \cup {call[h].user}
    /\ Goto(h, Idle)
    /\ SameClock /\ UNCHANGED <<challenges, tokens, deletedAt, calls, failures>>

-----------------------------------------------------------------------------
(* POST /login/wallet/challenge and /verify.                                *)

GenerateChallenge ==
    /\ Arrives
    /\ challenges' = challenges \cup {[secret |-> hmacSecret, expires |-> now + ChallengeValidity]}
    /\ SameClock /\ UNCHANGED <<users, tokens, call, deletedAt, failures>>

IsValidWithoutDate(c, expires) ==  \* Mutant: the MAC does not cover the date.
    now <= expires /\ c.secret = hmacSecret

\* The date is the one the client sends back, which the MAC covers.
IsValid(c, expires) ==
    /\ now <= expires
    /\ c.secret = hmacSecret /\ c.expires = expires

\* An invalid challenge, or signature, is answered 401 at once, with no effect.
VerifyChallenge(h, c, expires, u) ==
    /\ call[h].pc = "idle" /\ Arrives
    /\ c \in challenges
    /\ IsValid(c, expires)
    /\ Goto(h, [Idle EXCEPT !.pc = "findUser", !.user = u, !.challenge = c, !.since = now])
    /\ SameClock /\ UNCHANGED <<users, challenges, tokens, deletedAt, failures>>

FindUserNotAwaited(h) ==  \* Mutant: a pending promise is never falsy.
    /\ call[h].pc = "findUser"
    /\ Goto(h, [call[h] EXCEPT !.pc = "signToken"])
    /\ SameClock /\ UNCHANGED <<users, challenges, tokens, deletedAt, calls, failures>>

FindUserByPublicKey(h) ==
    /\ call[h].pc = "findUser"
    /\ Goto(h, IF call[h].user \in users THEN [call[h] EXCEPT !.pc = "signToken"] ELSE Idle)
    /\ SameClock /\ UNCHANGED <<users, challenges, tokens, deletedAt, calls, failures>>

\* The row was read some time ago.
SignToken(h) ==
    /\ call[h].pc = "signToken"
    /\ tokens' = tokens \cup {[user |-> call[h].user, expires |-> now + TokenValidity,
                               asked |-> call[h].since]}
    /\ Goto(h, Idle)
    /\ SameClock /\ UNCHANGED <<users, challenges, deletedAt, calls, failures>>

-----------------------------------------------------------------------------
(* A call to the other routes of /admin/api, with a token or with none.     *)

Request(h, t) ==
    /\ call[h].pc = "idle" /\ Arrives
    /\ Goto(h, [Idle EXCEPT !.pc = "guard", !.token = t, !.since = now])
    /\ SameClock /\ UNCHANGED <<users, challenges, tokens, deletedAt, failures>>

IsToken(t) == t # NoToken  \* Mutant: the token is decoded, and not verified.

\* JwtTokenBearerGuard looks at the token alone, not at the table of users.
Verifies(t) == t # NoToken /\ t.expires > now

CanActivate(h) ==
    /\ call[h].pc = "guard"
    /\ Goto(h, IF Verifies(call[h].token) THEN [call[h] EXCEPT !.pc = "crud"] ELSE Idle)
    /\ SameClock /\ UNCHANGED <<users, challenges, tokens, deletedAt, calls, failures>>

CreateUser(h, u) ==
    /\ call[h].pc = "crud"
    /\ users' = users \cup {u}
    /\ Goto(h, Idle)
    /\ SameClock /\ UNCHANGED <<challenges, tokens, deletedAt, calls, failures>>

\* No user is too important: an administrator may delete the last one.
DeleteUser(h, u) ==
    /\ call[h].pc = "crud"
    /\ u \in users
    /\ users' = users \ {u}
    /\ deletedAt' = [deletedAt EXCEPT ![u] = now]
    /\ Goto(h, Idle)
    /\ SameClock /\ UNCHANGED <<challenges, tokens, calls, failures>>

\* Another operation: a read, or a change of another table.
OtherOperation(h) ==
    /\ call[h].pc = "crud"
    /\ Goto(h, Idle)
    /\ SameClock /\ UNCHANGED <<users, challenges, tokens, deletedAt, calls, failures>>

-----------------------------------------------------------------------------
(* The clock, the cron job, failures and restarts.                          *)

Tick ==
    /\ now < MaxTime
    /\ now' = now + 1
    /\ UNCHANGED <<users, hmacSecret, challenges, tokens, call, renewed, deletedAt, calls, failures>>

RenewHmacSecret ==
    /\ now \in Midnight \ renewed
    /\ renewed' = renewed \cup {now}
    /\ hmacSecret' = hmacSecret + 1
    /\ UNCHANGED <<users, challenges, tokens, call, now, deletedAt, calls, failures>>

\* A database operation fails, or the answer is lost.
Fails(h) ==
    /\ call[h].pc # "idle" /\ FailureLeft
    /\ Goto(h, Idle)
    /\ SameClock /\ UNCHANGED <<users, challenges, tokens, deletedAt, calls>>

RestartWithoutSecret ==  \* Mutant: only the cron job draws a secret.
    /\ FailureLeft
    /\ call' = [h \in Handlers |-> Idle]
    /\ hmacSecret' = 0
    /\ UNCHANGED <<users, challenges, tokens, now, renewed, deletedAt, calls>>

\* The process dies and restarts: the secret of the MACs is drawn again, that
\* of the tokens is read from its file.
Restart ==
    /\ FailureLeft
    /\ call' = [h \in Handlers |-> Idle]
    /\ hmacSecret' = hmacSecret + 1
    /\ UNCHANGED <<users, challenges, tokens, now, renewed, deletedAt, calls>>

-----------------------------------------------------------------------------
Next ==
    \/ \E h \in Handlers, u \in Users : Setup(h, u)
    \/ \E h \in Handlers : CountUsers(h) \/ CreateFirstUser(h)
    \/ GenerateChallenge
    \/ \E h \in Handlers, c \in challenges, expires \in Times, u \in Users :
          VerifyChallenge(h, c, expires, u)
    \/ \E h \in Handlers : FindUserByPublicKey(h) \/ SignToken(h)
    \/ \E h \in Handlers, t \in tokens \cup {NoToken} : Request(h, t)
    \/ \E h \in Handlers : CanActivate(h) \/ OtherOperation(h) \/ Fails(h)
    \/ \E h \in Handlers, u \in Users : CreateUser(h, u) \/ DeleteUser(h, u)
    \/ Tick
    \/ RenewHmacSecret
    \/ Restart

Spec == Init /\ [][Next]_vars

-----------------------------------------------------------------------------
(* Properties.                                                              *)

\* A challenge serves only until it expires: the date a client sends back can
\* not be a later one, though the operator keeps no record of the challenge.
LoginIsTimely ==
    \A h \in Handlers : call[h].pc \in {"findUser", "signToken"} =>
        call[h].since <= call[h].challenge.expires

\* Every token was asked for while its user was an administrator, or before the
\* user was last deleted: verify looks the user up, and a deleted user gets no
\* new token.  (The ones it has serve until they expire.)
TokensAreOfUsers ==
    \A t \in tokens :
        t.user \in users \/ (deletedAt[t.user] # Never /\ t.asked <= deletedAt[t.user])

\* Every change of the table of users that is not a setup is one of a call that
\* came with a token of the operator that had not expired, so that the access
\* of a deleted user ends.
AdmittedHasToken ==
    \A h \in Handlers : call[h].pc = "crud" =>
        call[h].token \in tokens /\ call[h].since < call[h].token.expires

\* setup answers 'Server is already initialized' once there is a user, so it
\* creates a user only when there is none.
SetupIsFirst ==
    [][\A h \in Handlers :
          call[h].pc = "createFirst" /\ users' # users => users = {}]_vars
=============================================================================
