-------------------------- MODULE AdminAccessProofs --------------------------
(***************************************************************************)
(* Proofs about AdminAccess, for any users, any number of concurrent       *)
(* calls, any validities and any hours at which the cron job runs.         *)
(***************************************************************************)
EXTENDS AdminAccess, TLAPS

(***************************************************************************)
(* The inductive invariant.                                                *)
(***************************************************************************)

\* A user u that was looked up at time t has been a user since then, or was
\* deleted after it.
WasUser(u, t) == u \in users \/ (deletedAt[u] # Never /\ t <= deletedAt[u])

UserFits(c) ==
    /\ c.pc \in {"countUsers", "createFirst", "findUser", "signToken"} => c.user \in Users
    /\ c.pc = "signToken" => WasUser(c.user, c.since)

TokenFits(c) ==
    /\ c.pc \in {"guard", "crud"} => c.token \in tokens \cup {NoToken}
    /\ c.pc = "crud" => c.token \in tokens /\ c.since < c.token.expires

ChallengeFits(c) ==
    c.pc \in {"findUser", "signToken"} => c.since <= c.challenge.expires

CallFits(h) ==
    /\ UserFits(call[h]) /\ TokenFits(call[h]) /\ ChallengeFits(call[h])
    /\ call[h].since <= now

TokensFit == \A t \in tokens : t.asked <= now /\ WasUser(t.user, t.asked)

IInv ==
    /\ TypeOK
    /\ \A h \in Handlers : CallFits(h)
    /\ TokensFit

-----------------------------------------------------------------------------
(* Types.                                                                   *)

LEMMA Clock ==
    ASSUME IInv
    PROVE  /\ now \in Nat /\ MaxTime \in Nat /\ now <= MaxTime /\ now \in Times
           /\ now # Never /\ now \in 0..Never
           /\ now + ChallengeValidity \in Times /\ now + TokenValidity \in Times
           /\ now + TokenValidity > now
           /\ \A t \in Times : t \in Nat
BY TimesAssumption DEF IInv, TypeOK, Times, Never

LEMMA IdleTyped == Idle \in Call /\ Idle.pc = "idle" /\ Idle.since = 0
<1>1. 0 \in Times
  BY TimesAssumption DEF Times
<1>2. NoChallenge \in Challenge
  BY <1>1 DEF NoChallenge, Challenge
<1>. QED
  BY <1>1, <1>2 DEF Idle, Call

LEMMA IdleFits ==
    ASSUME IInv, NEW h \in Handlers, call'[h] = Idle, now' \in Nat
    PROVE  CallFits(h)'
BY IdleTyped DEF CallFits, UserFits, TokenFits, ChallengeFits

LEMMA InvInit == Init => IInv
<1>. SUFFICES ASSUME Init PROVE IInv
  OBVIOUS
<1>1. TypeOK
  BY IdleTyped, TimesAssumption DEF Init, TypeOK, Never
<1>2. \A h \in Handlers : CallFits(h)
  BY IdleTyped DEF Init, CallFits, UserFits, TokenFits, ChallengeFits
<1>. QED
  BY <1>1, <1>2 DEF IInv, TokensFit, Init

-----------------------------------------------------------------------------
(* A step that gives slot h the call c, and changes nothing that the other  *)
(* calls and the tokens depend on for the worse.                            *)

Keeps ==
    /\ now' \in Nat /\ now <= now'
    /\ tokens \subseteq tokens'
    /\ \A u \in Users, t \in Nat : t <= now /\ WasUser(u, t) => WasUser(u, t)'

LEMMA OthersFit ==
    ASSUME IInv, Keeps, NEW g \in Handlers, call'[g] = call[g]
    PROVE  CallFits(g)'
<1>0. CallFits(g) /\ call[g] \in Call /\ now \in Nat /\ call[g].since \in Nat
  BY Clock DEF IInv, TypeOK, Call
<1>1. UserFits(call[g])'
  BY <1>0 DEF CallFits, UserFits, Keeps
<1>2. TokenFits(call[g])' /\ ChallengeFits(call[g])'
  BY <1>0 DEF CallFits, TokenFits, ChallengeFits, Keeps
<1>3. call'[g].since <= now'
  BY <1>0 DEF CallFits, Keeps
<1>. QED
  BY <1>1, <1>2, <1>3 DEF CallFits

LEMMA CallsFit ==
    ASSUME IInv, Keeps, NEW h \in Handlers, NEW c \in Call, Goto(h, c),
           call'[h] = c => CallFits(h)'
    PROVE  call' \in [Handlers -> Call] /\ \A g \in Handlers : CallFits(g)'
<1>1. call' \in [Handlers -> Call] /\ call'[h] = c /\ \A g \in Handlers \ {h} : call'[g] = call[g]
  BY DEF IInv, TypeOK, Goto
<1>. QED
  BY <1>1, OthersFit

LEMMA SameUsersKeep ==
    ASSUME IInv, UNCHANGED <<users, deletedAt, now>>, tokens \subseteq tokens'
    PROVE  Keeps
BY Clock DEF Keeps, WasUser

LEMMA MoreUsersKeep ==
    ASSUME IInv, UNCHANGED <<deletedAt, now, tokens>>, users \subseteq users'
    PROVE  Keeps
BY Clock DEF Keeps, WasUser

\* A deletion is later than all that came before it.
LEMMA DeletionKeeps ==
    ASSUME IInv, NEW u \in Users, UNCHANGED <<now, tokens>>, users' = users \ {u},
           deletedAt' = [deletedAt EXCEPT ![u] = now]
    PROVE  Keeps
<1>1. deletedAt \in [Users -> 0..Never]
  BY DEF IInv, TypeOK
<1>2. ASSUME NEW v \in Users, NEW t \in Nat, t <= now, WasUser(v, t) PROVE WasUser(v, t)'
  <2>1. CASE v = u
    BY <1>1, <1>2, <2>1, Clock DEF WasUser, Never
  <2>2. CASE v # u
    BY <1>1, <1>2, <2>2 DEF WasUser, Never
  <2>. QED
    BY <2>1, <2>2
<1>. QED
  BY <1>2, Clock DEF Keeps

LEMMA OldTokensFit ==
    ASSUME IInv, Keeps
    PROVE  \A t \in tokens : t.asked <= now' /\ WasUser(t.user, t.asked)'
<1>1. \A t \in tokens : t.user \in Users /\ t.asked \in Nat
  BY Clock DEF IInv, TypeOK, Token
<1>. QED
  BY <1>1, Clock DEF IInv, TokensFit, Keeps

\* What remains to be shown of a step that keeps what the calls depend on.
LEMMA StepSuffices ==
    ASSUME IInv, Keeps, UNCHANGED tokens, users' \subseteq Users,
           hmacSecret' = hmacSecret, challenges' = challenges, renewed' = renewed,
           now' = now, deletedAt' \in [Users -> 0..Never], calls' \in {calls, calls + 1},
           failures' \in {failures, failures + 1},
           call' \in [Handlers -> Call], \A h \in Handlers : CallFits(h)'
    PROVE  IInv'
<1>1. TypeOK'
  BY DEF IInv, TypeOK
<1>2. TokensFit'
  BY OldTokensFit DEF TokensFit
<1>. QED
  BY <1>1, <1>2 DEF IInv

LEMMA SetupNext ==
    ASSUME IInv, NEW h \in Handlers,
           (\E u \in Users : Setup(h, u)) \/ CountUsers(h) \/ CreateFirstUser(h)
    PROVE  IInv'
<1>0. call[h] \in Call /\ CallFits(h) /\ users \subseteq Users /\ deletedAt \in [Users -> 0..Never]
        /\ call \in [Handlers -> Call]
  BY DEF IInv, TypeOK
<1>1. ASSUME NEW u \in Users, Setup(h, u) PROVE IInv'
  <2>. DEFINE c == [Idle EXCEPT !.pc = "countUsers", !.user = u]
  <2>1. c \in Call /\ c.pc = "countUsers" /\ c.user = u /\ c.since = 0
    BY IdleTyped DEF Call
  <2>2. Goto(h, c) /\ UNCHANGED <<users, tokens, now, deletedAt>>
    BY <1>1 DEF Setup, SameClock
  <2>. HIDE DEF c
  <2>3. Keeps
    BY <2>2, SameUsersKeep
  <2>4. call'[h] = c => CallFits(h)'
    BY <2>1, <2>2, Clock DEF CallFits, UserFits, TokenFits, ChallengeFits
  <2>5. call' \in [Handlers -> Call] /\ \A g \in Handlers : CallFits(g)'
    BY <2>1, <2>2, <2>3, <2>4, CallsFit
  <2>. QED
    BY <1>0, <1>1, <2>3, <2>5, StepSuffices DEF Setup, SameClock, Arrives
<1>2. CASE CountUsers(h)
  <2>1. PICK c \in Call :
          /\ Goto(h, c) /\ c.since \in {0, call[h].since}
          /\ c.pc \in {"idle", "createFirst"} /\ (c.pc = "createFirst" => c.user \in Users)
    <3>1. CASE users = {}
      <4>1. [call[h] EXCEPT !.pc = "createFirst"] \in Call
        BY <1>0 DEF Call
      <4>. QED
        BY <1>0, <1>2, <3>1, <4>1 DEF CountUsers, CallFits, UserFits, Call
    <3>2. CASE users # {}
      BY <1>2, <3>2, IdleTyped DEF CountUsers
    <3>. QED
      BY <3>1, <3>2
  <2>2. Keeps
    BY <1>2, SameUsersKeep DEF CountUsers, SameClock
  <2>3. call'[h] = c => CallFits(h)'
    BY <1>0, <1>2, <2>1, Clock
    DEF CountUsers, SameClock, CallFits, UserFits, TokenFits, ChallengeFits
  <2>4. call' \in [Handlers -> Call] /\ \A g \in Handlers : CallFits(g)'
    BY <2>1, <2>2, <2>3, CallsFit
  <2>. QED
    BY <1>0, <1>2, <2>2, <2>4, StepSuffices DEF CountUsers, SameClock
<1>3. CASE CreateFirstUser(h)
  <2>1. call[h].user \in Users
    BY <1>0, <1>3 DEF CreateFirstUser, CallFits, UserFits
  <2>2. Keeps
    BY <1>3, MoreUsersKeep DEF CreateFirstUser, SameClock
  <2>3. call' \in [Handlers -> Call] /\ \A g \in Handlers : CallFits(g)'
    BY <1>3, <2>2, IdleTyped, IdleFits, CallsFit, Clock DEF CreateFirstUser, SameClock
  <2>. QED
    BY <1>0, <1>3, <2>1, <2>2, <2>3, StepSuffices DEF CreateFirstUser, SameClock
<1>. QED
  BY <1>1, <1>2, <1>3

LEMMA LoginNext ==
    ASSUME IInv, NEW h \in Handlers,
           \/ \E c \in challenges, expires \in Times, u \in Users :
                 VerifyChallenge(h, c, expires, u)
           \/ FindUserByPublicKey(h) \/ SignToken(h)
    PROVE  IInv'
<1>0. call[h] \in Call /\ CallFits(h) /\ users \subseteq Users /\ deletedAt \in [Users -> 0..Never]
        /\ call \in [Handlers -> Call]
  BY DEF IInv, TypeOK
<1>1. ASSUME NEW d \in challenges, NEW expires \in Times, NEW u \in Users,
             VerifyChallenge(h, d, expires, u)
      PROVE  IInv'
  <2>. DEFINE c == [Idle EXCEPT !.pc = "findUser", !.user = u, !.challenge = d, !.since = now]
  <2>1. d \in Challenge /\ now \in Times
    BY Clock DEF IInv, TypeOK
  <2>2. c \in Call /\ c.pc = "findUser" /\ c.user = u /\ c.since = now /\ c.challenge = d
    BY <2>1, IdleTyped DEF Call
  <2>3. now <= d.expires
    BY <1>1 DEF VerifyChallenge, IsValid
  <2>4. Goto(h, c) /\ UNCHANGED <<users, tokens, now, deletedAt>>
    BY <1>1 DEF VerifyChallenge, SameClock
  <2>. HIDE DEF c
  <2>5. Keeps
    BY <2>4, SameUsersKeep
  <2>6. call'[h] = c => CallFits(h)'
    BY <2>2, <2>3, <2>4, Clock DEF CallFits, UserFits, TokenFits, ChallengeFits
  <2>7. call' \in [Handlers -> Call] /\ \A g \in Handlers : CallFits(g)'
    BY <2>2, <2>4, <2>5, <2>6, CallsFit
  <2>. QED
    BY <1>0, <1>1, <2>5, <2>7, StepSuffices DEF VerifyChallenge, SameClock, Arrives
<1>2. CASE FindUserByPublicKey(h)
  <2>1. UNCHANGED <<users, tokens, now, deletedAt>> /\ call[h].pc = "findUser"
    BY <1>2 DEF FindUserByPublicKey, SameClock
  <2>2. PICK c \in Call :
          /\ Goto(h, c) /\ c.since \in Nat /\ c.since <= now
          /\ c.pc \in {"idle", "signToken"}
          /\ c.pc = "signToken" => /\ c.user \in users /\ c.user \in Users
                                   /\ c.since <= c.challenge.expires
    <3>1. CASE call[h].user \in users
      <4>1. [call[h] EXCEPT !.pc = "signToken"] \in Call
        BY <1>0 DEF Call
      <4>. QED
        BY <1>0, <1>2, <2>1, <3>1, <4>1, Clock
        DEF FindUserByPublicKey, CallFits, ChallengeFits, Call
    <3>2. CASE call[h].user \notin users
      BY <1>2, <3>2, IdleTyped, Clock DEF FindUserByPublicKey
    <3>. QED
      BY <3>1, <3>2
  <2>3. Keeps
    BY <2>1, SameUsersKeep
  <2>4. call'[h] = c => CallFits(h)'
    BY <2>1, <2>2 DEF CallFits, UserFits, TokenFits, ChallengeFits, WasUser
  <2>5. call' \in [Handlers -> Call] /\ \A g \in Handlers : CallFits(g)'
    BY <2>2, <2>3, <2>4, CallsFit
  <2>. QED
    BY <1>0, <1>2, <2>3, <2>5, StepSuffices DEF FindUserByPublicKey, SameClock
<1>3. CASE SignToken(h)
  <2>. DEFINE t == [user |-> call[h].user, expires |-> now + TokenValidity,
                    asked |-> call[h].since]
  <2>1. call[h].user \in Users /\ WasUser(call[h].user, call[h].since) /\ call[h].since <= now
    BY <1>0, <1>3 DEF SignToken, CallFits, UserFits
  <2>2. t \in Token /\ t.user = call[h].user /\ t.asked = call[h].since
    BY <1>0, <2>1, Clock DEF Token, Call
  <2>3. tokens' = tokens \cup {t} /\ Goto(h, Idle)
          /\ UNCHANGED <<users, now, deletedAt>>
    BY <1>3 DEF SignToken, SameClock
  <2>. HIDE DEF t
  <2>4. Keeps
    BY <2>3, SameUsersKeep
  <2>5. call' \in [Handlers -> Call] /\ \A g \in Handlers : CallFits(g)'
    BY <2>3, <2>4, IdleTyped, IdleFits, CallsFit, Clock
  <2>6. TokensFit'
    BY <2>1, <2>2, <2>3, <2>4, OldTokensFit DEF TokensFit, WasUser
  <2>7. TypeOK'
    BY <1>3, <2>2, <2>3, <2>5 DEF SignToken, SameClock, IInv, TypeOK
  <2>. QED
    BY <2>5, <2>6, <2>7 DEF IInv
<1>. QED
  BY <1>1, <1>2, <1>3

LEMMA RequestNext ==
    ASSUME IInv, NEW h \in Handlers,
           \/ \E t \in tokens \cup {NoToken} : Request(h, t)
           \/ CanActivate(h) \/ OtherOperation(h) \/ Fails(h)
           \/ \E u \in Users : CreateUser(h, u) \/ DeleteUser(h, u)
    PROVE  IInv'
<1>0. call[h] \in Call /\ CallFits(h) /\ users \subseteq Users /\ deletedAt \in [Users -> 0..Never]
        /\ call \in [Handlers -> Call] /\ tokens \subseteq Token
  BY DEF IInv, TypeOK
<1>1. ASSUME NEW t \in tokens \cup {NoToken}, Request(h, t) PROVE IInv'
  <2>. DEFINE c == [Idle EXCEPT !.pc = "guard", !.token = t, !.since = now]
  <2>1. c \in Call /\ c.pc = "guard" /\ c.token = t /\ c.since = now
    BY <1>0, IdleTyped, Clock DEF Call
  <2>2. Goto(h, c) /\ UNCHANGED <<users, tokens, now, deletedAt>>
    BY <1>1 DEF Request, SameClock
  <2>. HIDE DEF c
  <2>3. Keeps
    BY <2>2, SameUsersKeep
  <2>4. call'[h] = c => CallFits(h)'
    BY <2>1, <2>2, Clock DEF CallFits, UserFits, TokenFits, ChallengeFits
  <2>5. call' \in [Handlers -> Call] /\ \A g \in Handlers : CallFits(g)'
    BY <2>1, <2>2, <2>3, <2>4, CallsFit
  <2>. QED
    BY <1>0, <1>1, <2>3, <2>5, StepSuffices DEF Request, SameClock, Arrives
<1>2. CASE CanActivate(h)
  <2>1. UNCHANGED <<users, tokens, now, deletedAt>> /\ call[h].pc = "guard"
    BY <1>2 DEF CanActivate, SameClock
  <2>2. PICK c \in Call :
          /\ Goto(h, c) /\ c.since \in Nat /\ c.since <= now
          /\ c.pc \in {"idle", "crud"}
          /\ c.pc = "crud" => c.token \in tokens /\ c.since < c.token.expires
    <3>1. CASE Verifies(call[h].token)
      <4>1. call[h].token \in tokens /\ call[h].since <= now /\ call[h].token.expires > now
              /\ call[h].token.expires \in Nat /\ call[h].since \in Nat
        BY <1>0, <2>1, <3>1, Clock DEF CallFits, TokenFits, Verifies, Token, Call
      <4>2. call[h].since < call[h].token.expires
        BY <4>1, Clock
      <4>3. [call[h] EXCEPT !.pc = "crud"] \in Call
        BY <1>0 DEF Call
      <4>. QED
        BY <1>0, <1>2, <3>1, <4>1, <4>2, <4>3 DEF CanActivate, Call
    <3>2. CASE ~Verifies(call[h].token)
      BY <1>2, <3>2, IdleTyped, Clock DEF CanActivate
    <3>. QED
      BY <3>1, <3>2
  <2>3. Keeps
    BY <2>1, SameUsersKeep
  <2>4. call'[h] = c => CallFits(h)'
    BY <2>1, <2>2 DEF CallFits, UserFits, TokenFits, ChallengeFits
  <2>5. call' \in [Handlers -> Call] /\ \A g \in Handlers : CallFits(g)'
    BY <2>2, <2>3, <2>4, CallsFit
  <2>. QED
    BY <1>0, <1>2, <2>3, <2>5, StepSuffices DEF CanActivate, SameClock
<1>3. ASSUME Keeps, Goto(h, Idle)
      PROVE  call' \in [Handlers -> Call] /\ \A g \in Handlers : CallFits(g)'
  BY <1>3, IdleTyped, IdleFits, CallsFit, Clock DEF Keeps
<1>4. CASE OtherOperation(h) \/ Fails(h)
  <2>1. Keeps
    BY <1>4, SameUsersKeep DEF OtherOperation, Fails, SameClock
  <2>. QED
    BY <1>0, <1>3, <1>4, <2>1, StepSuffices DEF OtherOperation, Fails, SameClock, FailureLeft
<1>5. ASSUME NEW u \in Users, CreateUser(h, u) PROVE IInv'
  <2>1. Keeps
    BY <1>5, MoreUsersKeep DEF CreateUser, SameClock
  <2>. QED
    BY <1>0, <1>3, <1>5, <2>1, StepSuffices DEF CreateUser, SameClock
<1>6. ASSUME NEW u \in Users, DeleteUser(h, u) PROVE IInv'
  <2>1. Keeps
    BY <1>6, DeletionKeeps DEF DeleteUser, SameClock
  <2>2. deletedAt' \in [Users -> 0..Never]
    BY <1>0, <1>6, Clock DEF DeleteUser
  <2>. QED
    BY <1>0, <1>3, <1>6, <2>1, <2>2, StepSuffices DEF DeleteUser, SameClock
<1>. QED
  BY <1>1, <1>2, <1>4, <1>5, <1>6

LEMMA ElsewhereNext ==
    ASSUME IInv, GenerateChallenge \/ Tick \/ RenewHmacSecret \/ Restart \/ UNCHANGED vars
    PROVE  IInv'
<1>0. call \in [Handlers -> Call] /\ hmacSecret \in Nat \ {0}
  BY DEF IInv, TypeOK
<1>1. ASSUME UNCHANGED <<users, deletedAt, tokens, call>>, now' \in Nat, now <= now'
      PROVE  (\A h \in Handlers : CallFits(h)') /\ TokensFit'
  <2>1. Keeps
    BY <1>1 DEF Keeps, WasUser
  <2>. QED
    BY <1>1, <2>1, OthersFit, OldTokensFit DEF TokensFit
<1>2. CASE GenerateChallenge
  <2>. DEFINE c == [secret |-> hmacSecret, expires |-> now + ChallengeValidity]
  <2>1. c \in Challenge /\ c.secret \in 1..hmacSecret
    BY <1>0, Clock DEF Challenge
  <2>2. TypeOK'
    BY <1>2, <2>1 DEF GenerateChallenge, SameClock, Arrives, IInv, TypeOK
  <2>. QED
    BY <1>1, <1>2, <2>2, Clock DEF GenerateChallenge, SameClock, IInv
<1>3. CASE Tick
  <2>1. now' = now + 1 /\ now' \in 0..MaxTime
    BY <1>3, Clock DEF Tick
  <2>2. TypeOK'
    BY <1>3, <2>1 DEF Tick, IInv, TypeOK
  <2>. QED
    BY <1>1, <1>3, <2>1, <2>2, Clock DEF Tick, IInv
<1>4. challenges \subseteq {c \in Challenge : c.secret \in 1..(hmacSecret + 1)}
  BY <1>0 DEF IInv, TypeOK, Challenge
<1>5. CASE RenewHmacSecret
  <2>1. TypeOK'
    BY <1>0, <1>4, <1>5 DEF RenewHmacSecret, IInv, TypeOK
  <2>. QED
    BY <1>1, <1>5, <2>1, Clock DEF RenewHmacSecret, IInv
<1>6. CASE Restart
  <2>1. call' \in [Handlers -> Call] /\ \A h \in Handlers : call'[h] = Idle
    BY <1>6, IdleTyped DEF Restart
  <2>2. UNCHANGED <<users, tokens, deletedAt, now>> /\ hmacSecret' = hmacSecret + 1
    BY <1>6 DEF Restart
  <2>3. Keeps
    BY <2>2, SameUsersKeep
  <2>4. (\A h \in Handlers : CallFits(h)') /\ TokensFit'
    BY <2>1, <2>2, <2>3, IdleFits, OldTokensFit, Clock DEF TokensFit
  <2>5. TypeOK'
    BY <1>0, <1>4, <1>6, <2>1 DEF Restart, FailureLeft, IInv, TypeOK
  <2>. QED
    BY <2>4, <2>5 DEF IInv
<1>7. CASE UNCHANGED vars
  <2>1. TypeOK'
    BY <1>7 DEF vars, IInv, TypeOK
  <2>. QED
    BY <1>1, <1>7, <2>1, Clock DEF vars, IInv
<1>. QED
  BY <1>2, <1>3, <1>5, <1>6, <1>7

LEMMA InvNext == IInv /\ [Next]_vars => IInv'
<1>. SUFFICES ASSUME IInv, [Next]_vars PROVE IInv'
  OBVIOUS
<1>. QED
  BY SetupNext, LoginNext, RequestNext, ElsewhereNext DEF Next

-----------------------------------------------------------------------------
(* Theorems.                                                                *)

\* The invariant that the others follow from: whom a call has looked up, and
\* whom a token names, was a user when the call arrived or has been deleted since.
THEOREM IInvHolds == Spec => []IInv
BY InvInit, InvNext, PTL DEF Spec

\* Users, challenges, tokens and calls are well typed; a challenge carries a
\* secret that ChallengeService has drawn.
THEOREM TypeCorrect == Spec => []TypeOK
BY IInvHolds, PTL DEF IInv

\* A login is answered only to a challenge that had not expired, at whatever
\* date the client says it expires.
THEOREM LoginIsTimelyHolds == Spec => []LoginIsTimely
<1>1. IInv => LoginIsTimely
  BY DEF IInv, CallFits, ChallengeFits, LoginIsTimely
<1>. QED
  BY <1>1, IInvHolds, PTL

\* A token was asked for while its user was an administrator, or before the user
\* was last deleted, whatever happens between the steps of a login.
THEOREM TokensAreOfUsersHolds == Spec => []TokensAreOfUsers
<1>1. IInv => TokensAreOfUsers
  BY DEF IInv, TokensFit, WasUser, TokensAreOfUsers
<1>. QED
  BY <1>1, IInvHolds, PTL

\* A call that changes a table came with a token that had not expired.
THEOREM AdmittedHasTokenHolds == Spec => []AdmittedHasToken
<1>1. IInv => AdmittedHasToken
  BY DEF IInv, CallFits, TokenFits, AdmittedHasToken
<1>. QED
  BY <1>1, IInvHolds, PTL
=============================================================================
