----------------------------- MODULE WalletProofs -----------------------------
(***************************************************************************)
(* What holds of Anchoring for wallets that wait for the answer of one     *)
(* message before they send the next: the genesis seed of a request is     *)
(* stable and known to its wallet, and what is published is what the       *)
(* wallet signed, once.                                                    *)
(***************************************************************************)
EXTENDS AnchoringProofs, FiniteSetTheorems

(***************************************************************************)
(* The inductive invariant.  It follows one request: at most one call      *)
(* serves it, so that the seed and the microblock this call read, or is    *)
(* to answer, are those of the row.                                        *)
(***************************************************************************)

Serves(h, r) == call[h].op \in WalletOps /\ call[h].req = r

\* The steps of the wallet protocol are those of a wallet's call.  Its request is
\* not known by the wallet to be published, and is served by no other call.
CallServes(h) ==
    /\ call[h].pc \in WalletPcs => call[h].op \in WalletOps
    /\ call[h].op \in WalletOps => call[h].pc # "idle" /\ wallet[call[h].req].kind # "published"

OneCall ==
    /\ \A h \in Handlers : CallServes(h)
    /\ \A r \in Requests : \A g, h \in Handlers : Serves(g, r) /\ Serves(h, r) => g = h

\* A seed is stored only of a row that exists, and that of a ledger on chain is
\* the one it has there.  The microblock and the wallet have the stored seed.
RowSeed(r) ==
    LET row == rows[r] IN
    /\ ~Exists(r) => row.seed = 0
    /\ row.vb \in Ledgers => row.seed \in {0, Before}
    /\ row.status = "unused" => wallet[r].kind = "none"
    /\ Exists(r) /\ row.vb = NoLedger /\ row.built # NoMb => row.built.prev = row.seed /\ row.seed # 0
    /\ Exists(r) /\ wallet[r].kind = "actorKeyRequired" => wallet[r].ref = row.seed /\ row.seed # 0

\* A call that is to store a seed found none, and one that is to build has the
\* stored seed.
CallSeed(h) ==
    LET c == call[h]
        seed == rows[c.req].seed IN
    c.op \in WalletOps /\ Exists(c.req) =>
        /\ c.pc \in {"readSeed", "saveSeed"} => c.vb = NoLedger
        /\ c.pc = "saveSeed" => seed = 0 /\ c.prev # 0
        /\ c.pc = "build" /\ c.vb = NoLedger => c.prev = seed /\ seed # 0
        /\ c.pc = "answer" /\ c.reply.kind = "actorKeyRequired" => c.reply.ref = seed /\ seed # 0

SeedInv ==
    /\ OneCall
    /\ \A r \in Requests : RowSeed(r)
    /\ \A h \in Handlers : CallSeed(h)

\* Short of a failure, the wallet signs the microblock that is stored, unless a
\* newer one is on its way to it, and the call that carries its signature seals
\* that one.
RowSigned(r) ==
    /\ Exists(r) /\ wallet[r].kind = "approvalData"
    /\ \A h \in Handlers : Serves(h, r) => call[h].pc # "answer"
    => wallet[r].ref = rows[r].built.id

CallSigned(h) ==
    LET c == call[h] IN
    /\ c.op = "signature" /\ c.pc = "findRequest" /\ Exists(c.req) => c.sig = rows[c.req].built.id
    /\ c.op = "signature" /\ c.pc \in {"findApplication", "loadLedger", "seal"} => c.sig = c.mb.id
    /\ /\ c.op \in WalletOps /\ c.pc = "answer" /\ c.reply.kind = "approvalData" /\ Exists(c.req)
       => c.reply.ref = rows[c.req].built.id

\* The call in slot h is to see that microblock m of request r is accepted, or
\* to say so.
Tells(h, r, m) ==
    /\ call[h].op = "signature" /\ call[h].req = r
    /\ \/ call[h].pc = "awaitNode" /\ call[h].mb = m
       \/ call[h].pc = "answer" /\ call[h].reply.kind = "published"

Sent == wire \cup chain

\* What was sent for a request is one signed microblock, and its wallet knows
\* it, or is to be told.
RequestSent(r) ==
    /\ \A m \in Sent : m.req = r =>
         /\ m.signed = m.id
         /\ wallet[r].kind = "published" \/ \E h \in Handlers : Tells(h, r, m)
    /\ \A m, n \in Sent : m.req = r /\ n.req = r => m = n

SignedInv ==
    failures = 0 =>
        /\ \A r \in Requests : RowSigned(r) /\ RequestSent(r)
        /\ \A h \in Handlers : CallSigned(h)

WaitInv == IInv /\ SeedInv /\ SignedInv

\* Each failure lets one microblock more be sent, as does the one of which the
\* wallet knows or is to be told.
SentOf(r) == {m \in Sent : m.req = r}
Told(r) == wallet[r].kind = "published" \/ \E h \in Handlers, m \in SentOf(r) : Tells(h, r, m)
CountInv ==
    \A r \in Requests :
        /\ IsFiniteSet(SentOf(r))
        /\ Cardinality(SentOf(r)) <= failures + (IF Told(r) THEN 1 ELSE 0)

LEMMA WaitInit == Init => WaitInv
<1>. SUFFICES ASSUME Init PROVE SeedInv /\ SignedInv
  BY IInvInit DEF WaitInv
<1>1. /\ \A r \in Requests : rows[r] = Unused /\ wallet[r] = NoView
      /\ \A h \in Handlers : call[h] = Idle
      /\ wire = {} /\ chain = {}
  BY DEF Init
<1>2. /\ \A r \in Requests : /\ rows[r].status = "unused" /\ rows[r].seed = 0
                              /\ wallet[r].kind = "none"
      /\ \A h \in Handlers : call[h].pc = "idle" /\ call[h].op = "none"
  BY <1>1 DEF Unused, NoView, Idle
<1>3. SeedInv
  BY <1>2
  DEF SeedInv, OneCall, CallServes, Serves, RowSeed, CallSeed, Exists, WalletOps, WalletPcs
<1>4. SignedInv
  BY <1>1, <1>2
  DEF SignedInv, RowSigned, RequestSent, CallSigned, Sent, Exists, WalletOps
<1>. QED
  BY <1>3, <1>4

(***************************************************************************)
(* What a step has to keep.                                                *)
(***************************************************************************)

\* Of the calls in the other slots only their own request and their own row
\* matter.
LocalStep(h, q) ==
    /\ \A g \in Handlers : g # h => call'[g] = call[g] /\ ~Serves(g, q)
    /\ \A r \in Requests : r # q => rows'[r] = rows[r] /\ wallet'[r] = wallet[r]
    /\ call[h].op \in WalletOps => call[h].req = q
    /\ call'[h].op \in WalletOps => call'[h].req = q

LEMMA SeedLocal ==
    ASSUME IInv, SeedInv, NEW h \in Handlers, NEW q \in Requests, LocalStep(h, q),
           CallServes(h)', RowSeed(q)', CallSeed(h)'
    PROVE  SeedInv'
<1>1. \A g \in Handlers : call[g].op \in WalletOps => call[g].req \in Requests
  BY DEF IInv, TypeInv, NamesRequest, NamesARequest
<1>2. ASSUME NEW g \in Handlers, g # h
      PROVE  /\ call'[g] = call[g]
             /\ call[g].op \in WalletOps => /\ call[g].req # q
                                           /\ rows'[call[g].req] = rows[call[g].req]
                                           /\ wallet'[call[g].req] = wallet[call[g].req]
  BY <1>1, <1>2 DEF LocalStep, Serves
<1>3. \A g \in Handlers : CallServes(g)'
  BY <1>2 DEF SeedInv, OneCall, CallServes
<1>4. \A r \in Requests : \A f, g \in Handlers : Serves(f, r)' /\ Serves(g, r)' => f = g
  <2>1. \A g \in Handlers : g # h => Serves(g, q)' = FALSE
    BY <1>2 DEF Serves
  <2>2. \A r \in Requests : Serves(h, r)' => r = q
    BY DEF Serves, LocalStep
  <2>3. \A r \in Requests, g \in Handlers : g # h /\ Serves(g, r)' => Serves(g, r)
    BY <1>2 DEF Serves
  <2>. QED
    BY <2>1, <2>2, <2>3 DEF SeedInv, OneCall
<1>5. \A r \in Requests : RowSeed(r)'
  BY DEF LocalStep, SeedInv, RowSeed, Exists
<1>6. \A g \in Handlers : CallSeed(g)'
  BY <1>2 DEF SeedInv, CallSeed, Exists
<1>. QED
  BY <1>3, <1>4, <1>5, <1>6 DEF SeedInv, OneCall

LEMMA SignedLocal ==
    ASSUME IInv, SignedInv, NEW h \in Handlers, NEW q \in Requests, LocalStep(h, q),
           failures' = failures, \A m \in Sent' : m \in Sent \/ m.req = q,
           failures = 0 => RowSigned(q)' /\ RequestSent(q)' /\ CallSigned(h)'
    PROVE  SignedInv'
<1>. SUFFICES ASSUME failures = 0
              PROVE  /\ \A r \in Requests : RowSigned(r)' /\ RequestSent(r)'
                     /\ \A g \in Handlers : CallSigned(g)'
  BY DEF SignedInv
<1>1. \A g \in Handlers : call[g].op \in WalletOps => call[g].req \in Requests
  BY DEF IInv, TypeInv, NamesRequest, NamesARequest
<1>2. ASSUME NEW g \in Handlers, g # h
      PROVE  /\ call'[g] = call[g]
             /\ call[g].op \in WalletOps => rows'[call[g].req] = rows[call[g].req]
  BY <1>1, <1>2 DEF LocalStep, Serves
<1>3. ASSUME NEW r \in Requests, r # q PROVE RowSigned(r)'
  <2>1. \A g \in Handlers : Serves(g, r) => Serves(g, r)' /\ call'[g] = call[g]
    BY <1>2, <1>3 DEF LocalStep, Serves
  <2>2. rows'[r] = rows[r] /\ wallet'[r] = wallet[r] /\ RowSigned(r)
    BY <1>3 DEF LocalStep, SignedInv
  <2>. QED
    BY <2>1, <2>2 DEF RowSigned, Exists
<1>4. ASSUME NEW r \in Requests, r # q PROVE RequestSent(r)'
  <2>1. \A g \in Handlers, m \in Sent : Tells(g, r, m) => Tells(g, r, m)'
    BY <1>2, <1>3, <1>4 DEF LocalStep, Tells, WalletOps
  <2>2. \A m \in Sent' : m.req = r => m \in Sent
    BY <1>4
  <2>3. wallet'[r] = wallet[r] /\ RequestSent(r)
    BY <1>4 DEF LocalStep, SignedInv
  <2>. QED
    BY <2>1, <2>2, <2>3 DEF RequestSent
<1>5. ASSUME NEW g \in Handlers, g # h PROVE CallSigned(g)'
  <2>1. CallSigned(g)
    BY DEF SignedInv
  <2>. QED
    BY <1>2, <1>5, <2>1 DEF CallSigned, Exists, WalletOps
<1>. QED
  BY <1>3, <1>4, <1>5

\* A row that exists keeps what the calls read of it, unless it is new or gone.
RowQuiet(r) ==
    /\ rows'[r].status = "unused" => rows[r].status = "unused"
    /\ ~Exists(r)' => rows'[r].seed = 0
    /\ Exists(r)' =>
         \/ /\ Exists(r)
            /\ rows'[r].seed = rows[r].seed /\ rows'[r].vb = rows[r].vb
            /\ rows'[r].built = rows[r].built
         \/ rows[r].status = "unused" /\ rows'[r].seed = 0 /\ rows'[r].built = NoMb

LEMMA SeedQuiet ==
    ASSUME IInv, SeedInv, wallet' = wallet, \A r \in Requests : RowQuiet(r),
           \A g \in Handlers :
              \/ call'[g] = call[g]
              \/ call'[g].op \notin WalletOps /\ call'[g].pc \notin WalletPcs
    PROVE  SeedInv'
<1>1. ASSUME NEW g \in Handlers, call[g].op \in WalletOps
      PROVE  call[g].req \in Requests /\ rows[call[g].req].status # "unused"
  BY <1>1 DEF IInv, TypeInv, NamesRequest, NamesARequest, CallFits
<1>2. OneCall'
  BY DEF SeedInv, OneCall, CallServes, Serves
<1>3. \A r \in Requests : RowSeed(r)'
  <2>. TAKE r \in Requests
  <2>1. RowSeed(r) /\ RowQuiet(r)
    BY DEF SeedInv
  <2>2. CASE ~Exists(r)'
    BY <2>1, <2>2 DEF RowSeed, RowQuiet
  <2>3. CASE Exists(r)'
    BY <2>1, <2>3 DEF RowSeed, RowQuiet, Exists
  <2>. QED
    BY <2>2, <2>3
<1>4. \A g \in Handlers : CallSeed(g)'
  <2>. TAKE g \in Handlers
  <2>1. CASE call'[g] = call[g] /\ call[g].op \in WalletOps /\ Exists(call[g].req)'
    <3>1. /\ Exists(call[g].req) /\ rows'[call[g].req].seed = rows[call[g].req].seed
      BY <1>1, <2>1 DEF RowQuiet
    <3>2. CallSeed(g)
      BY DEF SeedInv
    <3>. QED
      BY <2>1, <3>1, <3>2 DEF CallSeed
  <2>2. CASE call'[g] = call[g] /\ ~Exists(call[g].req)'
    BY <2>2 DEF CallSeed, Exists
  <2>3. CASE call'[g].op \notin WalletOps
    BY <2>3 DEF CallSeed
  <2>. QED
    BY <2>1, <2>2, <2>3
<1>. QED
  BY <1>2, <1>3, <1>4 DEF SeedInv

LEMMA SignedQuiet ==
    ASSUME IInv, SeedInv, SignedInv, wallet' = wallet, \A r \in Requests : RowQuiet(r),
           \A g \in Handlers :
              \/ call'[g] = call[g]
              \/ /\ call'[g].op \notin WalletOps
                 /\ call[g].op \notin WalletOps \/ call[g].pc \notin {"awaitNode", "answer"},
           \A m \in Sent' : m \in Sent \/ m.req \notin Requests,
           failures' = 0 => failures = 0
    PROVE  SignedInv'
<1>. SUFFICES ASSUME failures = 0
              PROVE  /\ \A r \in Requests : RowSigned(r)' /\ RequestSent(r)'
                     /\ \A g \in Handlers : CallSigned(g)'
  BY DEF SignedInv
<1>1. ASSUME NEW g \in Handlers, call[g].op \in WalletOps
      PROVE  call[g].req \in Requests /\ rows[call[g].req].status # "unused"
  BY <1>1 DEF IInv, TypeInv, NamesRequest, NamesARequest, CallFits
<1>2. ASSUME NEW r \in Requests PROVE RowSigned(r)'
  <2>1. RowSigned(r) /\ RowSeed(r) /\ RowQuiet(r)
    BY DEF SignedInv, SeedInv
  <2>2. \A g \in Handlers : /\ Serves(g, r) /\ call[g].pc = "answer"
                            => Serves(g, r)' /\ call'[g].pc = "answer"
    BY DEF Serves
  <2>. QED
    BY <2>1, <2>2 DEF RowSigned, RowSeed, RowQuiet
<1>3. ASSUME NEW r \in Requests PROVE RequestSent(r)'
  <2>1. RequestSent(r)
    BY DEF SignedInv
  <2>2. \A g \in Handlers, m \in Sent : Tells(g, r, m) => Tells(g, r, m)'
    BY DEF Tells, WalletOps
  <2>3. \A m \in Sent' : m.req = r => m \in Sent
    OBVIOUS
  <2>. QED
    BY <2>1, <2>2, <2>3 DEF RequestSent
<1>4. ASSUME NEW g \in Handlers PROVE CallSigned(g)'
  <2>1. CASE call'[g] = call[g] /\ call[g].op \in WalletOps /\ Exists(call[g].req)'
    <3>1. Exists(call[g].req) /\ rows'[call[g].req].built = rows[call[g].req].built
      BY <1>1, <2>1 DEF RowQuiet
    <3>2. CallSigned(g)
      BY DEF SignedInv
    <3>. QED
      BY <2>1, <3>1, <3>2 DEF CallSigned
  <2>2. CASE call'[g] = call[g] /\ ~Exists(call[g].req)'
    <3>1. CallSigned(g)
      BY DEF SignedInv
    <3>. QED
      BY <2>2, <3>1 DEF CallSigned, Exists
  <2>3. CASE call'[g].op \notin WalletOps
    BY <2>3 DEF CallSigned, WalletOps
  <2>. QED
    BY <2>1, <2>2, <2>3
<1>. QED
  BY <1>2, <1>3, <1>4

(***************************************************************************)
(* The steps that are no business of a wallet's call.                      *)
(***************************************************************************)

SeedStable ==
    \A r \in Requests : rows[r].seed # 0 /\ Exists(r)' => rows'[r].seed = rows[r].seed

Keeps == SeedInv' /\ SignedInv' /\ SeedStable

LEMMA QuietKeeps ==
    ASSUME WaitInv, wallet' = wallet, \A r \in Requests : RowQuiet(r),
           \A g \in Handlers :
              \/ call'[g] = call[g]
              \/ /\ call'[g].op \notin WalletOps /\ call'[g].pc \notin WalletPcs
                 /\ \/ call[g].op \notin WalletOps \/ call[g].pc \notin {"awaitNode", "answer"}
                    \/ failures' # 0,
           \A m \in Sent' : m \in Sent \/ m.req \notin Requests,
           failures' = 0 => failures = 0
    PROVE  Keeps
<1>1. SeedInv'
  BY SeedQuiet DEF WaitInv
<1>2. ASSUME failures' # 0 PROVE SignedInv'
  BY <1>2 DEF SignedInv
<1>3. ASSUME failures' = 0 PROVE SignedInv'
  <2>1. \A g \in Handlers :
          \/ call'[g] = call[g]
          \/ /\ call'[g].op \notin WalletOps
             /\ call[g].op \notin WalletOps \/ call[g].pc \notin {"awaitNode", "answer"}
    BY <1>3
  <2>. QED
    BY <2>1, SignedQuiet DEF WaitInv
<1>4. SeedStable
  <2>. SUFFICES ASSUME NEW r \in Requests, rows[r].seed # 0, Exists(r)'
                PROVE  rows'[r].seed = rows[r].seed
    BY DEF SeedStable
  <2>1. RowSeed(r) /\ RowQuiet(r)
    BY DEF WaitInv, SeedInv
  <2>. QED
    BY <2>1 DEF RowSeed, RowQuiet, Exists
<1>. QED
  BY <1>1, <1>2, <1>3, <1>4 DEF Keeps

LEMMA SameRowsQuiet ==
    ASSUME WaitInv, rows' = rows
    PROVE  \A r \in Requests : RowQuiet(r)
BY DEF WaitInv, SeedInv, RowSeed, RowQuiet, Exists

\* A call that ends.
LEMMA IdleIsNoServing == Idle.op \notin WalletOps /\ Idle.pc \notin WalletPcs /\ Idle.pc = "idle"
BY DEF Idle, WalletOps, WalletPcs

\* The call of slot h ends, when it was neither to see a microblock accepted nor
\* to answer.
LEMMA EndsQuiet ==
    ASSUME WaitInv, NEW h \in Handlers, call' = [call EXCEPT ![h] = Idle],
           UNCHANGED <<wallet, wire, chain>>, \A r \in Requests : RowQuiet(r),
           \/ /\ failures' = failures
              /\ \/ call[h].op \notin WalletOps
                 \/ call[h].pc \notin {"awaitNode", "answer"}
           \/ failures' = failures + 1
    PROVE  Keeps
<1>1. /\ call'[h] = Idle
      /\ \A g \in Handlers : g # h => call'[g] = call[g]
  BY DEF WaitInv, IInv, TypeInv, TypeOK
<1>2. failures \in Nat
  BY DEF WaitInv, IInv, TypeInv, TypeOK
<1>3. Sent' = Sent
  BY DEF Sent
<1>. QED
  BY <1>1, <1>2, <1>3, IdleIsNoServing, QuietKeeps

LEMMA FailsWaits ==
    ASSUME WaitInv, NEW h \in Handlers, Fails(h)
    PROVE  Keeps
BY EndsQuiet, SameRowsQuiet DEF Fails, FailureLeft, dbVars, chainVars

LEMMA CrashWaits ==
    ASSUME WaitInv, Crash
    PROVE  Keeps
<1>1. failures' # 0 /\ wallet' = wallet /\ Sent' = Sent /\ rows' = rows
  BY DEF Crash, FailureLeft, WaitInv, IInv, TypeInv, TypeOK, Sent, chainVars
<1>2. \A g \in Handlers : call'[g] = Idle
  BY DEF Crash
<1>. QED
  BY <1>1, <1>2, IdleIsNoServing, SameRowsQuiet, QuietKeeps

\* The inserts of the two routes of the clients.
LEMMA InsertWaits ==
    ASSUME WaitInv, NEW h \in Handlers, NEW r \in Requests,
           StoreAnchorRequest(h, r) \/ SaveCompletedAnchorRequest(h, r)
    PROVE  Keeps
<1>0. rows \in [Requests -> Row]
  BY DEF WaitInv, IInv, TypeInv, TypeOK
<1>1. /\ \A s \in Requests : s # r => rows'[s] = rows[s]
      /\ rows[r].status = "unused" /\ rows'[r].status # "unused"
      /\ rows'[r].seed = 0 /\ rows'[r].built = NoMb
  <2>1. CASE StoreAnchorRequest(h, r)
    BY <1>0, <2>1 DEF StoreAnchorRequest, Unused
  <2>2. CASE SaveCompletedAnchorRequest(h, r)
    BY <1>0, <2>2 DEF SaveCompletedAnchorRequest, Unused
  <2>. QED
    BY <2>1, <2>2
<1>2. \A s \in Requests : RowQuiet(s)
  BY <1>1 DEF WaitInv, SeedInv, RowSeed, RowQuiet, Exists
<1>3. /\ call' = [call EXCEPT ![h] = Idle]
      /\ UNCHANGED <<wallet, wire, chain, failures>>
      /\ call[h].op \notin WalletOps \/ call[h].pc \notin {"awaitNode", "answer"}
  BY DEF StoreAnchorRequest, SaveCompletedAnchorRequest, chainVars, WalletOps
<1>. QED
  BY <1>2, <1>3, EndsQuiet

LEMMA ClientWaits ==
    ASSUME WaitInv, NEW h \in Handlers, NEW op \in ClientOps, NEW a,
           NEW l, ClientSends(h, op, a, l)
    PROVE  Keeps
<1>1. PICK pc \in {"store", "loadLedger"} : \E b :
         call' = [call EXCEPT ![h] = [Idle EXCEPT !.pc = pc, !.op = op, !.vb = l, !.app = b]]
  BY DEF ClientSends
<1>2. /\ call'[h].pc = pc /\ call'[h].op = op
      /\ \A g \in Handlers : g # h => call'[g] = call[g]
  BY <1>1 DEF Idle, WaitInv, IInv, TypeInv, TypeOK
<1>3. call'[h].op \notin WalletOps /\ call'[h].pc \notin WalletPcs
  BY <1>2 DEF ClientOps, WalletOps, WalletPcs
<1>4. /\ call[h].pc = "idle" /\ Sent' = Sent /\ UNCHANGED <<rows, wallet, failures>>
  BY DEF ClientSends, dbVars, chainVars, Sent
<1>. QED
  BY <1>2, <1>3, <1>4, SameRowsQuiet, QuietKeeps

\* What POST /anchor sends is for no request.
LEMMA AnchorSends ==
    ASSUME NEW h \in Handlers, BuildAndPublish(h)
    PROVE  \E mb : /\ mb.req = NoRequest /\ wire' = wire \cup {mb}
                   /\ call' = [call EXCEPT ![h] = [Go(h, "awaitNode", mb) EXCEPT
                                                     !.app = call[h].app, !.vb = call[h].vb]]
<1>. DEFINE prev == IF call[h].vb \in Ledgers THEN call[h].prev ELSE nonce
            mb == [id |-> nonce + 1, req |-> NoRequest, vb |-> call[h].vb, prev |-> prev,
                   subscribes |-> FALSE, signed |-> 0, sent |-> nonce + 1]
<1>1. /\ wire' = wire \cup {mb}
      /\ call' = [call EXCEPT ![h] = [Go(h, "awaitNode", mb) EXCEPT
                                        !.app = call[h].app, !.vb = call[h].vb]]
  BY DEF BuildAndPublish
<1>2. mb.req = NoRequest
  OBVIOUS
<1>. HIDE DEF mb
<1>. QED
  BY <1>1, <1>2

\* POST /anchor sends a microblock that carries no request.
LEMMA AnchorWaits ==
    ASSUME WaitInv, NEW h \in Handlers, BuildAndPublish(h)
    PROVE  Keeps
<1>1. PICK mb : /\ mb.req = NoRequest /\ wire' = wire \cup {mb}
                /\ call' = [call EXCEPT ![h] = [Go(h, "awaitNode", mb) EXCEPT
                                                  !.app = call[h].app, !.vb = call[h].vb]]
  BY AnchorSends
<1>2. /\ call'[h].pc = "awaitNode" /\ call'[h].op = call[h].op
      /\ \A g \in Handlers : g # h => call'[g] = call[g]
  BY <1>1 DEF Go, Idle, WaitInv, IInv, TypeInv, TypeOK
<1>3. call[h].op = "anchor" /\ UNCHANGED <<rows, wallet, chain, failures>>
  BY DEF BuildAndPublish, dbVars, chainVars
<1>4. call[h].op \notin WalletOps /\ call'[h].pc \notin WalletPcs
  BY <1>2, <1>3 DEF WalletOps, WalletPcs
<1>5. \A m \in Sent' : m \in Sent \/ m.req \notin Requests
  BY <1>1, <1>3, NoRequestAssumption DEF Sent
<1>. QED
  BY <1>2, <1>3, <1>4, <1>5, SameRowsQuiet, QuietKeeps

\* The database, the chain node and the administrator.
LEMMA ElsewhereWaits ==
    ASSUME WaitInv, (\E k \in marks : ApplyMark(k)) \/ Node \/ Admin \/ UNCHANGED vars
    PROVE  Keeps
<1>0. rows \in [Requests -> Row] /\ failures \in Nat
  BY DEF WaitInv, IInv, TypeInv, TypeOK
<1>1. wallet' = wallet /\ call' = call
  BY DEF ApplyMark, Node, NodeAccepts, NodeRefuses, Admin, DeleteAnchorRequest,
         DeleteApplications, CreateApplication, vars, dbVars, chainVars
<1>2. Sent' \subseteq Sent
  BY DEF ApplyMark, Node, NodeAccepts, NodeRefuses, Admin, DeleteAnchorRequest,
         DeleteApplications, CreateApplication, vars, dbVars, chainVars, Sent
<1>3. failures' = 0 => failures = 0
  <2>1. failures' = failures \/ failures' = failures + 1
    BY DEF ApplyMark, Node, NodeAccepts, NodeRefuses, FailureLeft, Admin, DeleteAnchorRequest,
           DeleteApplications, CreateApplication, vars
  <2>. QED
    BY <1>0, <2>1
<1>4. \A r \in Requests : RowQuiet(r)
  <2>1. ASSUME NEW k \in marks, ApplyMark(k) PROVE \A r \in Requests : RowQuiet(r)
    <3>1. \A r \in Requests : /\ rows'[r].seed = rows[r].seed /\ rows'[r].vb = rows[r].vb
                              /\ rows'[r].built = rows[r].built
                              /\ \/ rows'[r].status = rows[r].status
                                 \/ Exists(r) /\ Exists(r)' /\ rows'[r].status # "unused"
      BY <1>0, <2>1 DEF ApplyMark, Row, Exists
    <3>. QED
      BY <3>1 DEF WaitInv, SeedInv, RowSeed, RowQuiet, Exists
  <2>2. ASSUME Admin PROVE \A r \in Requests : RowQuiet(r)
    <3>1. \A r \in Requests : rows'[r] = rows[r] \/ rows'[r] = Deleted
      BY <1>0, <2>2 DEF Admin, DeleteAnchorRequest, DeleteApplications, CreateApplication
    <3>2. Deleted.status = "deleted" /\ Deleted.seed = 0
      BY DEF Deleted, Unused
    <3>. QED
      BY <3>1, <3>2 DEF WaitInv, SeedInv, RowSeed, RowQuiet, Exists
  <2>3. CASE rows' = rows
    BY <2>3, SameRowsQuiet
  <2>. QED
    BY <2>1, <2>2, <2>3 DEF Node, NodeAccepts, NodeRefuses, vars, dbVars
<1>. QED
  BY <1>1, <1>2, <1>3, <1>4, QuietKeeps

(***************************************************************************)
(* The steps of a wallet's call.  It is the only one that serves its       *)
(* request.                                                                *)
(***************************************************************************)

\* What is known of the call in slot h, which serves request q.
LEMMA ServesAlone ==
    ASSUME WaitInv, NEW h \in Handlers, call[h].op \in WalletOps,
           NEW q, q = call[h].req
    PROVE  /\ q \in Requests /\ rows[q].status # "unused"
           /\ \A g \in Handlers : g # h => ~Serves(g, q)
           /\ call \in [Handlers -> Call] /\ call[h] \in Call /\ rows \in [Requests -> Row]
           /\ wallet[q].kind # "published"
           /\ CallFits(h) /\ CallServes(h) /\ CallSeed(h) /\ RowSeed(q)
           /\ failures = 0 => CallSigned(h) /\ RowSigned(q) /\ RequestSent(q)
<1>1. /\ q \in Requests /\ CallFits(h)
      /\ call \in [Handlers -> Call] /\ call[h] \in Call /\ rows \in [Requests -> Row]
  BY DEF WaitInv, IInv, TypeInv, TypeOK, NamesRequest, NamesARequest
<1>2. rows[q].status # "unused"
  BY <1>1 DEF CallFits
<1>3. CallServes(h) /\ CallSeed(h) /\ RowSeed(q) /\ wallet[q].kind # "published"
  BY <1>1 DEF WaitInv, SeedInv, OneCall, CallServes
<1>4. Serves(h, q) /\ \A g \in Handlers : Serves(g, q) /\ Serves(h, q) => g = h
  BY <1>1 DEF WaitInv, SeedInv, OneCall, Serves
<1>5. failures = 0 => CallSigned(h) /\ RowSigned(q) /\ RequestSent(q)
  BY <1>1 DEF WaitInv, SignedInv
<1>. QED
  BY <1>1, <1>2, <1>3, <1>4, <1>5

\* What such a step has to keep of the call and of the request.
LEMMA ServingKeeps ==
    ASSUME WaitInv, NEW h \in Handlers, call[h].op \in WalletOps, NEW q, q = call[h].req,
           \A g \in Handlers : g # h => call'[g] = call[g],
           \A r \in Requests : r # q => rows'[r] = rows[r] /\ wallet'[r] = wallet[r],
           call'[h].op \in WalletOps => call'[h].req = q,
           failures' = failures, \A m \in Sent' : m \in Sent \/ m.req = q,
           CallServes(h)', RowSeed(q)', CallSeed(h)',
           rows[q].seed # 0 /\ Exists(q)' => rows'[q].seed = rows[q].seed,
           failures = 0 => RowSigned(q)' /\ RequestSent(q)' /\ CallSigned(h)'
    PROVE  Keeps
<1>1. LocalStep(h, q)
  BY ServesAlone DEF LocalStep
<1>2. q \in Requests /\ IInv /\ SeedInv /\ SignedInv
  BY ServesAlone DEF WaitInv
<1>3. SeedInv'
  BY <1>1, <1>2, SeedLocal
<1>4. SignedInv'
  BY <1>1, <1>2, SignedLocal
<1>5. SeedStable
  BY DEF SeedStable, Exists
<1>. QED
  BY <1>3, <1>4, <1>5 DEF Keeps

\* A step that goes on with the call, and neither sends nor answers.
LEMMA GoesOnKeeps ==
    ASSUME WaitInv, NEW h \in Handlers, call[h].op \in WalletOps, NEW q, q = call[h].req,
           \A g \in Handlers : g # h => call'[g] = call[g],
           \A r \in Requests : r # q => rows'[r] = rows[r],
           rows'[q].status = rows[q].status, rows'[q].built = rows[q].built,
           UNCHANGED <<wallet, wire, chain, failures>>,
           call'[h].op = call[h].op, call'[h].req = q,
           call[h].pc \notin {"awaitNode", "answer"}, call'[h].pc \notin {"idle", "answer"},
           RowSeed(q)', CallSeed(h)',
           rows[q].seed # 0 /\ Exists(q)' => rows'[q].seed = rows[q].seed,
           failures = 0 => CallSigned(h)'
    PROVE  Keeps
<1>1. Sent' = Sent
  BY DEF Sent
<1>2. CallServes(h)'
  BY ServesAlone DEF CallServes
<1>3. ASSUME failures = 0 PROVE RowSigned(q)'
  <2>1. RowSigned(q)
    BY <1>3, ServesAlone
  <2>2. \A g \in Handlers : Serves(g, q) => call[g].pc # "answer"
    BY ServesAlone
  <2>. QED
    BY <2>1, <2>2 DEF RowSigned, Exists
<1>4. ASSUME failures = 0 PROVE RequestSent(q)'
  <2>1. RequestSent(q)
    BY <1>4, ServesAlone
  <2>2. \A g \in Handlers, m \in Sent : ~Tells(g, q, m)
    BY ServesAlone DEF Tells, Serves, WalletOps
  <2>. QED
    BY <1>1, <2>1, <2>2 DEF RequestSent
<1>. QED
  BY <1>1, <1>2, <1>3, <1>4, ServingKeeps

\* The steps that read the database or the chain.
LEMMA FindWaits ==
    ASSUME WaitInv, NEW h \in Handlers, FindRequest(h) \/ FindApplicationByVbId(h)
    PROVE  Keeps
<1>. PICK q : q = call[h].req
  OBVIOUS
<1>1. call[h].op \in WalletOps /\ call[h].pc \in {"findRequest", "findApplication"}
  BY DEF FindRequest, FindApplicationByVbId, WaitInv, SeedInv, OneCall, CallServes, WalletPcs
<1>2. /\ q \in Requests /\ call \in [Handlers -> Call] /\ call[h] \in Call
      /\ RowSeed(q) /\ (failures = 0 => CallSigned(h))
  BY <1>1, ServesAlone
<1>3. UNCHANGED <<rows, wallet, wire, chain, failures>>
  BY DEF FindRequest, FindApplicationByVbId, dbVars, chainVars
<1>4. /\ \A g \in Handlers : g # h => call'[g] = call[g]
      /\ call'[h].op = call[h].op /\ call'[h].req = q
      /\ call'[h].pc \in {"findApplication", "loadLedger"}
  BY <1>2 DEF FindRequest, FindApplicationByVbId, Call
<1>5. RowSeed(q)' /\ CallSeed(h)'
  BY <1>2, <1>3, <1>4 DEF RowSeed, CallSeed, Exists
<1>6. ASSUME failures = 0 PROVE CallSigned(h)'
  <2>1. CASE FindRequest(h)
    <3>1. /\ Exists(q) /\ call'[h].sig = call[h].sig
          /\ call[h].op = "signature" => call'[h].mb = rows[q].built
      BY <1>2, <2>1 DEF FindRequest, Servable, IsPending, Exists, Call
    <3>. QED
      BY <1>2, <1>4, <1>6, <2>1, <3>1 DEF CallSigned, FindRequest
  <2>2. CASE FindApplicationByVbId(h)
    <3>1. call'[h].sig = call[h].sig /\ call'[h].mb = call[h].mb
      BY <1>2, <2>2 DEF FindApplicationByVbId, Call
    <3>. QED
      BY <1>2, <1>4, <1>6, <2>2, <3>1 DEF CallSigned, FindApplicationByVbId
  <2>. QED
    BY <2>1, <2>2
<1>. QED
  BY <1>1, <1>2, <1>3, <1>4, <1>5, <1>6, GoesOnKeeps

LEMMA LoadWaits ==
    ASSUME WaitInv, NEW h \in Handlers, LoadApplicationLedger(h)
    PROVE  Keeps
<1>. PICK q : q = call[h].req
  OBVIOUS
<1>0. call \in [Handlers -> Call] /\ call[h] \in Call
  BY DEF WaitInv, IInv, TypeInv, TypeOK
<1>1. /\ UNCHANGED <<rows, wallet, wire, chain, failures>> /\ call[h].pc = "loadLedger"
      /\ Sent' = Sent
  BY DEF LoadApplicationLedger, dbVars, chainVars, Sent
<1>2. /\ \A g \in Handlers : g # h => call'[g] = call[g]
      /\ call'[h].op = call[h].op /\ call'[h].req = q /\ call'[h].vb = call[h].vb
      /\ call'[h].sig = call[h].sig /\ call'[h].mb = call[h].mb
  BY <1>0 DEF LoadApplicationLedger, Call
<1>3. /\ call[h].op = "signature" => call'[h].pc = "seal"
      /\ call[h].op \in {"handshake", "actorKey"} =>
            \/ call'[h].pc = "readSeed" /\ call[h].vb = NoLedger
            \/ call'[h].pc = "build" /\ call[h].vb # NoLedger
      /\ call[h].op \notin WalletOps => call'[h].pc = "build"
  <2>1. call'[h].pc = CASE call[h].op = "signature" -> "seal"
           [] call[h].op \in {"handshake", "actorKey"} /\ call[h].vb = NoLedger -> "readSeed"
           [] OTHER -> "build"
    BY <1>0 DEF LoadApplicationLedger, Call
  <2>. QED
    BY <2>1 DEF WalletOps
<1>4. CASE call[h].op \notin WalletOps
  <2>1. call'[h].op \notin WalletOps /\ call'[h].pc \notin WalletPcs
    BY <1>2, <1>3, <1>4 DEF WalletPcs
  <2>. QED
    BY <1>1, <1>2, <1>4, <2>1, SameRowsQuiet, QuietKeeps
<1>5. CASE call[h].op \in WalletOps
  <2>1. RowSeed(q) /\ CallSeed(h) /\ (failures = 0 => CallSigned(h))
    BY <1>5, ServesAlone
  <2>2. RowSeed(q)' /\ CallSeed(h)'
    BY <1>1, <1>2, <1>3, <1>5, <2>1 DEF RowSeed, CallSeed, Exists, WalletOps
  <2>3. failures = 0 => CallSigned(h)'
    BY <1>1, <1>2, <1>3, <1>5, <2>1 DEF CallSigned, WalletOps
  <2>4. call'[h].pc \notin {"idle", "answer"}
    BY <1>3, <1>5 DEF WalletOps
  <2>. QED
    BY <1>1, <1>2, <1>5, <2>2, <2>3, <2>4, GoesOnKeeps
<1>. QED
  BY <1>4, <1>5

LEMMA ReadSeedWaits ==
    ASSUME WaitInv, NEW h \in Handlers, ReadGenesisSeed(h)
    PROVE  Keeps
<1>. PICK q : q = call[h].req
  OBVIOUS
<1>1. call[h].op \in WalletOps /\ call[h].pc = "readSeed" /\ Exists(q)
  BY DEF ReadGenesisSeed, WaitInv, SeedInv, OneCall, CallServes, WalletPcs
<1>2. /\ q \in Requests /\ call \in [Handlers -> Call] /\ call[h] \in Call
      /\ RowSeed(q) /\ CallSeed(h)
  BY <1>1, ServesAlone
<1>3. UNCHANGED <<rows, wallet, wire, chain, failures>>
  BY DEF ReadGenesisSeed, dbVars, chainVars
<1>4. nonce # 0
  <2>1. NoMb.id < nonce /\ nonce \in Nat
    BY DEF WaitInv, IInv, KnownInv, Known, TypeInv, TypeOK
  <2>. QED
    BY <2>1 DEF NoMb
<1>5. /\ \A g \in Handlers : g # h => call'[g] = call[g]
      /\ call'[h].op = call[h].op /\ call'[h].req = q /\ call'[h].vb = call[h].vb
      /\ \/ call'[h].pc = "saveSeed" /\ rows[q].seed = 0 /\ call'[h].prev # 0
         \/ call'[h].pc = "build" /\ rows[q].seed # 0 /\ call'[h].prev = rows[q].seed
  BY <1>2, <1>4 DEF ReadGenesisSeed, Call
<1>6. RowSeed(q)' /\ CallSeed(h)'
  BY <1>1, <1>2, <1>3, <1>5 DEF RowSeed, CallSeed, Exists
<1>7. CallSigned(h)'
  BY <1>5 DEF CallSigned
<1>. QED
  BY <1>1, <1>2, <1>3, <1>5, <1>6, <1>7, GoesOnKeeps

\* The update of the column seed.
LEMMA SeedSaved ==
    ASSUME rows \in [Requests -> Row], NEW q \in Requests, NEW seed \in Nat,
           SaveGenesisSeed(q, seed)
    PROVE  /\ \A r \in Requests : r # q => rows'[r] = rows[r]
           /\ rows'[q].status = rows[q].status /\ rows'[q].built = rows[q].built
           /\ rows'[q].vb = rows[q].vb
           /\ rows'[q].seed = IF Exists(q) THEN seed ELSE rows[q].seed
<1>1. CASE Exists(q)
  BY <1>1 DEF SaveGenesisSeed, Row
<1>2. CASE ~Exists(q)
  BY <1>2 DEF SaveGenesisSeed
<1>. QED
  BY <1>1, <1>2

\* No microblock was built from the seed that is drawn now, and the wallet was
\* not told another one.
LEMMA SaveSeedWaits ==
    ASSUME WaitInv, NEW h \in Handlers, SaveGeneratedSeed(h)
    PROVE  Keeps
<1>. PICK q : q = call[h].req
  OBVIOUS
<1>1. call[h].op \in WalletOps /\ call[h].pc = "saveSeed"
  BY DEF SaveGeneratedSeed, WaitInv, SeedInv, OneCall, CallServes, WalletPcs
<1>2. /\ q \in Requests /\ call \in [Handlers -> Call] /\ call[h] \in Call
      /\ rows \in [Requests -> Row]
      /\ RowSeed(q) /\ CallSeed(h) /\ CallFits(h)
  BY <1>1, ServesAlone
<1>3. /\ call[h].prev \in Nat /\ SaveGenesisSeed(q, call[h].prev)
      /\ UNCHANGED <<wallet, wire, chain, failures>>
  BY <1>2 DEF SaveGeneratedSeed, chainVars, Call
<1>4. /\ \A g \in Handlers : g # h => call'[g] = call[g]
      /\ call'[h].op = call[h].op /\ call'[h].req = q /\ call'[h].vb = call[h].vb
      /\ call'[h].pc = "build" /\ call'[h].prev = call[h].prev
  BY <1>2 DEF SaveGeneratedSeed, Call
<1>5. /\ \A r \in Requests : r # q => rows'[r] = rows[r]
      /\ rows'[q].status = rows[q].status /\ rows'[q].built = rows[q].built
      /\ rows'[q].vb = rows[q].vb
      /\ rows'[q].seed = IF Exists(q) THEN call[h].prev ELSE rows[q].seed
  BY <1>2, <1>3, SeedSaved
<1>6. Exists(q) => /\ rows[q].seed = 0 /\ call[h].prev # 0
                   /\ rows[q].vb = NoLedger /\ call[h].vb = NoLedger
  BY <1>1, <1>2 DEF CallSeed, CallFits
<1>7. RowSeed(q)'
  BY <1>2, <1>3, <1>5, <1>6, NoLedgerAssumption DEF RowSeed, Exists
<1>8. CallSeed(h)' /\ CallSigned(h)'
  BY <1>1, <1>4, <1>5, <1>6 DEF CallSeed, CallSigned, Exists
<1>9. rows[q].seed # 0 /\ Exists(q)' => rows'[q].seed = rows[q].seed
  BY <1>5, <1>6 DEF Exists
<1>. QED
  BY <1>1, <1>2, <1>3, <1>4, <1>5, <1>7, <1>8, <1>9, GoesOnKeeps

\* A step that answers what was built or stored.
LEMMA AnswersKeeps ==
    ASSUME WaitInv, NEW h \in Handlers, call[h].op \in WalletOps, NEW q, q = call[h].req,
           call[h].pc = "build", NEW kind, NEW ref,
           call' = [call EXCEPT ![h] = Reply(h, kind, ref)],
           \A r \in Requests : r # q => rows'[r] = rows[r],
           rows'[q].status = rows[q].status,
           UNCHANGED <<wallet, wire, chain, failures>>,
           RowSeed(q)',
           rows[q].seed # 0 /\ Exists(q)' => rows'[q].seed = rows[q].seed,
           kind = "actorKeyRequired" /\ Exists(q)' => ref = rows'[q].seed /\ ref # 0,
           kind = "approvalData" /\ Exists(q)' => ref = rows'[q].built.id
    PROVE  Keeps
<1>1. /\ \A g \in Handlers : g # h => call'[g] = call[g]
      /\ call'[h].op = call[h].op /\ call'[h].req = q /\ call'[h].pc = "answer"
      /\ call'[h].reply.kind = kind /\ call'[h].reply.ref = ref
  BY ServesAlone DEF Reply, Idle
<1>2. Sent' = Sent /\ call[h].pc = "build"
  BY DEF Sent
<1>3. CallServes(h)'
  BY <1>1, ServesAlone DEF CallServes
<1>4. CallSeed(h)' /\ CallSigned(h)'
  BY <1>1 DEF CallSeed, CallSigned
<1>5. RowSigned(q)'
  BY <1>1 DEF RowSigned, Serves
<1>6. ASSUME failures = 0 PROVE RequestSent(q)'
  <2>1. RequestSent(q)
    BY <1>6, ServesAlone
  <2>2. \A g \in Handlers, m \in Sent : ~Tells(g, q, m)
    BY <1>2, ServesAlone DEF Tells, Serves, WalletOps
  <2>. QED
    BY <1>2, <2>1, <2>2 DEF RequestSent
<1>. QED
  BY <1>1, <1>2, <1>3, <1>4, <1>5, <1>6, ServingKeeps

LEMMA AskWaits ==
    ASSUME WaitInv, NEW h \in Handlers, AskActorKey(h)
    PROVE  Keeps
<1>. PICK q, seed : /\ q = call[h].req
                    /\ seed = IF call[h].vb \in Ledgers THEN Before ELSE call[h].prev
  OBVIOUS
<1>1. call[h].op \in WalletOps /\ call[h].pc = "build"
  BY DEF AskActorKey, WalletOps
<1>2. /\ q \in Requests /\ call \in [Handlers -> Call] /\ call[h] \in Call
      /\ rows \in [Requests -> Row]
      /\ RowSeed(q) /\ CallSeed(h) /\ CallFits(h)
  BY <1>1, ServesAlone
<1>3. /\ SaveGenesisSeed(q, seed)
      /\ call' = [call EXCEPT ![h] = Reply(h, "actorKeyRequired", seed)]
      /\ UNCHANGED <<wallet, wire, chain, failures>>
  BY DEF AskActorKey, chainVars
<1>4. seed \in Nat
  BY <1>2 DEF Call, Before
<1>5. Exists(q) => seed # 0 /\ rows[q].seed \in {0, seed}
  <2>1. CASE call[h].vb \in Ledgers
    BY <1>1, <1>2, <2>1 DEF CallFits, RowSeed, Before
  <2>2. CASE call[h].vb = NoLedger
    BY <1>1, <1>2, <2>2, NoLedgerAssumption DEF CallSeed
  <2>. QED
    BY <1>2, <2>1, <2>2 DEF Call
<1>6. Exists(q) /\ rows[q].vb \in Ledgers => seed = Before
  BY <1>1, <1>2 DEF CallFits
<1>7. /\ \A r \in Requests : r # q => rows'[r] = rows[r]
      /\ rows'[q].status = rows[q].status /\ rows'[q].built = rows[q].built
      /\ rows'[q].vb = rows[q].vb
      /\ rows'[q].seed = IF Exists(q) THEN seed ELSE rows[q].seed
  BY <1>2, <1>3, <1>4, SeedSaved
<1>8. RowSeed(q)'
  BY <1>2, <1>3, <1>5, <1>6, <1>7 DEF RowSeed, Exists
<1>9. /\ rows[q].seed # 0 /\ Exists(q)' => rows'[q].seed = rows[q].seed
      /\ Exists(q)' => seed = rows'[q].seed /\ seed # 0
  BY <1>5, <1>7 DEF Exists
<1>. QED
  BY <1>1, <1>2, <1>3, <1>7, <1>8, <1>9, AnswersKeeps

LEMMA BuildWaits ==
    ASSUME WaitInv, NEW h \in Handlers, BuildMicroblock(h)
    PROVE  Keeps
<1>. PICK q : q = call[h].req
  OBVIOUS
<1>1. call[h].op \in WalletOps /\ call[h].pc = "build"
  BY DEF BuildMicroblock, WalletOps
<1>2. /\ q \in Requests /\ call \in [Handlers -> Call] /\ call[h] \in Call
      /\ rows \in [Requests -> Row]
      /\ RowSeed(q) /\ CallSeed(h) /\ CallFits(h)
  BY <1>1, ServesAlone
<1>3. PICK mb : /\ mb.prev = call[h].prev
                /\ SaveMicroblock(q, mb)
                /\ call' = [call EXCEPT ![h] = Reply(h, "approvalData", mb.id)]
  <2>. DEFINE mb == [id |-> nonce, req |-> call[h].req, vb |-> call[h].vb,
                     prev |-> call[h].prev, subscribes |-> call[h].op = "actorKey",
                     signed |-> 0, sent |-> 0]
  <2>1. /\ SaveMicroblock(q, mb)
        /\ call' = [call EXCEPT ![h] = Reply(h, "approvalData", mb.id)]
    BY DEF BuildMicroblock
  <2>2. mb.prev = call[h].prev
    OBVIOUS
  <2>. HIDE DEF mb
  <2>. QED
    BY <2>1, <2>2
<1>4. UNCHANGED <<wallet, wire, chain, failures>>
  BY DEF BuildMicroblock, chainVars
<1>5. /\ \A r \in Requests : r # q => rows'[r] = rows[r]
      /\ rows'[q].status = rows[q].status /\ rows'[q].seed = rows[q].seed
      /\ rows'[q].vb = rows[q].vb
      /\ Exists(q) => rows'[q].built = mb
      /\ ~Exists(q) => rows'[q].built = rows[q].built
  <2>1. CASE Exists(q)
    BY <1>2, <1>3, <2>1 DEF SaveMicroblock, Row
  <2>2. CASE ~Exists(q)
    BY <1>3, <2>2 DEF SaveMicroblock
  <2>. QED
    BY <2>1, <2>2
<1>6. Exists(q) /\ rows[q].vb = NoLedger => mb.prev = rows[q].seed /\ rows[q].seed # 0
  BY <1>1, <1>2, <1>3 DEF CallFits, CallSeed
<1>7. RowSeed(q)'
  BY <1>2, <1>4, <1>5, <1>6 DEF RowSeed, Exists
<1>8. Exists(q)' => mb.id = rows'[q].built.id
  BY <1>5 DEF Exists
<1>. QED
  BY <1>1, <1>2, <1>3, <1>4, <1>5, <1>7, <1>8, AnswersKeeps

\* The first microblock that is sent for its request, with the signature the
\* wallet made for it.
LEMMA SealWaits ==
    ASSUME WaitInv, NEW h \in Handlers, SealAndPublish(h)
    PROVE  Keeps
<1>. PICK q, mb : q = call[h].req /\ mb = [call[h].mb EXCEPT !.signed = call[h].sig, !.sent = nonce]
  OBVIOUS
<1>1. call[h].pc = "seal" /\ call[h].op = "signature" /\ call[h].op \in WalletOps
  BY DEF SealAndPublish, WaitInv, IInv, CallFits, WalletOps
<1>2. /\ q \in Requests /\ call \in [Handlers -> Call] /\ call[h] \in Call
      /\ RowSeed(q) /\ CallFits(h) /\ wallet[q].kind # "published"
      /\ failures = 0 => CallSigned(h) /\ RowSigned(q) /\ RequestSent(q)
      /\ \A g \in Handlers : g # h => ~Serves(g, q)
  BY <1>1, ServesAlone
<1>3. /\ call' = [call EXCEPT ![h] = Go(h, "awaitNode", mb)] /\ wire' = wire \cup {mb}
      /\ UNCHANGED <<rows, wallet, chain, failures>>
  BY DEF SealAndPublish, dbVars, chainVars
<1>4. mb.id = call[h].mb.id /\ mb.req = q /\ mb.signed = call[h].sig
  BY <1>1, <1>2 DEF Call, Microblock, CallFits, Fits
<1>5. /\ \A g \in Handlers : g # h => call'[g] = call[g]
      /\ call'[h].op = "signature" /\ call'[h].req = q /\ call'[h].pc = "awaitNode"
      /\ call'[h].mb = mb
  BY <1>1, <1>2, <1>3 DEF Go, Idle
<1>6. \A m \in Sent' : m \in Sent \/ m = mb
  BY <1>3 DEF Sent
<1>7. CallServes(h)' /\ RowSeed(q)' /\ CallSeed(h)' /\ CallSigned(h)'
  BY <1>1, <1>2, <1>3, <1>5 DEF CallServes, RowSeed, CallSeed, CallSigned, Exists, WalletOps
<1>8. ASSUME failures = 0 PROVE RowSigned(q)' /\ RequestSent(q)'
  <2>1. RowSigned(q)'
    <3>1. \A g \in Handlers : Serves(g, q) => call[g].pc # "answer"
      BY <1>1, <1>2
    <3>. QED
      BY <1>2, <1>3, <1>8, <3>1 DEF RowSigned, Exists
  <2>2. mb.signed = mb.id
    BY <1>1, <1>2, <1>4, <1>8 DEF CallSigned
  <2>3. \A g \in Handlers, m \in Sent : ~Tells(g, q, m)
    BY <1>1, <1>2 DEF Tells, Serves, WalletOps
  <2>4. \A m \in Sent : m.req # q
    BY <1>2, <1>8, <2>3 DEF RequestSent
  <2>5. Tells(h, q, mb)'
    BY <1>5 DEF Tells
  <2>. QED
    BY <1>6, <2>1, <2>2, <2>4, <2>5 DEF RequestSent
<1>. QED
  BY <1>1, <1>3, <1>4, <1>5, <1>6, <1>7, <1>8, <1>2, ServingKeeps

LEMMA MarkWaits ==
    ASSUME WaitInv, NEW h \in Handlers, MarkAsPublished(h)
    PROVE  Keeps
<1>. PICK q : q = call[h].req
  OBVIOUS
<1>1. call[h].pc = "awaitNode" /\ call[h].op = "signature" /\ call[h].op \in WalletOps
  BY DEF MarkAsPublished, WalletOps
<1>2. /\ q \in Requests /\ call \in [Handlers -> Call]
      /\ RowSeed(q) /\ wallet[q].kind # "published"
      /\ failures = 0 => RequestSent(q)
      /\ \A g \in Handlers : g # h => ~Serves(g, q)
  BY <1>1, ServesAlone
<1>3. UNCHANGED <<rows, wallet, wire, chain, failures>> /\ Sent' = Sent
  BY DEF MarkAsPublished, chainVars, Sent
<1>4. /\ \A g \in Handlers : g # h => call'[g] = call[g]
      /\ call'[h].op = "signature" /\ call'[h].req = q /\ call'[h].pc = "answer"
      /\ call'[h].reply.kind = "published"
  BY <1>1, <1>2 DEF MarkAsPublished, Reply, Idle
<1>5. CallServes(h)' /\ RowSeed(q)' /\ CallSeed(h)' /\ CallSigned(h)'
  BY <1>2, <1>3, <1>4 DEF CallServes, RowSeed, CallSeed, CallSigned, Exists, WalletOps
<1>6. ASSUME failures = 0 PROVE RowSigned(q)' /\ RequestSent(q)'
  <2>1. RowSigned(q)'
    BY <1>4 DEF RowSigned, Serves, WalletOps
  <2>2. \A m \in Sent : m.req = q => Tells(h, q, m)'
    BY <1>4 DEF Tells
  <2>. QED
    BY <1>2, <1>3, <1>6, <2>1, <2>2 DEF RequestSent
<1>. QED
  BY <1>1, <1>2, <1>3, <1>4, <1>5, <1>6, ServingKeeps

LEMMA AnswerWaits ==
    ASSUME WaitInv, NEW h \in Handlers, Answer(h)
    PROVE  Keeps
<1>. PICK q : q = call[h].req
  OBVIOUS
<1>1. call[h].pc = "answer" /\ call[h].op \in WalletOps
  BY DEF Answer, WaitInv, SeedInv, OneCall, CallServes, WalletPcs
<1>2. /\ q \in Requests /\ rows[q].status # "unused" /\ call \in [Handlers -> Call]
      /\ wallet \in [Requests -> View]
      /\ RowSeed(q) /\ CallSeed(h) /\ wallet[q].kind # "published"
      /\ failures = 0 => CallSigned(h) /\ RequestSent(q)
      /\ \A g \in Handlers : g # h => ~Serves(g, q)
  BY <1>1, ServesAlone DEF WaitInv, IInv, TypeInv, TypeOK
<1>3. UNCHANGED <<rows, wire, chain, failures>> /\ Sent' = Sent
  BY DEF Answer, dbVars, chainVars, Sent
<1>4. /\ \A g \in Handlers : g # h => call'[g] = call[g]
      /\ call'[h].op \notin WalletOps /\ call'[h].pc \notin WalletPcs
      /\ \A r \in Requests : r # q => wallet'[r] = wallet[r]
      /\ wallet'[q] = call[h].reply
  BY <1>2, IdleIsNoServing DEF Answer
<1>5. CallServes(h)' /\ CallSeed(h)' /\ CallSigned(h)'
  BY <1>4 DEF CallServes, CallSeed, CallSigned, WalletOps
<1>6. RowSeed(q)'
  BY <1>1, <1>2, <1>3, <1>4 DEF RowSeed, CallSeed, Exists
<1>7. ASSUME failures = 0 PROVE RowSigned(q)' /\ RequestSent(q)'
  <2>1. RowSigned(q)'
    BY <1>1, <1>2, <1>3, <1>4, <1>7 DEF RowSigned, CallSigned, Exists
  <2>2. ASSUME NEW m \in Sent, m.req = q PROVE wallet'[q].kind = "published"
    <3>1. PICK g \in Handlers : Tells(g, q, m)
      BY <1>2, <1>7, <2>2 DEF RequestSent
    <3>2. g = h
      BY <1>2, <3>1 DEF Tells, Serves, WalletOps
    <3>. QED
      BY <1>1, <1>4, <3>1, <3>2 DEF Tells
  <2>. QED
    BY <1>2, <1>3, <1>7, <2>1, <2>2 DEF RequestSent
<1>. QED
  BY <1>1, <1>2, <1>3, <1>4, <1>5, <1>6, <1>7, ServingKeeps

\* A call that throws had sent nothing, or what it sent was refused.
LEMMA ThrowsWaits ==
    ASSUME WaitInv, NEW h \in Handlers, Throws(h)
    PROVE  Keeps
<1>. PICK q : q = call[h].req
  OBVIOUS
<1>1. call' = [call EXCEPT ![h] = Idle] /\ UNCHANGED <<rows, wallet, wire, chain, failures>>
  BY DEF Throws, dbVars, chainVars
<1>2. CASE call[h].op \notin WalletOps \/ call[h].pc # "awaitNode"
  <2>1. call[h].op \notin WalletOps \/ call[h].pc \notin {"awaitNode", "answer"}
    BY <1>2 DEF Throws
  <2>. QED
    BY <1>1, <2>1, SameRowsQuiet, EndsQuiet
<1>3. CASE call[h].op \in WalletOps /\ call[h].pc = "awaitNode"
  <2>1. call[h].mb \notin Sent /\ Sent' = Sent
    BY <1>1, <1>3 DEF Throws, Sent, WalletOps
  <2>2. /\ q \in Requests /\ call \in [Handlers -> Call]
        /\ RowSeed(q) /\ wallet[q].kind # "published"
        /\ failures = 0 => RowSigned(q) /\ RequestSent(q)
        /\ \A g \in Handlers : g # h => ~Serves(g, q)
    BY <1>3, ServesAlone
  <2>3. /\ \A g \in Handlers : g # h => call'[g] = call[g]
        /\ call'[h].op \notin WalletOps /\ call'[h].pc \notin WalletPcs
    BY <1>1, <2>2, IdleIsNoServing
  <2>4. CallServes(h)' /\ CallSeed(h)' /\ CallSigned(h)'
    BY <2>3 DEF CallServes, CallSeed, CallSigned, WalletOps
  <2>5. RowSeed(q)'
    BY <1>1, <2>2 DEF RowSeed, Exists
  <2>6. ASSUME failures = 0 PROVE RowSigned(q)' /\ RequestSent(q)'
    <3>1. \A g \in Handlers : Serves(g, q) => call[g].pc # "answer"
      BY <1>3, <2>2
    <3>2. RowSigned(q)'
      BY <1>1, <2>2, <2>6, <3>1 DEF RowSigned, Exists
    <3>3. \A g \in Handlers, m \in Sent : ~Tells(g, q, m)
      BY <1>3, <2>1, <2>2 DEF Tells, Serves, WalletOps
    <3>4. \A m \in Sent : m.req # q
      BY <2>2, <2>6, <3>3 DEF RequestSent
    <3>. QED
      BY <2>1, <3>2, <3>4 DEF RequestSent
  <2>. QED
    BY <1>1, <1>3, <2>1, <2>2, <2>3, <2>4, <2>5, <2>6, ServingKeeps
<1>. QED
  BY <1>2, <1>3

\* A wallet that waits sends its message when no call serves its request: the
\* microblock it has seen is the one that is stored.
LEMMA WalletWaitsToSend ==
    ASSUME WalletWaits, WaitInv, NEW h \in Handlers, NEW op \in WalletOps, NEW r \in Requests,
           WalletSends(h, op, r)
    PROVE  Keeps
<1>1. /\ call \in [Handlers -> Call] /\ IInv /\ SeedInv /\ SignedInv
      /\ RowSeed(r) /\ (failures = 0 => RowSigned(r) /\ RequestSent(r))
  BY DEF WaitInv, IInv, TypeInv, TypeOK, SeedInv, SignedInv
<1>2. \A g \in Handlers : CallServes(g)
  BY DEF WaitInv, SeedInv, OneCall
<1>3. \A g \in Handlers : ~Serves(g, r)
  BY <1>2 DEF WalletSends, FollowsProtocol, Busy, Serves, CallServes
<1>4. /\ UNCHANGED <<rows, wallet, wire, chain, failures>> /\ Sent' = Sent
      /\ call[h].pc = "idle" /\ wallet[r].kind # "published"
  BY DEF WalletSends, FollowsProtocol, dbVars, chainVars, Sent
<1>5. /\ \A g \in Handlers : g # h => call'[g] = call[g]
      /\ call'[h].pc = "findRequest" /\ call'[h].op = op /\ call'[h].req = r
      /\ op = "signature" => call'[h].sig = wallet[r].ref /\ wallet[r].kind = "approvalData"
  BY <1>1 DEF WalletSends, FollowsProtocol, Signature, Idle
<1>6. LocalStep(h, r)
  BY <1>2, <1>3, <1>4, <1>5 DEF LocalStep, CallServes
<1>7. CallServes(h)' /\ RowSeed(r)' /\ CallSeed(h)'
  BY <1>1, <1>4, <1>5 DEF CallServes, RowSeed, CallSeed, Exists, WalletOps
<1>8. ASSUME failures = 0 PROVE RowSigned(r)' /\ RequestSent(r)' /\ CallSigned(h)'
  <2>1. RowSigned(r)'
    BY <1>1, <1>3, <1>4, <1>8 DEF RowSigned, Exists
  <2>2. \A g \in Handlers, m \in Sent : ~Tells(g, r, m)
    BY <1>3 DEF Tells, Serves, WalletOps
  <2>3. RequestSent(r)'
    BY <1>1, <1>4, <1>8, <2>2 DEF RequestSent
  <2>4. CallSigned(h)'
    BY <1>1, <1>3, <1>4, <1>5, <1>8 DEF CallSigned, RowSigned, Exists
  <2>. QED
    BY <2>1, <2>3, <2>4
<1>9. SeedInv' /\ SignedInv'
  BY <1>1, <1>4, <1>6, <1>7, <1>8, SeedLocal, SignedLocal
<1>10. SeedStable
  BY <1>4 DEF SeedStable
<1>. QED
  BY <1>9, <1>10 DEF Keeps

(***************************************************************************)
(* How many microblocks are sent for a request.                            *)
(***************************************************************************)

LEMMA CountInit == Init => CountInv
<1>. SUFFICES ASSUME Init PROVE CountInv
  OBVIOUS
<1>1. failures = 0 /\ \A r \in Requests : SentOf(r) = {}
  BY DEF Init, SentOf, Sent
<1>. QED
  BY <1>1, FS_EmptySet DEF CountInv

\* Nothing is sent or refused, and no wallet that was told, or was to be told, is
\* forgotten.
LEMMA CountKeeps ==
    ASSUME WaitInv, CountInv, failures' = failures,
           \A r \in Requests : SentOf(r)' = SentOf(r) /\ (Told(r) => Told(r)')
    PROVE  CountInv'
<1>. SUFFICES ASSUME NEW r \in Requests
              PROVE  /\ IsFiniteSet(SentOf(r)')
                     /\ Cardinality(SentOf(r)') <= failures' + (IF Told(r)' THEN 1 ELSE 0)
  BY DEF CountInv
<1>1. /\ IsFiniteSet(SentOf(r))
      /\ Cardinality(SentOf(r)) <= failures + (IF Told(r) THEN 1 ELSE 0)
  BY DEF CountInv
<1>2. SentOf(r)' = SentOf(r) /\ (Told(r) => Told(r)')
  OBVIOUS
<1>3. Cardinality(SentOf(r)) \in Nat /\ failures \in Nat
  BY <1>1, FS_CardinalityType DEF WaitInv, IInv, TypeInv, TypeOK
<1>4. CASE Told(r)
  BY <1>1, <1>2, <1>4
<1>5. CASE ~Told(r)
  BY <1>1, <1>2, <1>3, <1>5
<1>. QED
  BY <1>4, <1>5

\* A failure is paid for with the count of the wallet that was told.
LEMMA CountFailure ==
    ASSUME WaitInv, CountInv, failures' = failures + 1, Sent' \subseteq Sent
    PROVE  CountInv'
<1>. SUFFICES ASSUME NEW r \in Requests
              PROVE  /\ IsFiniteSet(SentOf(r)')
                     /\ Cardinality(SentOf(r)') <= failures' + (IF Told(r)' THEN 1 ELSE 0)
  BY DEF CountInv
<1>1. failures \in Nat
  BY DEF WaitInv, IInv, TypeInv, TypeOK
<1>2. /\ IsFiniteSet(SentOf(r))
      /\ Cardinality(SentOf(r)) <= failures + 1
      /\ Cardinality(SentOf(r)) \in Nat
  BY <1>1, FS_CardinalityType DEF CountInv
<1>3. SentOf(r)' \subseteq SentOf(r)
  BY DEF SentOf
<1>4. IsFiniteSet(SentOf(r)') /\ Cardinality(SentOf(r)') <= Cardinality(SentOf(r))
  BY <1>2, <1>3, FS_Subset
<1>5. Cardinality(SentOf(r)') \in Nat
  BY <1>4, FS_CardinalityType
<1>. QED
  BY <1>1, <1>2, <1>4, <1>5

\* A call, or a message, that arrives, and a step of a call, change one call.
LEMMA OneCallChanges ==
    ASSUME NEW h \in Handlers, Receive(h) \/ Step(h)
    PROVE  \E c : call' = [call EXCEPT ![h] = c]
<1>1. CASE Receive(h)
  BY <1>1 DEF Receive, ClientSends, WalletSends
<1>2. CASE Step(h)
  BY <1>2 DEF Step, StoreAnchorRequest, FindRequest, FindApplicationByVbId,
         LoadApplicationLedger, ReadGenesisSeed, SaveGeneratedSeed, BuildMicroblock,
         AskActorKey, SealAndPublish, MarkAsPublished, Answer, BuildAndPublish,
         SaveCompletedAnchorRequest, Throws
<1>. QED
  BY <1>1, <1>2

\* A call that changes while it has nothing to tell leaves the counts as they are.
LEMMA CountQuiet ==
    ASSUME WaitInv, CountInv, NEW h \in Handlers,
           \A g \in Handlers : g # h => call'[g] = call[g],
           \A r \in Requests, m \in Sent : ~Tells(h, r, m),
           UNCHANGED <<wallet, failures>>,
           \A r \in Requests : SentOf(r)' = SentOf(r)
    PROVE  CountInv'
<1>1. ASSUME NEW r \in Requests, Told(r) PROVE Told(r)'
  <2>1. CASE wallet[r].kind = "published"
    BY <2>1 DEF Told
  <2>2. ASSUME NEW g \in Handlers, NEW m \in SentOf(r), Tells(g, r, m) PROVE Told(r)'
    <3>1. g # h
      BY <2>2 DEF SentOf
    <3>2. Tells(g, r, m)'
      BY <2>2, <3>1 DEF Tells
    <3>. QED
      BY <3>2 DEF Told
  <2>. QED
    BY <1>1, <2>1, <2>2 DEF Told
<1>. QED
  BY <1>1, CountKeeps

\* A microblock is sealed when its wallet is neither told nor to be told: it is
\* one more, and its wallet is to be told.
LEMMA SealCounts ==
    ASSUME WaitInv, CountInv, NEW h \in Handlers, SealAndPublish(h)
    PROVE  CountInv'
<1>. PICK q, mb : q = call[h].req /\ mb = [call[h].mb EXCEPT !.signed = call[h].sig, !.sent = nonce]
  OBVIOUS
<1>1. call[h].pc = "seal" /\ call[h].op = "signature" /\ call[h].op \in WalletOps
  BY DEF SealAndPublish, WaitInv, IInv, CallFits, WalletOps
<1>2. /\ q \in Requests /\ call \in [Handlers -> Call] /\ call[h] \in Call
      /\ CallFits(h) /\ wallet[q].kind # "published"
      /\ \A g \in Handlers : g # h => ~Serves(g, q)
  BY <1>1, ServesAlone
<1>3. /\ call' = [call EXCEPT ![h] = Go(h, "awaitNode", mb)] /\ wire' = wire \cup {mb}
      /\ UNCHANGED <<wallet, chain, failures>>
  BY DEF SealAndPublish, chainVars
<1>4. mb.req = q
  BY <1>1, <1>2 DEF Call, Microblock, CallFits, Fits
<1>5. /\ \A g \in Handlers : g # h => call'[g] = call[g]
      /\ call'[h].op = "signature" /\ call'[h].req = q /\ call'[h].pc = "awaitNode"
      /\ call'[h].mb = mb
  BY <1>1, <1>2, <1>3 DEF Go, Idle
<1>6. Sent' = Sent \cup {mb}
  BY <1>3 DEF Sent
<1>7. failures \in Nat
  BY DEF WaitInv, IInv, TypeInv, TypeOK
<1>. SUFFICES ASSUME NEW r \in Requests
              PROVE  /\ IsFiniteSet(SentOf(r)')
                     /\ Cardinality(SentOf(r)') <= failures' + (IF Told(r)' THEN 1 ELSE 0)
  BY DEF CountInv
<1>8. /\ IsFiniteSet(SentOf(r)) /\ Cardinality(SentOf(r)) \in Nat
      /\ Cardinality(SentOf(r)) <= failures + (IF Told(r) THEN 1 ELSE 0)
  BY FS_CardinalityType DEF CountInv
<1>9. CASE r = q
  <2>1. ~Told(q)
    BY <1>1, <1>2 DEF Told, Tells, Serves, WalletOps
  <2>2. SentOf(r)' = SentOf(r) \cup {mb}
    BY <1>4, <1>6, <1>9 DEF SentOf
  <2>3. Told(r)'
    <3>1. Tells(h, r, mb)'
      BY <1>5, <1>9 DEF Tells
    <3>2. mb \in SentOf(r)'
      BY <2>2
    <3>. QED
      BY <3>1, <3>2 DEF Told
  <2>4. /\ IsFiniteSet(SentOf(r) \cup {mb})
        /\ \/ Cardinality(SentOf(r) \cup {mb}) = Cardinality(SentOf(r))
           \/ Cardinality(SentOf(r) \cup {mb}) = Cardinality(SentOf(r)) + 1
    BY <1>8, FS_AddElement
  <2>. QED
    BY <1>3, <1>7, <1>8, <1>9, <2>1, <2>2, <2>3, <2>4
<1>10. CASE r # q
  <2>1. SentOf(r)' = SentOf(r)
    BY <1>4, <1>6, <1>10 DEF SentOf
  <2>2. ASSUME Told(r) PROVE Told(r)'
    <3>1. \A g \in Handlers, m \in SentOf(r) : Tells(g, r, m) => Tells(g, r, m)'
      BY <1>5, <1>10 DEF Tells
    <3>. QED
      BY <1>3, <2>1, <2>2, <3>1 DEF Told
  <2>. QED
    BY <1>3, <1>7, <1>8, <2>1, <2>2
<1>. QED
  BY <1>9, <1>10

\* The wallet whose microblock was accepted is to be told, and then is.
LEMMA TellsOn ==
    ASSUME WaitInv, CountInv, NEW h \in Handlers, MarkAsPublished(h) \/ Answer(h)
    PROVE  CountInv'
<1>. PICK q : q = call[h].req
  OBVIOUS
<1>1. call[h].op \in WalletOps
  BY DEF MarkAsPublished, Answer, WalletOps, WaitInv, SeedInv, OneCall, CallServes, WalletPcs
<1>2. /\ q \in Requests /\ call \in [Handlers -> Call] /\ wallet \in [Requests -> View]
      /\ wallet[q].kind # "published"
  BY <1>1, ServesAlone DEF WaitInv, IInv, TypeInv, TypeOK
<1>3. /\ failures' = failures /\ Sent' = Sent
      /\ \A g \in Handlers : g # h => call'[g] = call[g]
      /\ \A r \in Requests : r # q => wallet'[r] = wallet[r]
  BY <1>2 DEF MarkAsPublished, Answer, chainVars, Sent
<1>4. \A r \in Requests : SentOf(r)' = SentOf(r)
  BY <1>3 DEF SentOf
<1>5. ASSUME NEW m, Tells(h, q, m) PROVE Tells(h, q, m)' \/ wallet'[q].kind = "published"
  <2>1. CASE MarkAsPublished(h)
    BY <1>2, <2>1 DEF MarkAsPublished, Reply, Idle, Tells
  <2>2. CASE Answer(h)
    BY <1>2, <1>5, <2>2 DEF Answer, Tells
  <2>. QED
    BY <2>1, <2>2
<1>6. ASSUME NEW r \in Requests, Told(r) PROVE Told(r)'
  <2>1. CASE wallet[r].kind = "published"
    BY <1>2, <1>3, <2>1 DEF Told
  <2>2. ASSUME NEW g \in Handlers, NEW m \in SentOf(r), Tells(g, r, m) PROVE Told(r)'
    <3>1. CASE g # h
      <4>1. Tells(g, r, m)'
        BY <1>3, <2>2, <3>1 DEF Tells
      <4>. QED
        BY <1>4, <4>1 DEF Told
    <3>2. CASE g = h
      <4>1. r = q
        BY <2>2, <3>2 DEF Tells
      <4>. QED
        BY <1>4, <1>5, <2>2, <3>2, <4>1 DEF Told
    <3>. QED
      BY <3>1, <3>2
  <2>. QED
    BY <1>6, <2>1, <2>2 DEF Told
<1>. QED
  BY <1>3, <1>4, <1>6, CountKeeps

\* POST /anchor publishes for no request.
LEMMA AnchorCounts ==
    ASSUME WaitInv, CountInv, NEW h \in Handlers, BuildAndPublish(h)
    PROVE  CountInv'
<1>1. PICK mb : mb.req = NoRequest /\ wire' = wire \cup {mb}
  BY AnchorSends
<1>2. Sent' = Sent \cup {mb}
  BY <1>1 DEF BuildAndPublish, Sent, chainVars
<1>3. \A r \in Requests : SentOf(r)' = SentOf(r)
  BY <1>1, <1>2, NoRequestAssumption DEF SentOf
<1>4. /\ call \in [Handlers -> Call] /\ call[h].op = "anchor"
      /\ UNCHANGED <<wallet, failures>>
  BY DEF BuildAndPublish, WaitInv, IInv, TypeInv, TypeOK
<1>5. \A g \in Handlers : g # h => call'[g] = call[g]
  BY <1>4, OneCallChanges DEF Step
<1>. QED
  BY <1>3, <1>4, <1>5, CountQuiet DEF Tells

\* A call has nothing to tell of a microblock that was refused, and none of the
\* other steps is that of a call that has.
LEMMA OthersCount ==
    ASSUME WaitInv, CountInv, NEW h \in Handlers, Receive(h) \/ Step(h),
           ~SealAndPublish(h), ~MarkAsPublished(h), ~Answer(h), ~BuildAndPublish(h)
    PROVE  CountInv'
<1>1. call \in [Handlers -> Call]
  BY DEF WaitInv, IInv, TypeInv, TypeOK
<1>2. \A g \in Handlers : g # h => call'[g] = call[g]
  BY <1>1, OneCallChanges
<1>3. UNCHANGED <<wallet, wire, chain, failures>>
  BY DEF Receive, ClientSends, WalletSends, Step, StoreAnchorRequest, FindRequest,
         FindApplicationByVbId, LoadApplicationLedger, ReadGenesisSeed, SaveGeneratedSeed,
         BuildMicroblock, AskActorKey, SaveCompletedAnchorRequest, Throws, chainVars
<1>4. \/ call[h].pc \notin {"awaitNode", "answer"} \/ call[h].op = "anchor"
      \/ call[h].pc = "awaitNode" /\ call[h].mb \notin Sent
  BY DEF Receive, ClientSends, WalletSends, Step, StoreAnchorRequest, FindRequest,
         FindApplicationByVbId, LoadApplicationLedger, ReadGenesisSeed, SaveGeneratedSeed,
         BuildMicroblock, AskActorKey, SaveCompletedAnchorRequest, Throws, Sent
<1>5. \A r \in Requests, m \in Sent : ~Tells(h, r, m)
  BY <1>4 DEF Tells
<1>6. \A r \in Requests : SentOf(r)' = SentOf(r)
  BY <1>3 DEF SentOf, Sent
<1>. QED
  BY <1>2, <1>3, <1>5, <1>6, CountQuiet

\* The node takes a microblock that was sent, or refuses it: then there is one
\* less, for the one its wallet will not be told of.
LEMMA NodeCounts ==
    ASSUME WaitInv, CountInv, NEW m \in wire, NodeAccepts(m) \/ NodeRefuses(m)
    PROVE  CountInv'
<1>1. call' = call /\ wallet' = wallet
  BY DEF NodeAccepts, NodeRefuses
<1>2. CASE failures' = failures + 1
  <2>1. Sent' \subseteq Sent
    BY DEF NodeAccepts, NodeRefuses, chainVars, Sent
  <2>. QED
    BY <1>2, <2>1, CountFailure
<1>3. CASE failures' = failures /\ Sent' = Sent
  BY <1>1, <1>3, CountKeeps DEF SentOf, Told, Tells
<1>4. CASE failures' = failures /\ Sent' = Sent \ {m}
  <2>. SUFFICES ASSUME NEW r \in Requests
                PROVE  /\ IsFiniteSet(SentOf(r)')
                       /\ Cardinality(SentOf(r)') <= failures' + (IF Told(r)' THEN 1 ELSE 0)
    BY DEF CountInv
  <2>1. /\ IsFiniteSet(SentOf(r)) /\ Cardinality(SentOf(r)) \in Nat /\ failures \in Nat
        /\ Cardinality(SentOf(r)) <= failures + (IF Told(r) THEN 1 ELSE 0)
    BY FS_CardinalityType DEF CountInv, WaitInv, IInv, TypeInv, TypeOK
  <2>2. SentOf(r)' = SentOf(r) \ {m}
    BY <1>4 DEF SentOf
  <2>3. CASE m \in SentOf(r)
    <3>1. /\ IsFiniteSet(SentOf(r)')
          /\ Cardinality(SentOf(r)') = Cardinality(SentOf(r)) - 1
      BY <2>1, <2>2, <2>3, FS_RemoveElement
    <3>. QED
      BY <1>4, <2>1, <3>1
  <2>4. CASE m \notin SentOf(r)
    <3>1. SentOf(r)' = SentOf(r)
      BY <2>2, <2>4
    <3>2. Told(r) => Told(r)'
      BY <1>1, <3>1 DEF Told, Tells
    <3>. QED
      BY <1>4, <2>1, <3>1, <3>2
  <2>. QED
    BY <2>3, <2>4
<1>. QED
  BY <1>2, <1>3, <1>4 DEF NodeAccepts, NodeRefuses, FailureLeft, chainVars, Sent

LEMMA CountNext ==
    ASSUME WaitInv, CountInv, [Next]_vars
    PROVE  CountInv'
<1>1. ASSUME NEW h \in Handlers, Receive(h) \/ Step(h) PROVE CountInv'
  BY <1>1, SealCounts, TellsOn, AnchorCounts, OthersCount
<1>2. ASSUME Crash \/ \E h \in Handlers : Fails(h) PROVE CountInv'
  <2>1. failures' = failures + 1 /\ Sent' = Sent
    BY <1>2 DEF Crash, Fails, FailureLeft, chainVars, Sent
  <2>. QED
    BY <2>1, CountFailure
<1>3. ASSUME UNCHANGED <<call, wallet, wire, chain, failures>> PROVE CountInv'
  BY <1>3, CountKeeps DEF SentOf, Told, Tells, Sent
<1>4. ASSUME \/ \E k \in marks : ApplyMark(k)
             \/ Admin
             \/ UNCHANGED vars
      PROVE  CountInv'
  BY <1>3, <1>4 DEF ApplyMark, Admin, DeleteAnchorRequest, DeleteApplications,
     CreateApplication, vars, chainVars
<1>. QED
  BY <1>1, <1>2, <1>4, NodeCounts DEF Next, Node

(***************************************************************************)
(* The results, for wallets that wait.                                     *)
(***************************************************************************)

LEMMA WaitNext ==
    ASSUME WalletWaits, WaitInv, [Next]_vars
    PROVE  WaitInv' /\ SeedStable
<1>1. IInv'
  BY IInvNext DEF WaitInv
<1>2. ASSUME NEW h \in Handlers, Step(h) PROVE Keeps
  BY <1>2, InsertWaits, FindWaits, LoadWaits, ReadSeedWaits, SaveSeedWaits, BuildWaits,
     AskWaits, SealWaits, MarkWaits, AnswerWaits, AnchorWaits, ThrowsWaits DEF Step
<1>3. ASSUME NEW h \in Handlers, Receive(h) PROVE Keeps
  BY <1>3, ClientWaits, WalletWaitsToSend DEF Receive
<1>4. Keeps
  BY <1>2, <1>3, FailsWaits, CrashWaits, ElsewhereWaits DEF Next
<1>. QED
  BY <1>1, <1>4 DEF Keeps, WaitInv

\* The strengthening holds of every reachable state.
THEOREM WaitInvHolds ==
    ASSUME WalletWaits
    PROVE  Spec => []WaitInv
BY WaitInit, WaitNext, PTL DEF Spec

\* A stored genesis seed never changes, so that a retry of the wallet, or one
\* after a crash, finds the seed its keys were derived from.
THEOREM SeedIsStableHolds ==
    ASSUME WalletWaits
    PROVE  Spec => SeedIsStable
<1>1. WaitInv /\ [Next]_vars => [\A r \in Requests : rows[r].seed # 0 /\ Exists(r)'
                                    => rows'[r].seed = rows[r].seed]_vars
  BY WaitNext DEF SeedStable
<1>. QED
  BY <1>1, WaitInvHolds, PTL DEF Spec, SeedIsStable

\* The stored microblock of a new ledger starts from the stored genesis seed.
THEOREM BuiltFromStoredSeedHolds ==
    ASSUME WalletWaits
    PROVE  Spec => []BuiltFromStoredSeed
<1>1. WaitInv => BuiltFromStoredSeed
  BY DEF WaitInv, SeedInv, RowSeed, BuiltFromStoredSeed
<1>. QED
  BY <1>1, WaitInvHolds, PTL

\* The seed a wallet was last given is the stored one.
THEOREM WalletKnowsSeedHolds ==
    ASSUME WalletWaits
    PROVE  Spec => []WalletKnowsSeed
<1>1. WaitInv => WalletKnowsSeed
  BY DEF WaitInv, SeedInv, RowSeed, WalletKnowsSeed
<1>. QED
  BY <1>1, WaitInvHolds, PTL

\* Short of a failure, what is published is what the wallet was shown.
THEOREM PublishedIsSignedHolds ==
    ASSUME WalletWaits
    PROVE  Spec => []PublishedIsSigned
<1>1. WaitInv => PublishedIsSigned
  BY DEF WaitInv, SignedInv, RequestSent, Sent, PublishedIsSigned
<1>. QED
  BY <1>1, WaitInvHolds, PTL

\* A request is published once, and once more for each crash, lost answer or
\* failed operation at most: the route checks that the request is still pending
\* only when a message arrives, and the status is written last.
THEOREM PublishedOnceHolds ==
    ASSUME WalletWaits
    PROVE  Spec => []PublishedOnce
<1>1. WaitInv /\ CountInv => PublishedOnce
  <2>. SUFFICES ASSUME WaitInv, CountInv, NEW r \in Requests
                PROVE  Cardinality(SentOf(r)) <= 1 + failures
    BY DEF PublishedOnce, SentOf, Sent
  <2>1. failures \in Nat /\ Cardinality(SentOf(r)) \in Nat
    BY FS_CardinalityType DEF CountInv, WaitInv, IInv, TypeInv, TypeOK
  <2>. QED
    BY <2>1 DEF CountInv
<1>2. WaitInv /\ CountInv /\ [Next]_vars => CountInv'
  BY CountNext
<1>. QED
  BY <1>1, <1>2, CountInit, WaitInvHolds, PTL DEF Spec
=============================================================================
