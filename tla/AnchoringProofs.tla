--------------------------- MODULE AnchoringProofs ---------------------------
(***************************************************************************)
(* Proofs about Anchoring, for any sets of requests, applications, ledgers *)
(* and handlers, any bounds, and both values of the flags.                 *)
(***************************************************************************)
EXTENDS AnchoringProperties, TLAPS

(***************************************************************************)
(* Type correctness.  It needs that a wallet's message names a request.    *)
(***************************************************************************)

WalletPcs == {"findRequest", "findApplication", "readSeed", "saveSeed", "seal", "answer"}
NamesARequest(c) == c.op \in WalletOps \/ c.pc \in WalletPcs => c.req \in Requests
NamesRequest(h) == NamesARequest(call[h])

TypeInv ==
    /\ TypeOK
    /\ \A h \in Handlers : NamesRequest(h)

LEMMA ConstantsTyped ==
    /\ NoMb \in Microblock
    /\ Unused \in Row
    /\ Deleted \in Row
    /\ NoView \in View
    /\ Idle \in Call
<1>1. NoMb \in Microblock
  BY DEF NoMb, Microblock
<1>2. Unused \in Row /\ Deleted \in Row
  BY <1>1 DEF Unused, Deleted, Row
<1>3. NoView \in View
  BY DEF NoView, View
<1>4. Idle \in Call
  BY <1>1, <1>3 DEF Idle, Call
<1>. QED
  BY <1>1, <1>2, <1>3, <1>4

LEMMA TypeInit == Init => TypeInv
<1>. SUFFICES ASSUME Init PROVE TypeInv
  OBVIOUS
<1>1. TypeOK
  BY ConstantsTyped DEF Init, TypeOK, Before
<1>2. ASSUME NEW h \in Handlers PROVE NamesRequest(h)
  BY DEF Init, NamesRequest, NamesARequest, Idle, WalletOps, WalletPcs
<1>. QED
  BY <1>1, <1>2 DEF TypeInv

\* A step that gives one slot a typed call keeps the calls typed.
GivesTyped(h) ==
    /\ call' = [call EXCEPT ![h] = call'[h]]
    /\ call'[h] \in Call
    /\ NamesARequest(call'[h])

LEMMA CallTyped ==
    ASSUME TypeInv, NEW h \in Handlers, GivesTyped(h)
    PROVE  call' \in [Handlers -> Call] /\ \A g \in Handlers : NamesRequest(g)'
BY DEF TypeInv, TypeOK, NamesRequest, NamesARequest, GivesTyped

LEMMA FoundTyped ==
    ASSUME NEW c \in Call, NEW app \in Apps \cup {NoApp},
           NEW vb \in Ledgers \cup {NoLedger}, NEW mb \in Microblock
    PROVE  [c EXCEPT !.pc = "findApplication", !.app = app, !.vb = vb, !.mb = mb] \in Call
BY DEF Call

LEMMA LoadedTyped ==
    ASSUME NEW c \in Call, NEW pc \in {"seal", "readSeed", "build"},
           NEW prev \in Nat, NEW subscribed \in BOOLEAN
    PROVE  [c EXCEPT !.pc = pc, !.prev = prev, !.subscribed = subscribed] \in Call
BY DEF Call

LEMMA GivesCall ==
    ASSUME TypeInv, NEW h \in Handlers, NEW c \in Call, NamesARequest(c),
           call' = [call EXCEPT ![h] = c]
    PROVE  GivesTyped(h)
BY DEF TypeInv, TypeOK, GivesTyped

LEMMA GivesIdle ==
    ASSUME TypeInv, NEW h \in Handlers, call' = [call EXCEPT ![h] = Idle]
    PROVE  GivesTyped(h)
<1>1. NamesARequest(Idle)
  BY DEF NamesARequest, Idle, WalletOps, WalletPcs
<1>. QED
  BY <1>1, GivesCall, ConstantsTyped

LEMMA GoTyped ==
    ASSUME TypeInv, NEW h \in Handlers, NEW m \in Microblock,
           NEW pc \in {"awaitNode"}
    PROVE  Go(h, pc, m) \in Call /\ Go(h, pc, m).op = call[h].op
              /\ Go(h, pc, m).req = call[h].req
BY ConstantsTyped DEF Go, TypeInv, TypeOK, Call, Idle

LEMMA ReplyTyped ==
    ASSUME TypeInv, NEW h \in Handlers, NEW ref \in Nat,
           NEW kind \in {"actorKeyRequired", "approvalData", "published"}
    PROVE  Reply(h, kind, ref) \in Call /\ Reply(h, kind, ref).op = call[h].op
              /\ Reply(h, kind, ref).req = call[h].req
BY ConstantsTyped DEF Reply, TypeInv, TypeOK, Call, Idle, View

\* Writing one column of a row keeps the rows typed.
LEMMA SaveTyped ==
    ASSUME TypeInv, NEW r \in Requests
    PROVE  /\ \A seed \in Nat : SaveGenesisSeed(r, seed) => rows' \in [Requests -> Row]
           /\ \A mb \in Microblock : SaveMicroblock(r, mb) => rows' \in [Requests -> Row]
BY DEF TypeInv, TypeOK, Row, SaveGenesisSeed, SaveMicroblock

\* The calls that arrive, and the administrator's.
LEMMA TypeReceive ==
    ASSUME TypeInv, NEW h \in Handlers, Receive(h)
    PROVE  TypeInv'
<1>1. ASSUME NEW op \in ClientOps, NEW a \in Apps \cup {NoApp},
             NEW l \in Ledgers \cup {NoLedger}, ClientSends(h, op, a, l)
      PROVE  TypeInv'
  <2>1. GivesTyped(h)
    <3>. DEFINE c(pc, b) == [Idle EXCEPT !.pc = pc, !.op = op, !.vb = l, !.app = b]
    <3>1. \A pc \in {"store", "loadLedger"}, b \in Apps \cup {NoApp} :
            c(pc, b) \in Call /\ NamesARequest(c(pc, b))
      BY <1>1, ConstantsTyped
      DEF Call, Idle, ClientOps, WalletOps, NamesARequest, WalletPcs
    <3>2. \E pc \in {"store", "loadLedger"}, b \in Apps \cup {NoApp} :
            call' = [call EXCEPT ![h] = c(pc, b)]
      BY <1>1, Zenon DEF ClientSends
    <3>. HIDE DEF c
    <3>. QED
      BY <3>1, <3>2, GivesCall
  <2>2. call' \in [Handlers -> Call] /\ \A g \in Handlers : NamesRequest(g)'
    BY <2>1, CallTyped
  <2>. QED
    BY <1>1, <2>2 DEF ClientSends, Arrives, TypeInv, TypeOK, dbVars, chainVars
<1>2. ASSUME NEW op \in WalletOps, NEW r \in Requests, WalletSends(h, op, r)
      PROVE  TypeInv'
  <2>1. GivesTyped(h)
    <3>1. Signature(r) \in Nat
      BY DEF Signature, TypeInv, TypeOK, View
    <3>. QED
      BY <1>2, <3>1, ConstantsTyped
      DEF WalletSends, TypeInv, TypeOK, GivesTyped, Call, Idle, NamesARequest
  <2>2. call' \in [Handlers -> Call] /\ \A g \in Handlers : NamesRequest(g)'
    BY <2>1, CallTyped
  <2>. QED
    BY <1>2, <2>2 DEF WalletSends, Arrives, TypeInv, TypeOK, dbVars, chainVars
<1>. QED
  BY <1>1, <1>2 DEF Receive

LEMMA TypeAdmin ==
    ASSUME TypeInv, Admin
    PROVE  TypeInv'
<1>1. ASSUME NEW r \in Requests, DeleteAnchorRequest(r)
      PROVE  TypeInv'
  BY <1>1, ConstantsTyped
  DEF DeleteAnchorRequest, Arrives, TypeInv, TypeOK, NamesRequest, chainVars
<1>2. ASSUME NEW A \in SUBSET apps, DeleteApplications(A)
      PROVE  TypeInv'
  BY <1>2, ConstantsTyped
  DEF DeleteApplications, Arrives, TypeInv, TypeOK, NamesRequest, chainVars
<1>3. ASSUME NEW a \in Apps, CreateApplication(a)
      PROVE  TypeInv'
  BY <1>3 DEF CreateApplication, Arrives, TypeInv, TypeOK, NamesRequest, chainVars
<1>. QED
  BY <1>1, <1>2, <1>3 DEF Admin

\* The steps that write no row.
LEMMA TypeReads ==
    ASSUME TypeInv, NEW h \in Handlers,
           \/ FindRequest(h) \/ FindApplicationByVbId(h) \/ LoadApplicationLedger(h)
           \/ ReadGenesisSeed(h) \/ Answer(h) \/ Throws(h) \/ Fails(h)
    PROVE  TypeInv'
<1>0. call \in [Handlers -> Call] /\ call[h] \in Call /\ NamesARequest(call[h])
  BY DEF TypeInv, TypeOK, NamesRequest
<1>. SUFFICES /\ GivesTyped(h)
              /\ wallet' \in [Requests -> View]
              /\ nonce' \in Nat /\ calls' \in Nat /\ failures' \in Nat
              /\ UNCHANGED <<rows, apps, marks, wire, chain, head, actors>>
  BY CallTyped DEF TypeInv, TypeOK
<1>1. CASE FindRequest(h)
  <2>1. call[h].req \in Requests
    BY <1>0, <1>1 DEF FindRequest, NamesARequest, WalletPcs
  <2>2. rows[call[h].req] \in Row
    BY <2>1 DEF TypeInv, TypeOK
  <2>3. GivesTyped(h)
    <3>. DEFINE row == rows[call[h].req]
                c == [call[h] EXCEPT !.pc = "findApplication", !.app = row.app, !.vb = row.vb,
                        !.mb = IF call[h].op = "signature" THEN row.built ELSE NoMb]
    <3>a. row.app \in Apps \cup {NoApp} /\ row.vb \in Ledgers \cup {NoLedger} /\ row.built \in Microblock
      BY <2>2 DEF Row
    <3>b. c \in Call
      BY <1>0, <3>a, ConstantsTyped, FoundTyped, Zenon
    <3>c. NamesARequest(c)
      BY <1>0, <2>1 DEF NamesARequest, Call
    <3>1. c \in Call /\ NamesARequest(c)
      BY <3>b, <3>c
    <3>2. call' = [call EXCEPT ![h] = c]
      BY <1>0, <1>1 DEF FindRequest
    <3>. HIDE DEF c
    <3>. QED
      BY <3>1, <3>2, GivesCall
  <2>. QED
    BY <1>1, <2>3 DEF FindRequest, dbVars, chainVars, TypeInv, TypeOK
<1>2. CASE FindApplicationByVbId(h)
  <2>1. GivesTyped(h)
    BY <1>0, <1>2 DEF FindApplicationByVbId, GivesTyped, Call, NamesARequest, WalletPcs
  <2>. QED
    BY <1>2, <2>1 DEF FindApplicationByVbId, dbVars, chainVars, TypeInv, TypeOK
<1>3. CASE LoadApplicationLedger(h)
  <2>1. call[h].vb \in Ledgers => head[call[h].vb] \in Nat
    BY DEF TypeInv, TypeOK
  <2>2. GivesTyped(h)
    <3>. DEFINE prev == IF call[h].vb \in Ledgers THEN head[call[h].vb] ELSE 0
                subscribed == call[h].vb \in actors
                c(pc) == [call[h] EXCEPT !.pc = pc, !.prev = prev, !.subscribed = subscribed]
    <3>a. ASSUME NEW pc \in {"seal", "readSeed", "build"} PROVE c(pc) \in Call
      <4>1. prev \in Nat /\ subscribed \in BOOLEAN
        BY <2>1
      <4>. HIDE DEF prev, subscribed
      <4>. QED
        BY <1>0, <4>1, LoadedTyped
    <3>b. ASSUME NEW pc \in {"seal", "readSeed", "build"}, call[h].op \in WalletOps \/ pc = "build"
          PROVE  NamesARequest(c(pc))
      BY <1>0, <3>b DEF Call, NamesARequest, WalletPcs
    <3>1. \A pc \in {"seal", "readSeed", "build"} :
             /\ c(pc) \in Call
             /\ call[h].op \in WalletOps \/ pc = "build" => NamesARequest(c(pc))
      BY <3>a, <3>b
    <3>2. \E pc \in {"seal", "readSeed", "build"} :
             /\ call[h].op \in WalletOps \/ pc = "build"
             /\ call' = [call EXCEPT ![h] = c(pc)]
      <4>1. CASE call[h].op = "signature"
        BY <1>0, <1>3, <4>1 DEF LoadApplicationLedger, WalletOps
      <4>2. CASE call[h].op \in {"handshake", "actorKey"} /\ call[h].vb = NoLedger
        BY <1>0, <1>3, <4>2 DEF LoadApplicationLedger, WalletOps
      <4>3. CASE /\ call[h].op # "signature"
                 /\ ~(call[h].op \in {"handshake", "actorKey"} /\ call[h].vb = NoLedger)
        BY <1>0, <1>3, <4>3 DEF LoadApplicationLedger, WalletOps
      <4>. QED
        BY <4>1, <4>2, <4>3
    <3>. HIDE DEF c
    <3>. QED
      BY <3>1, <3>2, GivesCall
  <2>. QED
    BY <1>3, <2>2 DEF LoadApplicationLedger, dbVars, chainVars, TypeInv, TypeOK
<1>4. CASE ReadGenesisSeed(h)
  <2>1. call[h].req \in Requests
    BY <1>0, <1>4 DEF ReadGenesisSeed, NamesARequest, WalletPcs
  <2>2. rows[call[h].req].seed \in Nat /\ nonce \in Nat
    BY <2>1 DEF TypeInv, TypeOK, Row
  <2>3. GivesTyped(h)
    BY <1>0, <1>4, <2>1, <2>2 DEF ReadGenesisSeed, GivesTyped, Call, NamesARequest
  <2>. QED
    BY <1>4, <2>2, <2>3 DEF ReadGenesisSeed, dbVars, chainVars, TypeInv, TypeOK
<1>5. CASE Answer(h)
  <2>1. call[h].reply \in View
    BY <1>0 DEF Call
  <2>2. wallet' \in [Requests -> View]
    BY <1>5, <2>1 DEF Answer, TypeInv, TypeOK
  <2>3. GivesTyped(h)
    BY <1>0, <1>5, ConstantsTyped DEF Answer, GivesTyped, NamesARequest, Idle, WalletOps, WalletPcs
  <2>. QED
    BY <1>5, <2>2, <2>3 DEF Answer, dbVars, chainVars, TypeInv, TypeOK
<1>6. CASE Throws(h) \/ Fails(h)
  <2>1. GivesTyped(h)
    BY <1>6, GivesIdle DEF Throws, Fails
  <2>. QED
    BY <1>6, <2>1 DEF Throws, Fails, FailureLeft, dbVars, chainVars, TypeInv, TypeOK
<1>. QED
  BY <1>1, <1>2, <1>3, <1>4, <1>5, <1>6

\* The steps that write a row.
LEMMA TypeWrites ==
    ASSUME TypeInv, NEW h \in Handlers,
           \/ SaveGeneratedSeed(h) \/ BuildMicroblock(h) \/ AskActorKey(h)
           \/ \E r \in Requests : StoreAnchorRequest(h, r) \/ SaveCompletedAnchorRequest(h, r)
    PROVE  TypeInv'
<1>0. call \in [Handlers -> Call] /\ call[h] \in Call /\ NamesARequest(call[h])
  BY DEF TypeInv, TypeOK, NamesRequest
<1>. SUFFICES /\ GivesTyped(h)
              /\ rows' \in [Requests -> Row]
              /\ nonce' \in Nat
              /\ UNCHANGED <<apps, marks, wallet, wire, chain, head, actors, calls, failures>>
  BY CallTyped DEF TypeInv, TypeOK
<1>1. CASE SaveGeneratedSeed(h)
  <2>1. call[h].req \in Requests /\ call[h].prev \in Nat
    BY <1>0, <1>1 DEF SaveGeneratedSeed, NamesARequest, WalletPcs, Call
  <2>2. rows' \in [Requests -> Row]
    BY <1>1, <2>1, SaveTyped DEF SaveGeneratedSeed
  <2>3. GivesTyped(h)
    <3>1. [call[h] EXCEPT !.pc = "build"] \in Call /\ NamesARequest([call[h] EXCEPT !.pc = "build"])
      BY <1>0, <2>1 DEF Call, NamesARequest
    <3>. QED
      BY <1>0, <1>1, <3>1, GivesCall DEF SaveGeneratedSeed
  <2>. QED
    BY <1>1, <2>2, <2>3 DEF SaveGeneratedSeed, chainVars, TypeInv, TypeOK
<1>2. CASE BuildMicroblock(h)
  <2>1. call[h].req \in Requests /\ call[h].op \in WalletOps
    BY <1>0, <1>2 DEF BuildMicroblock, NamesARequest, WalletOps
  <2>2. PICK mb \in Microblock : /\ SaveMicroblock(call[h].req, mb)
                                 /\ call' = [call EXCEPT ![h] = Reply(h, "approvalData", mb.id)]
    <3>. DEFINE mb(b) == [id |-> nonce, req |-> call[h].req, vb |-> call[h].vb,
                          prev |-> call[h].prev, subscribes |-> b, signed |-> 0, sent |-> 0]
    <3>1. \A b \in BOOLEAN : mb(b) \in Microblock
      BY <1>0, <2>1 DEF Microblock, Call, TypeInv, TypeOK
    <3>2. \E b \in BOOLEAN : /\ SaveMicroblock(call[h].req, mb(b))
                             /\ call' = [call EXCEPT ![h] = Reply(h, "approvalData", mb(b).id)]
      <4>. DEFINE b == call[h].op = "actorKey"
      <4>1. /\ SaveMicroblock(call[h].req, mb(b))
            /\ call' = [call EXCEPT ![h] = Reply(h, "approvalData", mb(b).id)]
        BY <1>2 DEF BuildMicroblock
      <4>2. b \in BOOLEAN
        OBVIOUS
      <4>. HIDE DEF mb, b
      <4>. QED
        BY <4>1, <4>2
    <3>. HIDE DEF mb
    <3>. QED
      BY <3>1, <3>2
  <2>3. mb.id \in Nat /\ rows' \in [Requests -> Row]
    BY <2>1, <2>2, SaveTyped DEF Microblock
  <2>4. GivesTyped(h)
    BY <2>1, <2>2, <2>3, ReplyTyped, GivesCall DEF NamesARequest
  <2>5. nonce' \in Nat
    BY <1>2 DEF BuildMicroblock, TypeInv, TypeOK
  <2>. QED
    BY <1>2, <2>3, <2>4, <2>5 DEF BuildMicroblock, chainVars
<1>3. CASE AskActorKey(h)
  <2>1. call[h].req \in Requests /\ call[h].prev \in Nat
    BY <1>0, <1>3 DEF AskActorKey, NamesARequest, WalletOps, Call
  <2>2. PICK seed \in Nat : /\ SaveGenesisSeed(call[h].req, seed)
                            /\ call' = [call EXCEPT ![h] = Reply(h, "actorKeyRequired", seed)]
    BY <1>3, <2>1 DEF AskActorKey, Before
  <2>3. rows' \in [Requests -> Row]
    BY <2>1, <2>2, SaveTyped
  <2>4. GivesTyped(h)
    BY <2>1, <2>2, ReplyTyped, GivesCall DEF NamesARequest
  <2>. QED
    BY <1>3, <2>3, <2>4 DEF AskActorKey, chainVars, TypeInv, TypeOK
<1>4. ASSUME NEW r \in Requests, StoreAnchorRequest(h, r)
      PROVE  /\ GivesTyped(h) /\ rows' \in [Requests -> Row] /\ nonce' \in Nat
             /\ UNCHANGED <<apps, marks, wallet, wire, chain, head, actors, calls, failures>>
  <2>1. [Unused EXCEPT !.status = "pending", !.app = call[h].app, !.vb = call[h].vb] \in Row
    BY <1>0, ConstantsTyped DEF Unused, Row, Call
  <2>2. rows' \in [Requests -> Row]
    BY <1>4, <2>1 DEF StoreAnchorRequest, TypeInv, TypeOK
  <2>3. GivesTyped(h)
    BY <1>4, GivesIdle DEF StoreAnchorRequest
  <2>. QED
    BY <1>4, <2>2, <2>3 DEF StoreAnchorRequest, chainVars, TypeInv, TypeOK
<1>5. ASSUME NEW r \in Requests, SaveCompletedAnchorRequest(h, r)
      PROVE  /\ GivesTyped(h) /\ rows' \in [Requests -> Row] /\ nonce' \in Nat
             /\ UNCHANGED <<apps, marks, wallet, wire, chain, head, actors, calls, failures>>
  <2>1. \A id \in Nat, vbId \in Ledgers \cup Nat :
           [Unused EXCEPT !.status = "completed", !.app = call[h].app, !.vb = call[h].vb,
                          !.published = id, !.vbId = vbId] \in Row
    BY <1>0, ConstantsTyped DEF Unused, Row, Call
  <2>2. call[h].mb.id \in Nat
        /\ (IF call[h].vb \in Ledgers THEN call[h].vb ELSE call[h].mb.id) \in Ledgers \cup Nat
    BY <1>0 DEF Call, Microblock
  <2>3. rows' \in [Requests -> Row]
    BY <1>5, <2>1, <2>2 DEF SaveCompletedAnchorRequest, TypeInv, TypeOK
  <2>4. GivesTyped(h)
    BY <1>5, GivesIdle DEF SaveCompletedAnchorRequest
  <2>. QED
    BY <1>5, <2>3, <2>4 DEF SaveCompletedAnchorRequest, chainVars, TypeInv, TypeOK
<1>. QED
  BY <1>1, <1>2, <1>3, <1>4, <1>5

\* The steps that send a microblock to the node or learn that it was accepted.
LEMMA TypePublishes ==
    ASSUME TypeInv, NEW h \in Handlers,
           SealAndPublish(h) \/ MarkAsPublished(h) \/ BuildAndPublish(h)
    PROVE  TypeInv'
<1>0. call \in [Handlers -> Call] /\ call[h] \in Call /\ NamesARequest(call[h])
  BY DEF TypeInv, TypeOK, NamesRequest
<1>. SUFFICES /\ GivesTyped(h)
              /\ marks' \subseteq [req : Requests, mb : Microblock]
              /\ wire' \subseteq Microblock
              /\ nonce' \in Nat
              /\ UNCHANGED <<rows, apps, wallet, chain, head, actors, calls, failures>>
  BY CallTyped DEF TypeInv, TypeOK
<1>1. CASE SealAndPublish(h)
  <2>. DEFINE mb == [call[h].mb EXCEPT !.signed = call[h].sig, !.sent = nonce]
  <2>1. call[h].req \in Requests /\ mb \in Microblock
    BY <1>0, <1>1 DEF SealAndPublish, NamesARequest, WalletPcs, Call, Microblock, TypeInv, TypeOK
  <2>2. call' = [call EXCEPT ![h] = Go(h, "awaitNode", mb)] /\ wire' = wire \cup {mb}
    BY <1>1 DEF SealAndPublish
  <2>. HIDE DEF mb
  <2>3. GivesTyped(h)
    BY <2>1, <2>2, GoTyped, GivesCall DEF NamesARequest
  <2>. QED
    BY <1>1, <2>1, <2>2, <2>3 DEF SealAndPublish, dbVars, chainVars, TypeInv, TypeOK
<1>2. CASE MarkAsPublished(h)
  <2>1. call[h].req \in Requests /\ call[h].mb \in Microblock /\ call[h].mb.id \in Nat
    BY <1>0, <1>2 DEF MarkAsPublished, NamesARequest, WalletOps, Call, Microblock
  <2>2. GivesTyped(h)
    BY <1>2, <2>1, ReplyTyped, GivesCall DEF MarkAsPublished, NamesARequest
  <2>. QED
    BY <1>2, <2>1, <2>2 DEF MarkAsPublished, chainVars, TypeInv, TypeOK
<1>3. CASE BuildAndPublish(h)
  <2>1. PICK mb \in Microblock :
           /\ call' = [call EXCEPT ![h] = [Go(h, "awaitNode", mb) EXCEPT !.app = call[h].app,
                                                                        !.vb = call[h].vb]]
           /\ wire' = wire \cup {mb}
    <3>1. \A prev \in Nat :
            [id |-> nonce + 1, req |-> NoRequest, vb |-> call[h].vb, prev |-> prev,
             subscribes |-> FALSE, signed |-> 0, sent |-> nonce + 1] \in Microblock
      BY <1>0 DEF Microblock, Call, TypeInv, TypeOK
    <3>2. (IF call[h].vb \in Ledgers THEN call[h].prev ELSE nonce) \in Nat
      BY <1>0 DEF Call, TypeInv, TypeOK
    <3>. QED
      BY <1>3, <3>1, <3>2 DEF BuildAndPublish
  <2>. DEFINE go == Go(h, "awaitNode", mb)
              c == [go EXCEPT !.app = call[h].app, !.vb = call[h].vb]
  <2>2. go \in Call /\ go.op = call[h].op /\ go.req = call[h].req /\ go.pc = "awaitNode"
    BY <2>1, GoTyped DEF Go, Idle
  <2>. HIDE DEF go
  <2>3. c \in Call /\ NamesARequest(c)
    BY <1>0, <2>2 DEF Call, NamesARequest, WalletPcs
  <2>4. GivesTyped(h)
    BY <2>1, <2>3, GivesCall DEF go
  <2>. QED
    BY <1>3, <2>1, <2>4 DEF BuildAndPublish, dbVars, chainVars, TypeInv, TypeOK
<1>. QED
  BY <1>1, <1>2, <1>3

\* The database, the chain node and crashes.
LEMMA TypeEnvironment ==
    ASSUME TypeInv, (\E k \in marks : ApplyMark(k)) \/ Node \/ Crash
    PROVE  TypeInv'
<1>1. ASSUME NEW k \in marks, ApplyMark(k) PROVE TypeInv'
  <2>1. k.req \in Requests /\ k.mb.id \in Nat
    BY DEF TypeInv, TypeOK, Microblock
  <2>2. rows' \in [Requests -> Row]
    BY <1>1, <2>1 DEF ApplyMark, TypeInv, TypeOK, Row
  <2>. QED
    BY <1>1, <2>2 DEF ApplyMark, chainVars, TypeInv, TypeOK, NamesRequest, NamesARequest
<1>2. ASSUME NEW m \in wire, NodeAccepts(m) PROVE TypeInv'
  <2>1. m \in Microblock /\ m.id \in Nat
    BY DEF TypeInv, TypeOK, Microblock
  <2>2. head' \in [Ledgers -> Nat]
    BY <1>2, <2>1 DEF NodeAccepts, TypeInv, TypeOK
  <2>. QED
    BY <1>2, <2>1, <2>2
    DEF NodeAccepts, dbVars, TypeInv, TypeOK, NamesRequest, NamesARequest
<1>3. ASSUME NEW m \in wire, NodeRefuses(m) PROVE TypeInv'
  BY <1>3 DEF NodeRefuses, FailureLeft, dbVars, chainVars, TypeInv, TypeOK, NamesRequest, NamesARequest
<1>4. CASE Crash
  <2>1. NamesARequest(Idle)
    BY DEF NamesARequest, Idle, WalletOps, WalletPcs
  <2>2. call' \in [Handlers -> Call] /\ \A g \in Handlers : NamesRequest(g)'
    BY <1>4, <2>1, ConstantsTyped DEF Crash, NamesRequest, NamesARequest
  <2>. QED
    BY <1>4, <2>2 DEF Crash, FailureLeft, chainVars, TypeInv, TypeOK
<1>. QED
  BY <1>1, <1>2, <1>3, <1>4 DEF Node

LEMMA TypeNext == TypeInv /\ [Next]_vars => TypeInv'
<1>1. CASE UNCHANGED vars
  BY <1>1 DEF vars, TypeInv, TypeOK, NamesRequest, NamesARequest
<1>2. ASSUME TypeInv, NEW h \in Handlers, Step(h) \/ Fails(h) PROVE TypeInv'
  BY <1>2, TypeReads, TypeWrites, TypePublishes DEF Step
<1>3. ASSUME TypeInv, Next PROVE TypeInv'
  BY <1>2, <1>3, TypeReceive, TypeAdmin, TypeEnvironment DEF Next
<1>. QED
  BY <1>1, <1>3

\* Every variable keeps its type.
THEOREM TypeCorrect == Spec => []TypeOK
<1>1. TypeInv => TypeOK
  BY DEF TypeInv
<1>. QED
  BY <1>1, TypeInit, TypeNext, PTL DEF Spec

(***************************************************************************)
(* The inductive invariant.  A microblock must be followed from the row it *)
(* is stored in, through the call that publishes it, to the chain and back *)
(* to the row: each place must fit the request, which may be deleted       *)
(* meanwhile, and the random ids must keep apart what was built apart.     *)
(***************************************************************************)

\* Microblock m carries request r, on the ledger the row names if there is one.
Fits(r, m) == m.req = r /\ (Exists(r) => m.vb = rows[r].vb)

CallFits(h) ==
    LET c == call[h] IN
    /\ c.op \in WalletOps => rows[c.req].status # "unused"
    /\ c.pc = "seal" => c.op = "signature"
    /\ /\ c.op \in WalletOps
       /\ c.pc \in {"findApplication", "loadLedger", "readSeed", "saveSeed", "build"}
       => (Exists(c.req) => c.vb = rows[c.req].vb)
    /\ c.op = "signature" /\ c.pc \in {"findApplication", "loadLedger", "seal", "awaitNode"}
       => Fits(c.req, c.mb)
    /\ c.op = "anchor" /\ c.pc = "awaitNode"
       => c.mb.req = NoRequest /\ c.mb.vb = c.vb /\ c.mb.id # 0

RowFits(r) ==
    /\ Exists(r) /\ rows[r].built # NoMb => Fits(r, rows[r].built)
    /\ IsCompleted(r) => \E m \in chain : NamedBy(r, m)

MarkFits(k) ==
    /\ k.mb \in chain
    /\ rows[k.req].status # "unused"
    /\ Fits(k.req, k.mb)

\* Every microblock something refers to.  Its id, drawn when it was built,
\* tells which request it carries.
Known == {NoMb} \cup chain \cup wire
           \cup {call[h].mb : h \in Handlers} \cup {rows[r].built : r \in Requests}

KnownInv ==
    /\ \A m \in Known : m.id < nonce
    /\ \A m, n \in Known : m.id = n.id => m.req = n.req
    /\ \A m, n \in chain : m.id = n.id => m = n

\* A call of POST /anchor that waits for the node has a microblock of its own,
\* which no row names.
AwaitsAnchor(h) == call[h].op = "anchor" /\ call[h].pc = "awaitNode"
AnchorInv ==
    \A h \in Handlers : AwaitsAnchor(h) =>
        /\ \A r \in Requests : IsCompleted(r) => rows[r].published # call[h].mb.id
        /\ \A g \in Handlers : AwaitsAnchor(g) /\ call[g].mb.id = call[h].mb.id => g = h

IInv ==
    /\ TypeInv
    /\ \A h \in Handlers : CallFits(h)
    /\ \A r \in Requests : RowFits(r)
    /\ \A k \in marks : MarkFits(k)
    /\ KnownInv
    /\ AnchorInv
    /\ OneRequestPerMicroblock

LEMMA IInvInit == Init => IInv
<1>. SUFFICES ASSUME Init PROVE IInv
  OBVIOUS
<1>1. TypeInv
  BY TypeInit
<1>2. \A r \in Requests : rows[r].status = "unused" /\ rows[r].built = NoMb
  BY DEF Init, Unused
<1>3. \A h \in Handlers : call[h].pc = "idle" /\ call[h].op = "none" /\ call[h].mb = NoMb
  BY DEF Init, Idle
<1>4. \A h \in Handlers : CallFits(h)
  BY <1>3 DEF CallFits, WalletOps
<1>5. \A r \in Requests : RowFits(r)
  BY <1>2 DEF RowFits, Exists, IsCompleted
<1>6. marks = {} /\ chain = {} /\ wire = {}
  BY DEF Init
<1>7. KnownInv
  <2>1. \A m \in Known : m = NoMb
    BY <1>2, <1>3, <1>6 DEF Known
  <2>2. NoMb.id < nonce
    BY DEF Init, Before, NoMb
  <2>. QED
    BY <1>6, <2>1, <2>2 DEF KnownInv
<1>8. AnchorInv /\ OneRequestPerMicroblock
  BY <1>2, <1>3 DEF AnchorInv, AwaitsAnchor, OneRequestPerMicroblock, IsCompleted
<1>. QED
  BY <1>1, <1>4, <1>5, <1>6, <1>7, <1>8 DEF IInv

(* What a step keeps of the rows: a request that was opened stays so, and    *)
(* the ledger it asks for does not change as long as it is not deleted.      *)
RowsKept ==
    \A r \in Requests : rows[r].status # "unused" =>
        /\ rows'[r].status # "unused"
        /\ Exists(r)' => Exists(r) /\ rows'[r].vb = rows[r].vb

\* What is not changed by a step fits after it.
LEMMA FitsKept ==
    ASSUME IInv, TypeInv', RowsKept, chain \subseteq chain',
           \A h \in Handlers : call'[h] = call[h] \/ CallFits(h)',
           \A r \in Requests : rows'[r] = rows[r] \/ RowFits(r)',
           \A k \in marks' : k \in marks \/ MarkFits(k)'
    PROVE  /\ \A h \in Handlers : CallFits(h)'
           /\ \A r \in Requests : RowFits(r)'
           /\ \A k \in marks' : MarkFits(k)'
<1>1. ASSUME NEW r \in Requests, NEW m, Fits(r, m), rows[r].status # "unused"
      PROVE  Fits(r, m)'
  BY <1>1 DEF Fits, RowsKept
<1>2. ASSUME NEW h \in Handlers, call'[h] = call[h] PROVE CallFits(h)'
  <2>1. CallFits(h) /\ NamesRequest(h)
    BY DEF IInv, TypeInv
  <2>2. CASE call[h].op \in WalletOps
    <3>1. call[h].req \in Requests /\ rows[call[h].req].status # "unused"
      BY <2>1, <2>2 DEF CallFits, NamesRequest, NamesARequest
    <3>. QED
      BY <1>1, <1>2, <2>1, <2>2, <3>1 DEF CallFits, RowsKept, WalletOps
  <2>3. CASE call[h].op \notin WalletOps
    BY <1>2, <2>1, <2>3 DEF CallFits, WalletOps
  <2>. QED
    BY <2>2, <2>3
<1>3. ASSUME NEW r \in Requests, rows'[r] = rows[r] PROVE RowFits(r)'
  BY <1>3 DEF IInv, RowFits, Fits, NamedBy, Exists, IsCompleted
<1>4. ASSUME NEW k \in marks PROVE MarkFits(k)'
  <2>1. MarkFits(k) /\ k.req \in Requests
    BY DEF IInv, TypeInv, TypeOK
  <2>. QED
    BY <1>1, <2>1 DEF MarkFits, RowsKept
<1>. QED
  BY <1>2, <1>3, <1>4

\* A step adds at most one microblock: one that carries the id and the request
\* of a known one, or one with a fresh id.
LEMMA KnownKept ==
    ASSUME IInv, TypeInv', nonce <= nonce', NEW new,
           Known' \subseteq Known \cup {new},
           \/ \E n \in Known : n.id = new.id /\ n.req = new.req
           \/ new.id \in Nat /\ nonce <= new.id /\ new.id < nonce',
           \A m, n \in chain' : m.id = n.id => m = n
    PROVE  KnownInv'
<1>1. nonce \in Nat /\ nonce' \in Nat
  BY DEF IInv, TypeInv, TypeOK
<1>2. \A m \in Known : m \in Microblock
  BY ConstantsTyped DEF IInv, TypeInv, TypeOK, Known, Call, Row
<1>3. \A m \in Known : m.id \in Nat /\ m.id < nonce
  BY <1>2 DEF IInv, KnownInv, Microblock
<1>4. \A m, n \in Known : m.id = n.id => m.req = n.req
  BY DEF IInv, KnownInv
<1>5. new.id \in Nat /\ new.id < nonce'
  BY <1>1, <1>3
<1>6. \A m \in Known' : m.id < nonce'
  BY <1>1, <1>3, <1>5
<1>7. \A m \in Known : m.id = new.id => m.req = new.req
  BY <1>1, <1>3, <1>4
<1>8. \A m, n \in Known' : m.id = n.id => m.req = n.req
  BY <1>4, <1>7
<1>. QED
  BY <1>6, <1>8 DEF KnownInv

\* Known after a step, place by place.
LEMMA KnownAfter ==
    ASSUME NEW new, chain' \cup wire' \subseteq Known \cup {new},
           \A h \in Handlers : call'[h].mb \in Known \cup {new},
           \A r \in Requests : rows'[r].built \in Known \cup {new}
    PROVE  Known' \subseteq Known \cup {new}
BY DEF Known

\* A step that completes no request and starts to await no microblock of
\* POST /anchor.
QuietRows ==
    \A r \in Requests : IsCompleted(r)' =>
        IsCompleted(r) /\ rows'[r].published = rows[r].published
QuietCalls == \A h \in Handlers : AwaitsAnchor(h)' => call'[h] = call[h]

LEMMA AnchorKept ==
    ASSUME IInv, QuietRows, QuietCalls
    PROVE  AnchorInv' /\ OneRequestPerMicroblock'
<1>1. AnchorInv'
  BY DEF IInv, QuietRows, QuietCalls, AnchorInv, AwaitsAnchor
<1>2. OneRequestPerMicroblock'
  BY DEF IInv, QuietRows, OneRequestPerMicroblock
<1>. QED
  BY <1>1, <1>2
\* A step of the call in slot h that leaves the chain alone.
HandlerStep(h, new) ==
    /\ \A g \in Handlers : g # h => call'[g] = call[g]
    /\ CallFits(h)'
    /\ call'[h].mb \in Known \cup {new}
    /\ RowsKept
    /\ \A r \in Requests :
         rows'[r] = rows[r] \/ (RowFits(r)' /\ rows'[r].built \in Known \cup {new})
    /\ \A k \in marks' : k \in marks \/ MarkFits(k)'
    /\ chain' = chain
    /\ wire' \subseteq wire \cup {new}
    /\ nonce <= nonce'
    /\ \/ \E n \in Known : n.id = new.id /\ n.req = new.req
       \/ new.id \in Nat /\ nonce <= new.id /\ new.id < nonce'

LEMMA HandlerFits ==
    ASSUME IInv, TypeInv', NEW h \in Handlers, NEW new, HandlerStep(h, new)
    PROVE  /\ \A g \in Handlers : CallFits(g)'
           /\ \A r \in Requests : RowFits(r)'
           /\ \A k \in marks' : MarkFits(k)'
           /\ KnownInv'
<1>1. /\ \A g \in Handlers : CallFits(g)'
      /\ \A r \in Requests : RowFits(r)'
      /\ \A k \in marks' : MarkFits(k)'
  <2>1. \A g \in Handlers : call'[g] = call[g] \/ CallFits(g)'
    BY DEF HandlerStep
  <2>2. \A r \in Requests : rows'[r] = rows[r] \/ RowFits(r)'
    BY DEF HandlerStep
  <2>. QED
    BY <2>1, <2>2, FitsKept DEF HandlerStep
<1>2. Known' \subseteq Known \cup {new}
  <2>1. \A g \in Handlers : call'[g].mb \in Known \cup {new}
    BY DEF HandlerStep, Known
  <2>2. \A r \in Requests : rows'[r].built \in Known \cup {new}
    BY DEF HandlerStep, Known
  <2>3. chain' \cup wire' \subseteq Known \cup {new}
    BY DEF HandlerStep, Known
  <2>. QED
    BY <2>1, <2>2, <2>3, KnownAfter
<1>3. \A m, n \in chain' : m.id = n.id => m = n
  BY DEF HandlerStep, IInv, KnownInv
<1>4. KnownInv'
  BY <1>2, <1>3, KnownKept DEF HandlerStep
<1>. QED
  BY <1>1, <1>4

LEMMA HandlerKeeps ==
    ASSUME IInv, TypeInv', NEW h \in Handlers, NEW new, HandlerStep(h, new),
           QuietRows, ~AwaitsAnchor(h)'
    PROVE  IInv'
<1>1. QuietCalls
  BY DEF QuietCalls, HandlerStep
<1>2. AnchorInv' /\ OneRequestPerMicroblock'
  BY <1>1, AnchorKept
<1>. QED
  BY <1>2, HandlerFits DEF IInv

\* A step of the call in slot h that writes neither the rows nor the marks and
\* sends nothing: only what it makes of its call matters.
LEMMA ReadKeeps ==
    ASSUME IInv, TypeInv', NEW h \in Handlers, CallFits(h)', ~AwaitsAnchor(h)',
           call' = [call EXCEPT ![h] = call'[h]], call'[h].mb \in Known,
           UNCHANGED <<rows, marks, wire, chain>>, nonce <= nonce'
    PROVE  IInv'
<1>1. \A g \in Handlers : g # h => call'[g] = call[g]
  BY DEF IInv, TypeInv, TypeOK
<1>2. RowsKept /\ QuietRows
  BY DEF RowsKept, QuietRows, Exists, IsCompleted
<1>3. \E n \in Known : n.id = NoMb.id /\ n.req = NoMb.req
  BY DEF Known
<1>4. HandlerStep(h, NoMb)
  <2>1. \A r \in Requests :
          rows'[r] = rows[r] \/ (RowFits(r)' /\ rows'[r].built \in Known \cup {NoMb})
    OBVIOUS
  <2>2. \A k \in marks' : k \in marks \/ MarkFits(k)'
    OBVIOUS
  <2>3. call'[h].mb \in Known \cup {NoMb} /\ wire' \subseteq wire \cup {NoMb} /\ chain' = chain
    OBVIOUS
  <2>. QED
    BY <1>1, <1>2, <1>3, <2>1, <2>2, <2>3 DEF HandlerStep
<1>. QED
  BY <1>2, <1>4, HandlerKeeps
LEMMA IdleKeeps ==
    ASSUME IInv, TypeInv', NEW h \in Handlers, call' = [call EXCEPT ![h] = Idle],
           UNCHANGED <<rows, marks, wire, chain, nonce>>
    PROVE  IInv'
<1>1. call'[h] = Idle /\ call' = [call EXCEPT ![h] = call'[h]]
  BY DEF IInv, TypeInv, TypeOK
<1>2. CallFits(h)' /\ ~AwaitsAnchor(h)' /\ call'[h].mb \in Known
  BY <1>1 DEF CallFits, AwaitsAnchor, Idle, Known, WalletOps
<1>3. nonce <= nonce'
  BY DEF IInv, TypeInv, TypeOK
<1>. QED
  BY <1>1, <1>2, <1>3, ReadKeeps

\* The steps that read the database or the chain.
LEMMA ReadsKeep ==
    ASSUME IInv, TypeInv', NEW h \in Handlers,
           \/ FindRequest(h)
           \/ FindApplicationByVbId(h)
           \/ LoadApplicationLedger(h)
           \/ ReadGenesisSeed(h)
    PROVE  IInv'
<1>1. /\ call \in [Handlers -> Call]
      /\ call[h] \in Call
      /\ NamesARequest(call[h])
      /\ CallFits(h)
      /\ nonce \in Nat
      /\ call[h].mb \in Known
  BY DEF IInv, TypeInv, TypeOK, Known, NamesRequest
<1>. SUFFICES /\ CallFits(h)'
              /\ ~AwaitsAnchor(h)'
              /\ call' = [call EXCEPT ![h] = call'[h]]
              /\ call'[h].mb \in Known
              /\ UNCHANGED <<rows, marks, wire, chain>>
              /\ nonce <= nonce'
  BY ReadKeeps
<1>2. CASE FindRequest(h)
  <2>. DEFINE row == rows[call[h].req]
              mb == IF call[h].op = "signature" THEN row.built ELSE NoMb
  <2>1. call[h].req \in Requests
    BY <1>1, <1>2 DEF FindRequest, NamesARequest, WalletPcs
  <2>2. call[h].op = "signature" => Fits(call[h].req, mb)
    BY <1>2, <2>1 DEF FindRequest, Servable, IsPending, Exists, IInv, RowFits
  <2>3. mb \in Known
    BY <2>1 DEF Known
  <2>4. call' = [call EXCEPT ![h].pc = "findApplication", ![h].app = row.app,
                             ![h].vb = row.vb, ![h].mb = mb]
    BY <1>2 DEF FindRequest
  <2>. HIDE DEF mb
  <2>5. /\ call' = [call EXCEPT ![h] = call'[h]]
        /\ call'[h].pc = "findApplication" /\ call'[h].vb = row.vb /\ call'[h].mb = mb
        /\ call'[h].op = call[h].op /\ call'[h].req = call[h].req
    BY <1>1, <2>4 DEF Call
  <2>6. UNCHANGED <<rows, marks, wire, chain, nonce>>
    BY <1>2 DEF FindRequest, dbVars, chainVars
  <2>7. CallFits(h)'
    BY <1>1, <2>2, <2>5, <2>6 DEF CallFits, Fits, Exists, WalletOps
  <2>. QED
    BY <1>1, <2>3, <2>5, <2>6, <2>7 DEF AwaitsAnchor
<1>3. CASE FindApplicationByVbId(h)
  <2>1. /\ call' = [call EXCEPT ![h] = call'[h]]
        /\ call[h].pc = "findApplication"
        /\ call'[h].pc = "loadLedger" /\ call'[h].vb = call[h].vb /\ call'[h].mb = call[h].mb
        /\ call'[h].op = call[h].op /\ call'[h].req = call[h].req
        /\ UNCHANGED <<rows, marks, wire, chain, nonce>>
    BY <1>1, <1>3 DEF FindApplicationByVbId, Call, dbVars, chainVars
  <2>2. CallFits(h)'
    BY <1>1, <2>1 DEF CallFits, Fits, Exists, WalletOps
  <2>. QED
    BY <1>1, <2>1, <2>2 DEF AwaitsAnchor
<1>4. CASE LoadApplicationLedger(h)
  <2>. DEFINE pc == CASE call[h].op = "signature" -> "seal"
                      [] call[h].op \in {"handshake", "actorKey"} /\ call[h].vb = NoLedger -> "readSeed"
                      [] OTHER -> "build"
              prev == IF call[h].vb \in Ledgers THEN head[call[h].vb] ELSE 0
              subscribed == call[h].vb \in actors
  <2>1. /\ call[h].op = "signature" => pc = "seal"
        /\ call[h].op # "signature" => pc \in {"readSeed", "build"}
    OBVIOUS
  <2>2. call' = [call EXCEPT ![h].pc = pc, ![h].prev = prev, ![h].subscribed = subscribed]
    BY <1>4 DEF LoadApplicationLedger
  <2>. HIDE DEF pc, prev, subscribed
  <2>3. /\ call' = [call EXCEPT ![h] = call'[h]]
        /\ call'[h].pc = pc /\ call'[h].vb = call[h].vb /\ call'[h].mb = call[h].mb
        /\ call'[h].op = call[h].op /\ call'[h].req = call[h].req
    BY <1>1, <2>2 DEF Call
  <2>4. call[h].pc = "loadLedger" /\ UNCHANGED <<rows, marks, wire, chain, nonce>>
    BY <1>4 DEF LoadApplicationLedger, dbVars, chainVars
  <2>5. CallFits(h)'
    BY <1>1, <2>1, <2>3, <2>4 DEF CallFits, Fits, Exists, WalletOps
  <2>. QED
    BY <1>1, <2>1, <2>3, <2>4, <2>5 DEF AwaitsAnchor
<1>5. CASE ReadGenesisSeed(h)
  <2>0. PICK pc \in {"saveSeed", "build"} :
           \E prev : call' = [call EXCEPT ![h].pc = pc, ![h].prev = prev]
    BY <1>5 DEF ReadGenesisSeed
  <2>1. PICK prev : call' = [call EXCEPT ![h].pc = pc, ![h].prev = prev]
    BY <2>0
  <2>2. /\ call' = [call EXCEPT ![h] = call'[h]]
        /\ call'[h].pc = pc /\ call'[h].vb = call[h].vb /\ call'[h].mb = call[h].mb
        /\ call'[h].op = call[h].op /\ call'[h].req = call[h].req
    BY <1>1, <2>1 DEF Call
  <2>3. call[h].pc = "readSeed" /\ UNCHANGED <<rows, marks, wire, chain>> /\ nonce <= nonce'
    BY <1>1, <1>5 DEF ReadGenesisSeed, dbVars, chainVars
  <2>4. CallFits(h)'
    BY <1>1, <2>1, <2>2, <2>3 DEF CallFits, Fits, Exists, WalletOps
  <2>. QED
    BY <1>1, <2>2, <2>3, <2>4 DEF AwaitsAnchor
<1>. QED
  BY <1>2, <1>3, <1>4, <1>5

\* The calls that arrive.
LEMMA ReceiveKeeps ==
    ASSUME IInv, TypeInv', NEW h \in Handlers, Receive(h)
    PROVE  IInv'
<1>0. call \in [Handlers -> Call] /\ nonce \in Nat
  BY DEF IInv, TypeInv, TypeOK
<1>1. ASSUME NEW op \in ClientOps, NEW a \in Apps \cup {NoApp},
             NEW l \in Ledgers \cup {NoLedger}, ClientSends(h, op, a, l)
      PROVE  IInv'
  <2>1. PICK pc \in {"store", "loadLedger"} : \E b :
           call' = [call EXCEPT ![h] = [Idle EXCEPT !.pc = pc, !.op = op, !.vb = l, !.app = b]]
    BY <1>1 DEF ClientSends
  <2>2. /\ call' = [call EXCEPT ![h] = call'[h]]
        /\ call'[h].pc = pc /\ call'[h].op = op /\ call'[h].mb = NoMb
    BY <1>0, <2>1 DEF Idle
  <2>3. UNCHANGED <<rows, marks, wire, chain, nonce>>
    BY <1>1 DEF ClientSends, dbVars, chainVars
  <2>4. CallFits(h)' /\ ~AwaitsAnchor(h)'
    BY <2>1, <2>2 DEF CallFits, AwaitsAnchor, WalletOps, ClientOps
  <2>5. call'[h].mb \in Known /\ nonce <= nonce'
    BY <1>0, <2>2, <2>3 DEF Known
  <2>. QED
    BY <2>2, <2>3, <2>4, <2>5, ReadKeeps
<1>2. ASSUME NEW op \in WalletOps, NEW r \in Requests, WalletSends(h, op, r)
      PROVE  IInv'
  <2>1. PICK sig :
           call' = [call EXCEPT ![h] = [Idle EXCEPT !.pc = "findRequest", !.op = op, !.req = r,
                                                    !.sig = sig]]
    BY <1>2 DEF WalletSends
  <2>2. /\ call' = [call EXCEPT ![h] = call'[h]]
        /\ call'[h].pc = "findRequest" /\ call'[h].op = op /\ call'[h].req = r
        /\ call'[h].mb = NoMb
    BY <1>0, <2>1 DEF Idle
  <2>3. rows[r].status # "unused" /\ UNCHANGED <<rows, marks, wire, chain, nonce>>
    BY <1>2 DEF WalletSends, dbVars, chainVars
  <2>4. CallFits(h)'
    BY <2>2, <2>3 DEF CallFits
  <2>. QED
    BY <1>0, <2>2, <2>3, <2>4, ReadKeeps DEF AwaitsAnchor, Known
<1>. QED
  BY <1>1, <1>2 DEF Receive

\* The steps that end a call.
LEMMA EndsKeep ==
    ASSUME IInv, TypeInv', NEW h \in Handlers, Answer(h) \/ Throws(h) \/ Fails(h)
    PROVE  IInv'
BY IdleKeeps DEF Answer, Throws, Fails, dbVars, chainVars

\* The steps that send a microblock to the node, or mark one.
LEMMA SealKeeps ==
    ASSUME IInv, TypeInv', NEW h \in Handlers, SealAndPublish(h)
    PROVE  IInv'
<1>. DEFINE mb == [call[h].mb EXCEPT !.signed = call[h].sig, !.sent = nonce]
<1>1. /\ call \in [Handlers -> Call] /\ call[h] \in Call /\ NamesARequest(call[h])
      /\ CallFits(h) /\ nonce \in Nat /\ call[h].mb \in Known
  BY DEF IInv, TypeInv, TypeOK, Known, NamesRequest
<1>2. /\ call[h].pc = "seal"
      /\ call' = [call EXCEPT ![h] = Go(h, "awaitNode", mb)] /\ wire' = wire \cup {mb}
      /\ UNCHANGED <<rows, marks, chain>> /\ nonce' = nonce + 1
  BY DEF SealAndPublish, dbVars, chainVars
<1>3. mb.id = call[h].mb.id /\ mb.req = call[h].mb.req /\ mb.vb = call[h].mb.vb
  BY <1>1 DEF Call, Microblock
<1>. HIDE DEF mb
<1>4. /\ \A g \in Handlers : g # h => call'[g] = call[g]
      /\ call'[h].pc = "awaitNode" /\ call'[h].mb = mb
      /\ call'[h].op = "signature" /\ call'[h].req = call[h].req
  BY <1>1, <1>2 DEF Go, Idle, CallFits
<1>5. CallFits(h)'
  BY <1>1, <1>2, <1>3, <1>4 DEF CallFits, Fits, Exists, WalletOps
<1>6. RowsKept /\ QuietRows
  BY <1>2 DEF RowsKept, QuietRows, Exists, IsCompleted
<1>7. HandlerStep(h, mb)
  <2>1. \A r \in Requests :
          rows'[r] = rows[r] \/ (RowFits(r)' /\ rows'[r].built \in Known \cup {mb})
    BY <1>2
  <2>2. \A k \in marks' : k \in marks \/ MarkFits(k)'
    BY <1>2
  <2>3. \E n \in Known : n.id = mb.id /\ n.req = mb.req
    BY <1>1, <1>3
  <2>. QED
    BY <1>1, <1>2, <1>4, <1>5, <1>6, <2>1, <2>2, <2>3 DEF HandlerStep
<1>8. ~AwaitsAnchor(h)'
  BY <1>4 DEF AwaitsAnchor
<1>. QED
  BY <1>6, <1>7, <1>8, HandlerKeeps

LEMMA MarkKeeps ==
    ASSUME IInv, TypeInv', NEW h \in Handlers, MarkAsPublished(h)
    PROVE  IInv'
<1>0. PICK k : k = [req |-> call[h].req, mb |-> call[h].mb]
  OBVIOUS
<1>1. /\ call \in [Handlers -> Call] /\ call[h] \in Call /\ NamesARequest(call[h])
      /\ CallFits(h) /\ nonce \in Nat
  BY DEF IInv, TypeInv, TypeOK, NamesRequest
<1>2. /\ call[h].pc = "awaitNode" /\ call[h].op = "signature" /\ call[h].mb \in chain
      /\ marks' = marks \cup {k}
      /\ call' = [call EXCEPT ![h] = Reply(h, "published", call[h].mb.id)]
      /\ UNCHANGED <<rows, wire, chain, nonce>>
  BY <1>0 DEF MarkAsPublished, chainVars
<1>3. /\ \A g \in Handlers : g # h => call'[g] = call[g]
      /\ call'[h].pc = "answer" /\ call'[h].mb = NoMb
      /\ call'[h].op = "signature" /\ call'[h].req = call[h].req
  BY <1>1, <1>2 DEF Reply, Idle
<1>4. MarkFits(k)' /\ CallFits(h)'
  BY <1>0, <1>1, <1>2, <1>3 DEF MarkFits, CallFits, Fits, Exists, WalletOps
<1>5. RowsKept /\ QuietRows
  BY <1>2 DEF RowsKept, QuietRows, Exists, IsCompleted
<1>6. HandlerStep(h, NoMb)
  <2>1. \A r \in Requests :
          rows'[r] = rows[r] \/ (RowFits(r)' /\ rows'[r].built \in Known \cup {NoMb})
    BY <1>2
  <2>2. \A j \in marks' : j \in marks \/ MarkFits(j)'
    BY <1>2, <1>4
  <2>3. \E n \in Known : n.id = NoMb.id /\ n.req = NoMb.req
    BY DEF Known
  <2>. QED
    BY <1>1, <1>2, <1>3, <1>4, <1>5, <2>1, <2>2, <2>3 DEF HandlerStep
<1>7. ~AwaitsAnchor(h)'
  BY <1>3 DEF AwaitsAnchor
<1>. QED
  BY <1>5, <1>6, <1>7, HandlerKeeps
\* What the two updates of a column keep.
LEMMA SeedFits ==
    ASSUME IInv, NEW r \in Requests, NEW seed \in Nat, SaveGenesisSeed(r, seed), chain' = chain
    PROVE  /\ RowsKept /\ QuietRows
           /\ \A s \in Requests :
                rows'[s] = rows[s] \/ (RowFits(s)' /\ rows'[s].built \in Known \cup {NoMb})
<1>1. rows \in [Requests -> Row] /\ RowFits(r)
  BY DEF IInv, TypeInv, TypeOK
<1>2. CASE ~Exists(r)
  BY <1>2 DEF SaveGenesisSeed, RowsKept, QuietRows, Exists, IsCompleted
<1>3. CASE Exists(r)
  <2>1. /\ \A s \in Requests : s # r => rows'[s] = rows[s]
        /\ rows'[r].status = rows[r].status /\ rows'[r].vb = rows[r].vb
        /\ rows'[r].built = rows[r].built /\ rows'[r].published = rows[r].published
    BY <1>1, <1>3 DEF SaveGenesisSeed, Row
  <2>2. RowFits(r)' /\ rows'[r].built \in Known
    BY <1>1, <2>1 DEF RowFits, Fits, NamedBy, Exists, IsCompleted, Known
  <2>3. RowsKept /\ QuietRows
    BY <2>1 DEF RowsKept, QuietRows, Exists, IsCompleted
  <2>. QED
    BY <2>1, <2>2, <2>3
<1>. QED
  BY <1>2, <1>3

LEMMA BuiltFits ==
    ASSUME IInv, NEW r \in Requests, NEW mb \in Microblock, SaveMicroblock(r, mb),
           Exists(r) => Fits(r, mb), chain' = chain
    PROVE  /\ RowsKept /\ QuietRows
           /\ \A s \in Requests :
                rows'[s] = rows[s] \/ (RowFits(s)' /\ rows'[s].built \in Known \cup {mb})
<1>1. rows \in [Requests -> Row] /\ RowFits(r)
  BY DEF IInv, TypeInv, TypeOK
<1>2. CASE ~Exists(r)
  BY <1>2 DEF SaveMicroblock, RowsKept, QuietRows, Exists, IsCompleted
<1>3. CASE Exists(r)
  <2>1. /\ \A s \in Requests : s # r => rows'[s] = rows[s]
        /\ rows'[r].status = rows[r].status /\ rows'[r].vb = rows[r].vb
        /\ rows'[r].built = mb /\ rows'[r].published = rows[r].published
    BY <1>1, <1>3 DEF SaveMicroblock, Row
  <2>2. RowFits(r)'
    BY <1>1, <1>3, <2>1 DEF RowFits, Fits, NamedBy, Exists, IsCompleted
  <2>3. RowsKept /\ QuietRows
    BY <2>1 DEF RowsKept, QuietRows, Exists, IsCompleted
  <2>. QED
    BY <2>1, <2>2, <2>3
<1>. QED
  BY <1>2, <1>3

\* The steps that save a genesis seed.
LEMMA SeedsKeep ==
    ASSUME IInv, TypeInv', NEW h \in Handlers, SaveGeneratedSeed(h) \/ AskActorKey(h)
    PROVE  IInv'
<1>1. /\ call \in [Handlers -> Call] /\ call[h] \in Call /\ NamesARequest(call[h])
      /\ CallFits(h) /\ nonce \in Nat /\ call[h].prev \in Nat
  BY DEF IInv, TypeInv, TypeOK, NamesRequest, Call
<1>2. call[h].req \in Requests
  BY <1>1 DEF SaveGeneratedSeed, AskActorKey, NamesARequest, WalletOps, WalletPcs
<1>3. PICK seed \in Nat : SaveGenesisSeed(call[h].req, seed)
  BY <1>1 DEF SaveGeneratedSeed, AskActorKey, Before
<1>4. UNCHANGED <<marks, wire, chain, nonce>>
  BY DEF SaveGeneratedSeed, AskActorKey, chainVars
<1>5. /\ RowsKept /\ QuietRows
      /\ \A r \in Requests :
           rows'[r] = rows[r] \/ (RowFits(r)' /\ rows'[r].built \in Known \cup {NoMb})
  BY <1>2, <1>3, <1>4, SeedFits
<1>6. /\ \A g \in Handlers : g # h => call'[g] = call[g]
      /\ CallFits(h)' /\ ~AwaitsAnchor(h)'
      /\ call'[h].mb \in Known \cup {NoMb}
  <2>1. CASE SaveGeneratedSeed(h)
    <3>1. /\ \A g \in Handlers : g # h => call'[g] = call[g]
          /\ call[h].pc = "saveSeed"
          /\ call'[h].pc = "build" /\ call'[h].vb = call[h].vb /\ call'[h].mb = call[h].mb
          /\ call'[h].op = call[h].op /\ call'[h].req = call[h].req
      BY <1>1, <2>1 DEF SaveGeneratedSeed, Call
    <3>2. CallFits(h)'
      BY <1>1, <1>2, <1>5, <3>1 DEF CallFits, RowsKept, WalletOps
    <3>. QED
      BY <3>1, <3>2 DEF AwaitsAnchor, Known
  <2>2. CASE AskActorKey(h)
    <3>1. PICK ref : call' = [call EXCEPT ![h] = Reply(h, "actorKeyRequired", ref)]
      BY <2>2 DEF AskActorKey
    <3>2. /\ \A g \in Handlers : g # h => call'[g] = call[g]
          /\ call[h].op = "handshake" /\ call'[h].pc = "answer" /\ call'[h].mb = NoMb
          /\ call'[h].op = call[h].op /\ call'[h].req = call[h].req
      BY <1>1, <2>2, <3>1 DEF AskActorKey, Reply, Idle
    <3>3. CallFits(h)'
      BY <1>1, <1>2, <1>5, <3>2 DEF CallFits, RowsKept, WalletOps
    <3>. QED
      BY <3>2, <3>3 DEF AwaitsAnchor
  <2>. QED
    BY <2>1, <2>2
<1>7. HandlerStep(h, NoMb)
  <2>1. \A k \in marks' : k \in marks \/ MarkFits(k)'
    BY <1>4
  <2>2. \E n \in Known : n.id = NoMb.id /\ n.req = NoMb.req
    BY DEF Known
  <2>. QED
    BY <1>1, <1>4, <1>5, <1>6, <2>1, <2>2 DEF HandlerStep
<1>. QED
  BY <1>5, <1>6, <1>7, HandlerKeeps

LEMMA BuildKeeps ==
    ASSUME IInv, TypeInv', NEW h \in Handlers, BuildMicroblock(h)
    PROVE  IInv'
<1>1. /\ call \in [Handlers -> Call] /\ call[h] \in Call /\ NamesARequest(call[h])
      /\ CallFits(h) /\ nonce \in Nat
  BY DEF IInv, TypeInv, TypeOK, NamesRequest
<1>2. /\ call[h].op \in {"handshake", "actorKey"} /\ call[h].pc = "build"
      /\ call[h].req \in Requests
  BY <1>1 DEF BuildMicroblock, NamesARequest, WalletOps
<1>3. PICK mb \in Microblock :
         /\ mb.id = nonce /\ mb.req = call[h].req /\ mb.vb = call[h].vb
         /\ SaveMicroblock(call[h].req, mb)
         /\ call' = [call EXCEPT ![h] = Reply(h, "approvalData", mb.id)]
  <2>. DEFINE mb(b) == [id |-> nonce, req |-> call[h].req, vb |-> call[h].vb,
                        prev |-> call[h].prev, subscribes |-> b, signed |-> 0, sent |-> 0]
  <2>1. \A b \in BOOLEAN :
          /\ mb(b) \in Microblock
          /\ mb(b).id = nonce /\ mb(b).req = call[h].req /\ mb(b).vb = call[h].vb
    BY <1>1, <1>2 DEF Microblock, Call
  <2>2. \E b \in BOOLEAN : /\ SaveMicroblock(call[h].req, mb(b))
                           /\ call' = [call EXCEPT ![h] = Reply(h, "approvalData", mb(b).id)]
    <3>. DEFINE b == call[h].op = "actorKey"
    <3>1. /\ SaveMicroblock(call[h].req, mb(b))
          /\ call' = [call EXCEPT ![h] = Reply(h, "approvalData", mb(b).id)]
      BY DEF BuildMicroblock
    <3>2. b \in BOOLEAN
      OBVIOUS
    <3>. HIDE DEF mb, b
    <3>. QED
      BY <3>1, <3>2
  <2>. HIDE DEF mb
  <2>. QED
    BY <2>1, <2>2
<1>4. UNCHANGED <<marks, wire, chain>> /\ nonce' = nonce + 1
  BY DEF BuildMicroblock, chainVars
<1>5. Exists(call[h].req) => Fits(call[h].req, mb)
  BY <1>1, <1>2, <1>3 DEF CallFits, Fits, WalletOps
<1>6. /\ RowsKept /\ QuietRows
      /\ \A r \in Requests :
           rows'[r] = rows[r] \/ (RowFits(r)' /\ rows'[r].built \in Known \cup {mb})
  BY <1>2, <1>3, <1>4, <1>5, BuiltFits
<1>7. /\ \A g \in Handlers : g # h => call'[g] = call[g]
      /\ call'[h].pc = "answer" /\ call'[h].mb = NoMb
      /\ call'[h].op = call[h].op /\ call'[h].req = call[h].req
  BY <1>1, <1>3 DEF Reply, Idle
<1>8. CallFits(h)' /\ ~AwaitsAnchor(h)' /\ call'[h].mb \in Known
  BY <1>1, <1>2, <1>6, <1>7 DEF CallFits, RowsKept, WalletOps, AwaitsAnchor, Known
<1>9. HandlerStep(h, mb)
  <2>1. \A k \in marks' : k \in marks \/ MarkFits(k)'
    BY <1>4
  <2>2. mb.id \in Nat /\ nonce <= mb.id /\ mb.id < nonce' /\ nonce <= nonce'
    BY <1>1, <1>3, <1>4
  <2>. QED
    BY <1>4, <1>6, <1>7, <1>8, <2>1, <2>2 DEF HandlerStep
<1>. QED
  BY <1>6, <1>8, <1>9, HandlerKeeps
LEMMA StoreKeeps ==
    ASSUME IInv, TypeInv', NEW h \in Handlers, NEW r \in Requests, StoreAnchorRequest(h, r)
    PROVE  IInv'
<1>1. call \in [Handlers -> Call] /\ rows \in [Requests -> Row] /\ nonce \in Nat
  BY DEF IInv, TypeInv, TypeOK
<1>2. /\ rows[r].status = "unused"
      /\ \A s \in Requests : s # r => rows'[s] = rows[s]
      /\ rows'[r].status = "pending" /\ rows'[r].built = NoMb
  BY <1>1 DEF StoreAnchorRequest, Unused
<1>3. call' = [call EXCEPT ![h] = Idle] /\ UNCHANGED <<marks, wire, chain, nonce>>
  BY DEF StoreAnchorRequest, chainVars
<1>4. RowsKept /\ QuietRows /\ RowFits(r)'
  BY <1>2 DEF RowsKept, QuietRows, RowFits, Exists, IsCompleted
<1>5. /\ \A g \in Handlers : g # h => call'[g] = call[g]
      /\ call'[h] = Idle
  BY <1>1, <1>3
<1>6. CallFits(h)' /\ ~AwaitsAnchor(h)' /\ call'[h].mb \in Known
  BY <1>5 DEF CallFits, AwaitsAnchor, Idle, Known, WalletOps
<1>7. HandlerStep(h, NoMb)
  <2>1. \A k \in marks' : k \in marks \/ MarkFits(k)'
    BY <1>3
  <2>2. \A s \in Requests :
          rows'[s] = rows[s] \/ (RowFits(s)' /\ rows'[s].built \in Known \cup {NoMb})
    BY <1>2, <1>4
  <2>3. \E n \in Known : n.id = NoMb.id /\ n.req = NoMb.req
    BY DEF Known
  <2>. QED
    BY <1>1, <1>3, <1>4, <1>5, <1>6, <2>1, <2>2, <2>3 DEF HandlerStep
<1>. QED
  BY <1>4, <1>6, <1>7, HandlerKeeps

\* POST /anchor: its microblock is fresh, so that no row names it and no other
\* call awaits it.
LEMMA AnchorBuildKeeps ==
    ASSUME IInv, TypeInv', NEW h \in Handlers, BuildAndPublish(h)
    PROVE  IInv'
<1>1. /\ call \in [Handlers -> Call] /\ call[h] \in Call /\ nonce \in Nat
      /\ rows \in [Requests -> Row] /\ chain \subseteq Microblock
  BY DEF IInv, TypeInv, TypeOK
<1>2. PICK mb \in Microblock :
         /\ mb.id = nonce + 1 /\ mb.req = NoRequest /\ mb.vb = call[h].vb
         /\ call' = [call EXCEPT ![h] = [Go(h, "awaitNode", mb) EXCEPT !.app = call[h].app,
                                                                      !.vb = call[h].vb]]
         /\ wire' = wire \cup {mb}
  <2>1. \A prev \in Nat :
          LET mb == [id |-> nonce + 1, req |-> NoRequest, vb |-> call[h].vb, prev |-> prev,
                     subscribes |-> FALSE, signed |-> 0, sent |-> nonce + 1]
          IN  mb \in Microblock /\ mb.id = nonce + 1 /\ mb.req = NoRequest /\ mb.vb = call[h].vb
    BY <1>1 DEF Microblock, Call
  <2>2. (IF call[h].vb \in Ledgers THEN call[h].prev ELSE nonce) \in Nat
    BY <1>1 DEF Call
  <2>. QED
    BY <2>1, <2>2 DEF BuildAndPublish
<1>3. /\ call[h].op = "anchor" /\ nonce' = nonce + 2
      /\ UNCHANGED <<rows, marks, chain>>
  BY DEF BuildAndPublish, dbVars, chainVars
<1>4. /\ \A g \in Handlers : g # h => call'[g] = call[g]
      /\ call'[h].pc = "awaitNode" /\ call'[h].mb = mb /\ call'[h].op = "anchor"
      /\ call'[h].vb = call[h].vb
  BY <1>1, <1>2, <1>3 DEF Go, Idle
<1>5. CallFits(h)'
  BY <1>1, <1>2, <1>4 DEF CallFits, WalletOps
<1>6. RowsKept
  BY <1>3 DEF RowsKept, Exists
<1>7. HandlerStep(h, mb)
  <2>1. \A k \in marks' : k \in marks \/ MarkFits(k)'
    BY <1>3
  <2>2. mb.id \in Nat /\ nonce <= mb.id /\ mb.id < nonce' /\ nonce <= nonce'
    BY <1>1, <1>2, <1>3
  <2>3. \A s \in Requests :
          rows'[s] = rows[s] \/ (RowFits(s)' /\ rows'[s].built \in Known \cup {mb})
    BY <1>3
  <2>. QED
    BY <1>2, <1>3, <1>4, <1>5, <1>6, <2>1, <2>2, <2>3 DEF HandlerStep
<1>8. AnchorInv'
  <2>1. \A m \in Known : m.id # mb.id
    <3>1. \A m \in Known : m.id \in Nat /\ m.id < nonce
      BY ConstantsTyped DEF IInv, KnownInv, TypeInv, TypeOK, Known, Call, Row, Microblock
    <3>. QED
      BY <1>1, <1>2, <3>1
  <2>2. \A r \in Requests : IsCompleted(r)' => rows'[r].published # mb.id
    BY <1>3, <2>1 DEF IInv, RowFits, NamedBy, Known, IsCompleted
  <2>3. \A g \in Handlers : call[g].mb.id # mb.id
    BY <2>1 DEF Known
  <2>. QED
    BY <1>3, <1>4, <2>2, <2>3 DEF IInv, AnchorInv, AwaitsAnchor, IsCompleted
<1>9. OneRequestPerMicroblock'
  BY <1>3 DEF IInv, OneRequestPerMicroblock, IsCompleted
<1>. QED
  BY <1>7, <1>8, <1>9, HandlerFits DEF IInv

LEMMA AnchorSaveKeeps ==
    ASSUME IInv, TypeInv', NEW h \in Handlers, NEW r \in Requests,
           SaveCompletedAnchorRequest(h, r)
    PROVE  IInv'
<1>1. /\ call \in [Handlers -> Call] /\ rows \in [Requests -> Row] /\ nonce \in Nat
      /\ CallFits(h)
  BY DEF IInv, TypeInv, TypeOK
<1>2. /\ AwaitsAnchor(h) /\ call[h].mb \in chain
      /\ rows[r].status = "unused"
      /\ \A s \in Requests : s # r => rows'[s] = rows[s]
      /\ rows'[r].status = "completed" /\ rows'[r].built = NoMb
      /\ rows'[r].vb = call[h].vb /\ rows'[r].published = call[h].mb.id
  BY <1>1 DEF SaveCompletedAnchorRequest, AwaitsAnchor, Unused
<1>3. call' = [call EXCEPT ![h] = Idle] /\ UNCHANGED <<marks, wire, chain, nonce>>
  BY DEF SaveCompletedAnchorRequest, chainVars
<1>4. /\ \A g \in Handlers : g # h => call'[g] = call[g]
      /\ call'[h] = Idle
  BY <1>1, <1>3
<1>5. RowsKept
  BY <1>2 DEF RowsKept, Exists
<1>6. RowFits(r)'
  <2>1. PICK m \in chain : m = call[h].mb
    BY <1>2
  <2>2. m.id = rows'[r].published /\ m.vb = rows'[r].vb /\ m.req = NoRequest
    BY <1>1, <1>2, <2>1 DEF CallFits, AwaitsAnchor
  <2>3. m \in chain' /\ NamedBy(r, m)'
    BY <1>3, <2>1, <2>2 DEF NamedBy
  <2>. QED
    BY <1>2, <2>3 DEF RowFits
<1>7. CallFits(h)' /\ ~AwaitsAnchor(h)' /\ call'[h].mb \in Known
  BY <1>4 DEF CallFits, AwaitsAnchor, Idle, Known, WalletOps
<1>8. HandlerStep(h, NoMb)
  <2>1. \A k \in marks' : k \in marks \/ MarkFits(k)'
    BY <1>3
  <2>2. \A s \in Requests :
          rows'[s] = rows[s] \/ (RowFits(s)' /\ rows'[s].built \in Known \cup {NoMb})
    BY <1>2, <1>6
  <2>3. \E n \in Known : n.id = NoMb.id /\ n.req = NoMb.req
    BY DEF Known
  <2>. QED
    BY <1>1, <1>3, <1>4, <1>5, <1>7, <2>1, <2>2, <2>3 DEF HandlerStep
<1>9. AnchorInv' /\ OneRequestPerMicroblock'
  <2>1. /\ \A s \in Requests : IsCompleted(s) => rows[s].published # call[h].mb.id
        /\ \A g \in Handlers : AwaitsAnchor(g) /\ call[g].mb.id = call[h].mb.id => g = h
    BY <1>2 DEF IInv, AnchorInv
  <2>2. \A g \in Handlers : AwaitsAnchor(g)' =>
           AwaitsAnchor(g) /\ call'[g] = call[g] /\ call[g].mb.id # call[h].mb.id
    BY <1>4, <1>7, <2>1 DEF AwaitsAnchor
  <2>3. AnchorInv'
    BY <1>2, <2>2 DEF IInv, AnchorInv, IsCompleted
  <2>4. OneRequestPerMicroblock'
    BY <1>2, <2>1 DEF IInv, OneRequestPerMicroblock, IsCompleted
  <2>. QED
    BY <2>3, <2>4
<1>. QED
  BY <1>8, <1>9, HandlerFits DEF IInv
\* A step outside the calls: it adds no microblock, and the calls only end.
LEMMA EnvironmentKeeps ==
    ASSUME IInv, TypeInv', RowsKept, chain \subseteq chain', nonce' = nonce,
           \A h \in Handlers : call'[h] = call[h] \/ call'[h] = Idle,
           \A r \in Requests : rows'[r] = rows[r] \/ (RowFits(r)' /\ rows'[r].built \in Known),
           marks' \subseteq marks,
           chain' \cup wire' \subseteq chain \cup wire,
           \A m, n \in chain' : m.id = n.id => m = n,
           AnchorInv', OneRequestPerMicroblock'
    PROVE  IInv'
<1>1. \A h \in Handlers : call'[h] = Idle => CallFits(h)'
  BY DEF CallFits, Idle, WalletOps
<1>2. /\ \A h \in Handlers : CallFits(h)'
      /\ \A r \in Requests : RowFits(r)'
      /\ \A k \in marks' : MarkFits(k)'
  BY <1>1, FitsKept
<1>3. Known' \subseteq Known \cup {NoMb}
  <2>1. \A h \in Handlers : call'[h].mb \in Known \cup {NoMb}
    BY DEF Known, Idle
  <2>2. \A r \in Requests : rows'[r].built \in Known \cup {NoMb}
    BY DEF Known
  <2>3. chain' \cup wire' \subseteq Known \cup {NoMb}
    BY DEF Known
  <2>. QED
    BY <2>1, <2>2, <2>3, KnownAfter
<1>4. KnownInv'
  <2>1. \E n \in Known : n.id = NoMb.id /\ n.req = NoMb.req
    BY DEF Known
  <2>2. nonce <= nonce'
    BY DEF IInv, TypeInv, TypeOK
  <2>. QED
    BY <1>3, <2>1, <2>2, KnownKept
<1>. QED
  BY <1>2, <1>4 DEF IInv

LEMMA IdleIsQuiet ==
    ASSUME \A h \in Handlers : call'[h] = call[h] \/ call'[h] = Idle
    PROVE  QuietCalls
BY DEF QuietCalls, AwaitsAnchor, Idle

LEMMA ApplyMarkKeeps ==
    ASSUME IInv, TypeInv', NEW k \in marks, ApplyMark(k)
    PROVE  IInv'
<1>1. /\ call \in [Handlers -> Call] /\ rows \in [Requests -> Row]
      /\ k.req \in Requests /\ k.mb \in chain /\ Fits(k.req, k.mb)
      /\ rows[k.req].status # "unused" /\ RowFits(k.req)
  BY DEF IInv, TypeInv, TypeOK, MarkFits
<1>2. marks' \subseteq marks /\ UNCHANGED <<call, wire, chain, nonce>>
  BY DEF ApplyMark, chainVars
<1>3. CASE ~Exists(k.req)
  <2>1. rows' = rows
    BY <1>3 DEF ApplyMark
  <2>2. RowsKept /\ AnchorInv' /\ OneRequestPerMicroblock'
    BY <1>2, <2>1
    DEF RowsKept, Exists, IInv, AnchorInv, AwaitsAnchor, IsCompleted, OneRequestPerMicroblock
  <2>. QED
    BY <1>2, <2>1, <2>2, EnvironmentKeeps DEF IInv, KnownInv
<1>4. CASE Exists(k.req)
  <2>1. /\ \A s \in Requests : s # k.req => rows'[s] = rows[s]
        /\ rows'[k.req].status = "completed" /\ rows'[k.req].vb = rows[k.req].vb
        /\ rows'[k.req].built = rows[k.req].built /\ rows'[k.req].published = k.mb.id
    BY <1>1, <1>4 DEF ApplyMark, Row
  <2>2. RowFits(k.req)'
    <3>1. NamedBy(k.req, k.mb)'
      BY <1>1, <1>4, <2>1 DEF NamedBy, Fits
    <3>2. (rows[k.req].built # NoMb => Fits(k.req, rows[k.req].built))'
      BY <1>1, <1>4, <2>1 DEF RowFits, Fits
    <3>. QED
      BY <1>1, <1>2, <3>1, <3>2 DEF RowFits
  <2>3. RowsKept
    BY <1>4, <2>1 DEF RowsKept, Exists
  \* No other request and no call of POST /anchor has this microblock.
  <2>4. \A s \in Requests : IsCompleted(s) /\ rows[s].published = k.mb.id => s = k.req
    <3>1. ASSUME NEW s \in Requests, IsCompleted(s), rows[s].published = k.mb.id
          PROVE  s = k.req
      <4>1. PICK m \in chain : NamedBy(s, m)
        BY <3>1 DEF IInv, RowFits
      <4>2. m = k.mb
        BY <1>1, <3>1, <4>1 DEF IInv, KnownInv, NamedBy
      <4>. QED
        BY <1>1, <4>1, <4>2, NoRequestAssumption DEF NamedBy, Fits
    <3>. QED
      BY <3>1
  <2>5. \A h \in Handlers : AwaitsAnchor(h) => call[h].mb.id # k.mb.id
    <3>1. \A h \in Handlers : AwaitsAnchor(h) => call[h].mb.req = NoRequest
      BY DEF IInv, CallFits, AwaitsAnchor
    <3>2. \A h \in Handlers : call[h].mb \in Known /\ k.mb \in Known
      BY <1>1 DEF Known
    <3>. QED
      BY <1>1, <3>1, <3>2, NoRequestAssumption DEF IInv, KnownInv, Fits
  <2>6. AnchorInv'
    BY <1>2, <2>1, <2>5 DEF IInv, AnchorInv, AwaitsAnchor, IsCompleted
  <2>7. OneRequestPerMicroblock'
    BY <2>1, <2>4 DEF IInv, OneRequestPerMicroblock, IsCompleted
  <2>8. \A r \in Requests : rows'[r] = rows[r] \/ (RowFits(r)' /\ rows'[r].built \in Known)
    BY <2>1, <2>2 DEF Known
  <2>. QED
    BY <1>2, <2>3, <2>6, <2>7, <2>8, EnvironmentKeeps DEF IInv, KnownInv
<1>. QED
  BY <1>3, <1>4

LEMMA NodeKeeps ==
    ASSUME IInv, TypeInv', Node
    PROVE  IInv'
<1>1. PICK m \in wire : NodeAccepts(m) \/ NodeRefuses(m)
  BY DEF Node
<1>2. /\ UNCHANGED <<rows, marks, call, nonce>>
      /\ chain \subseteq chain' /\ chain' \cup wire' \subseteq chain \cup wire
  BY <1>1 DEF NodeAccepts, NodeRefuses, dbVars, chainVars
<1>3. \A n, o \in chain' : n.id = o.id => n = o
  BY <1>1 DEF NodeAccepts, NodeRefuses, Extends, chainVars, IInv, KnownInv
<1>4. RowsKept /\ AnchorInv' /\ OneRequestPerMicroblock'
  BY <1>2 DEF RowsKept, Exists, IInv, AnchorInv, AwaitsAnchor, IsCompleted, OneRequestPerMicroblock
<1>. QED
  BY <1>2, <1>3, <1>4, EnvironmentKeeps

LEMMA CrashKeeps ==
    ASSUME IInv, TypeInv', Crash
    PROVE  IInv'
<1>1. /\ \A h \in Handlers : call'[h] = Idle
      /\ marks' = {} /\ UNCHANGED <<rows, wire, chain, nonce>>
  BY DEF Crash, chainVars
<1>2. RowsKept /\ QuietRows
  BY <1>1 DEF RowsKept, QuietRows, Exists, IsCompleted
<1>3. AnchorInv' /\ OneRequestPerMicroblock'
  BY <1>1, <1>2, AnchorKept, IdleIsQuiet
<1>. QED
  BY <1>1, <1>2, <1>3, EnvironmentKeeps DEF IInv, KnownInv

LEMMA AdminKeeps ==
    ASSUME IInv, TypeInv', Admin
    PROVE  IInv'
<1>1. UNCHANGED <<marks, call, wire, chain, nonce>>
  BY DEF Admin, DeleteAnchorRequest, DeleteApplications, CreateApplication, chainVars
<1>2. \A r \in Requests : rows'[r] = rows[r] \/ (Exists(r) /\ rows'[r] = Deleted)
  BY DEF IInv, TypeInv, TypeOK, Admin, DeleteAnchorRequest, DeleteApplications, CreateApplication
<1>3. RowsKept /\ QuietRows
  BY <1>2 DEF RowsKept, QuietRows, Exists, IsCompleted, Deleted, Unused
<1>4. AnchorInv' /\ OneRequestPerMicroblock'
  BY <1>1, <1>3, AnchorKept, IdleIsQuiet
<1>5. \A r \in Requests : rows'[r] = rows[r] \/ (RowFits(r)' /\ rows'[r].built \in Known)
  BY <1>2 DEF RowFits, Exists, IsCompleted, Deleted, Unused, Known
<1>. QED
  BY <1>1, <1>3, <1>4, <1>5, EnvironmentKeeps DEF IInv, KnownInv

LEMMA IInvNext == IInv /\ [Next]_vars => IInv'
<1>. SUFFICES ASSUME IInv, [Next]_vars PROVE IInv'
  OBVIOUS
<1>1. TypeInv'
  BY TypeNext DEF IInv
<1>2. CASE UNCHANGED vars
  BY <1>1, <1>2
  DEF vars, IInv, CallFits, RowFits, MarkFits, KnownInv, Known, AnchorInv, AwaitsAnchor,
      OneRequestPerMicroblock, IsCompleted, Fits, Exists, NamedBy
<1>3. ASSUME NEW h \in Handlers, Step(h) PROVE IInv'
  BY <1>1, <1>3, StoreKeeps, ReadsKeep, SeedsKeep, BuildKeeps, SealKeeps, MarkKeeps,
     AnchorBuildKeeps, AnchorSaveKeeps, EndsKeep DEF Step
<1>4. ASSUME Next PROVE IInv'
  BY <1>1, <1>3, <1>4, ReceiveKeeps, EndsKeep, ApplyMarkKeeps, NodeKeeps, AdminKeeps, CrashKeeps
  DEF Next
<1>. QED
  BY <1>2, <1>4

\* The strengthening holds of every reachable state.
THEOREM IInvHolds == Spec => []IInv
BY IInvInit, IInvNext, PTL DEF Spec

\* A completed request names a microblock on chain, of the ledger asked for,
\* that was built for it.
THEOREM CompletedIsAnchoredHolds == Spec => []CompletedIsAnchored
<1>1. IInv => CompletedIsAnchored
  BY DEF IInv, RowFits, CompletedIsAnchored
<1>. QED
  BY <1>1, IInvHolds, PTL

\* No two requests are completed with the same microblock.
THEOREM OneRequestPerMicroblockHolds == Spec => []OneRequestPerMicroblock
<1>1. IInv => OneRequestPerMicroblock
  BY DEF IInv
<1>. QED
  BY <1>1, IInvHolds, PTL

(***************************************************************************)
(* The requests and the table of the applications.                         *)
(***************************************************************************)

\* What a step may do to the rows short of deleting an application: it keeps
\* the column application of a row that exists, or writes one that exists.
AppsFit ==
    \A r \in Requests :
        \/ rows'[r].app = rows[r].app /\ (Exists(r)' => Exists(r))
        \/ rows'[r].app \in apps' \cup {NoApp}
        \/ ~Exists(r)'

LEMMA AppsFitKeeps ==
    ASSUME RequestHasApplication, apps \subseteq apps', AppsFit
    PROVE  RequestHasApplication'
BY DEF RequestHasApplication, AppsFit

\* The steps of one call.
LEMMA CallsFitApps ==
    ASSUME TypeInv, NEW h \in Handlers, Receive(h) \/ Step(h) \/ Fails(h)
    PROVE  apps' = apps /\ AppsFit
<1>0. rows \in [Requests -> Row]
  BY DEF TypeInv, TypeOK
<1>1. ASSUME NEW r \in Requests, StoreAnchorRequest(h, r) \/ SaveCompletedAnchorRequest(h, r)
      PROVE  apps' = apps /\ AppsFit
  <2>1. /\ apps' = apps
        /\ \A s \in Requests : s # r => rows'[s] = rows[s]
        /\ rows'[r].app = call[h].app /\ call[h].app \in apps \cup {NoApp}
    BY <1>0, <1>1 DEF StoreAnchorRequest, SaveCompletedAnchorRequest, Unused
  <2>. QED
    BY <2>1 DEF AppsFit, Exists
<1>2. CASE SaveGeneratedSeed(h) \/ AskActorKey(h) \/ BuildMicroblock(h)
  <2>1. apps' = apps /\ \A r \in Requests : rows'[r].app = rows[r].app /\ rows'[r].status = rows[r].status
    BY <1>0, <1>2 DEF SaveGeneratedSeed, AskActorKey, BuildMicroblock, SaveGenesisSeed,
                      SaveMicroblock, Row
  <2>. QED
    BY <2>1 DEF AppsFit, Exists
<1>3. CASE \/ Receive(h) \/ FindRequest(h) \/ FindApplicationByVbId(h) \/ LoadApplicationLedger(h)
           \/ ReadGenesisSeed(h) \/ SealAndPublish(h) \/ MarkAsPublished(h) \/ Answer(h)
           \/ BuildAndPublish(h) \/ Throws(h) \/ Fails(h)
  <2>1. apps' = apps /\ rows' = rows
    BY <1>3 DEF Receive, ClientSends, WalletSends, FindRequest, FindApplicationByVbId,
         LoadApplicationLedger, ReadGenesisSeed, SealAndPublish, MarkAsPublished, Answer,
         BuildAndPublish, Throws, Fails, dbVars
  <2>. QED
    BY <2>1 DEF AppsFit, Exists
<1>. QED
  BY <1>1, <1>2, <1>3 DEF Step

\* The steps of the database, the node, the administrator and the process.
LEMMA AppsElsewhere ==
    ASSUME TypeInv, RequestHasApplication,
           UNCHANGED vars \/ (\E k \in marks : ApplyMark(k)) \/ Node \/ Admin \/ Crash
    PROVE  RequestHasApplication'
<1>0. rows \in [Requests -> Row]
  BY DEF TypeInv, TypeOK
<1>1. ASSUME NEW k \in marks, ApplyMark(k) PROVE RequestHasApplication'
  <2>1. /\ apps' = apps
        /\ \A r \in Requests : rows'[r].app = rows[r].app /\ (Exists(r)' => Exists(r))
    BY <1>0, <1>1 DEF ApplyMark, Exists, Row
  <2>. QED
    BY <2>1, AppsFitKeeps DEF AppsFit
<1>2. CASE UNCHANGED vars \/ Node \/ Crash
  <2>1. apps' = apps /\ rows' = rows
    BY <1>2 DEF vars, Node, NodeAccepts, NodeRefuses, Crash, dbVars
  <2>. QED
    BY <2>1 DEF RequestHasApplication, Exists
<1>3. ASSUME NEW r \in Requests, DeleteAnchorRequest(r) PROVE RequestHasApplication'
  BY <1>0, <1>3 DEF DeleteAnchorRequest, RequestHasApplication, Exists, Deleted, Unused
<1>4. ASSUME NEW A \in SUBSET apps, DeleteApplications(A) PROVE RequestHasApplication'
  <2>1. \A r \in Requests : rows'[r] = IF Exists(r) /\ rows[r].app \in A THEN Deleted ELSE rows[r]
    BY <1>4 DEF DeleteApplications
  <2>2. apps' = apps \ A
    BY <1>4 DEF DeleteApplications
  <2>. QED
    BY <2>1, <2>2 DEF RequestHasApplication, Exists, Deleted, Unused
<1>5. ASSUME NEW a \in Apps, CreateApplication(a) PROVE RequestHasApplication'
  BY <1>5 DEF CreateApplication, RequestHasApplication, Exists
<1>. QED
  BY <1>1, <1>2, <1>3, <1>4, <1>5 DEF Admin

\* No request survives its application, or is stored for one that is gone.
THEOREM RequestHasApplicationHolds == Spec => []RequestHasApplication
<1>1. Init => RequestHasApplication
  BY DEF Init, RequestHasApplication, Exists, Unused
<1>2. TypeInv /\ RequestHasApplication /\ [Next]_vars => RequestHasApplication'
  BY CallsFitApps, AppsFitKeeps, AppsElsewhere DEF Next
<1>3. IInv => TypeInv
  BY DEF IInv
<1>. QED
  BY <1>1, <1>2, <1>3, IInvHolds, PTL DEF Spec
=============================================================================
