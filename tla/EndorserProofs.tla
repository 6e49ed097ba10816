---------------------------- MODULE EndorserProofs ----------------------------
(***************************************************************************)
(* The chain takes no microblock of a wallet whose endorser is not a       *)
(* subscribed actor of the ledger.  The operator checks it on the ledger   *)
(* it loaded; what was true then stays true, since no actor is removed,    *)
(* and the ledger it loaded is the one the microblock extends.             *)
(***************************************************************************)
EXTENDS AnchoringProofs

\* What a call saw of the ledger is (still) so, and is of the right ledger.
SawEndorser(h) ==
    LET c == call[h] IN
    /\ c.subscribed => c.vb \in actors
    /\ c.pc = "findRequest" => ~c.subscribed
    /\ c.op = "signature" /\ c.pc \in {"findApplication", "loadLedger", "seal"}
         => c.mb.vb = c.vb

HasEndorser(m) == m.req \in Requests => m.subscribes \/ m.vb \in actors

EndorserInv ==
    /\ \A h \in Handlers : SawEndorser(h)
    /\ \A m \in wire : HasEndorser(m)

LEMMA EndorserInit == Init => EndorserInv
BY DEF Init, EndorserInv, SawEndorser, Idle

\* One call changes; the others and the microblocks in flight keep what they have.
LEMMA EndorserKept ==
    ASSUME EndorserInv, actors \subseteq actors',
           \A h \in Handlers : call'[h] = call[h] \/ SawEndorser(h)',
           \A m \in wire' : m \in wire \/ HasEndorser(m)'
    PROVE  EndorserInv'
BY DEF EndorserInv, SawEndorser, HasEndorser

\* The steps after which a call has seen nothing, and which send nothing.
LEMMA EndorserForgets ==
    ASSUME IInv, EndorserInv, NEW h \in Handlers,
           \/ Receive(h) \/ Answer(h) \/ Throws(h) \/ Fails(h) \/ AskActorKey(h)
           \/ BuildMicroblock(h) \/ MarkAsPublished(h)
           \/ \E r \in Requests : StoreAnchorRequest(h, r) \/ SaveCompletedAnchorRequest(h, r)
    PROVE  EndorserInv'
<1>0. call \in [Handlers -> Call]
  BY DEF IInv, TypeInv, TypeOK
<1>1. actors' = actors /\ wire' = wire
  BY DEF Receive, ClientSends, WalletSends, Answer, Throws, Fails, AskActorKey, BuildMicroblock,
         MarkAsPublished, StoreAnchorRequest, SaveCompletedAnchorRequest, chainVars
<1>2. /\ \A g \in Handlers : g # h => call'[g] = call[g]
      /\ ~call'[h].subscribed
      /\ \/ call'[h].pc \in {"idle", "answer", "store", "findRequest"}
         \/ call'[h].pc = "loadLedger" /\ call'[h].op # "signature"
  <2>1. CASE Answer(h) \/ Throws(h) \/ Fails(h)
             \/ \E r \in Requests : StoreAnchorRequest(h, r) \/ SaveCompletedAnchorRequest(h, r)
    <3>1. call' = [call EXCEPT ![h] = Idle]
      BY <2>1 DEF Answer, Throws, Fails, StoreAnchorRequest, SaveCompletedAnchorRequest
    <3>. QED
      BY <1>0, <3>1 DEF Idle
  <2>2. CASE AskActorKey(h) \/ BuildMicroblock(h) \/ MarkAsPublished(h)
    <3>1. PICK kind, ref : call' = [call EXCEPT ![h] = Reply(h, kind, ref)]
      BY <2>2 DEF AskActorKey, BuildMicroblock, MarkAsPublished
    <3>. QED
      BY <1>0, <3>1 DEF Reply, Idle
  <2>3. CASE \E op \in ClientOps, a \in Apps \cup {NoApp}, l \in Ledgers \cup {NoLedger} :
               ClientSends(h, op, a, l)
    <3>1. PICK op \in ClientOps, a \in Apps \cup {NoApp}, l \in Ledgers \cup {NoLedger} :
               ClientSends(h, op, a, l)
      BY <2>3
    <3>2. PICK pc \in {"store", "loadLedger"} :
             call' = [call EXCEPT ![h] = [Idle EXCEPT !.pc = pc, !.op = op, !.vb = l, !.app = a]]
      BY <3>1 DEF ClientSends
    <3>3. op # "signature"
      BY DEF ClientOps
    <3>. QED
      BY <1>0, <3>2, <3>3 DEF Idle
  <2>4. CASE \E op \in WalletOps, r \in Requests : WalletSends(h, op, r)
    <3>1. PICK op \in WalletOps, r \in Requests : WalletSends(h, op, r)
      BY <2>4
    <3>. DEFINE sig == IF op = "signature" THEN Signature(r) ELSE 0
    <3>2. call' = [call EXCEPT ![h] = [Idle EXCEPT !.pc = "findRequest", !.op = op, !.req = r, !.sig = sig]]
      BY <3>1 DEF WalletSends
    <3>. HIDE DEF sig
    <3>. QED
      BY <1>0, <3>2 DEF Idle
  <2>. QED
    BY <2>1, <2>2, <2>3, <2>4 DEF Receive
<1>3. SawEndorser(h)'
  BY <1>2 DEF SawEndorser
<1>. QED
  BY <1>1, <1>2, <1>3, EndorserKept

\* The steps that carry on with what the call has seen, or look at the ledger.
LEMMA EndorserCarried ==
    ASSUME IInv, EndorserInv, NEW h \in Handlers,
           \/ FindRequest(h) \/ FindApplicationByVbId(h) \/ LoadApplicationLedger(h)
           \/ ReadGenesisSeed(h) \/ SaveGeneratedSeed(h)
    PROVE  EndorserInv'
<1>0. call \in [Handlers -> Call] /\ call[h] \in Call /\ NamesARequest(call[h]) /\ SawEndorser(h)
  BY DEF IInv, TypeInv, TypeOK, NamesRequest, EndorserInv
<1>1. actors' = actors /\ wire' = wire
  BY DEF FindRequest, FindApplicationByVbId, LoadApplicationLedger, ReadGenesisSeed,
         SaveGeneratedSeed, chainVars
<1>2. /\ \A g \in Handlers : g # h => call'[g] = call[g]
      /\ SawEndorser(h)'
  <2>1. CASE FindRequest(h)
    <3>. DEFINE row == rows[call[h].req]
                mb == IF call[h].op = "signature" THEN row.built ELSE NoMb
    <3>1. call[h].req \in Requests
      BY <1>0, <2>1 DEF FindRequest, NamesARequest, WalletPcs
    <3>2. call[h].op = "signature" => mb.vb = row.vb
      BY <2>1, <3>1 DEF FindRequest, Servable, IsPending, Exists, IInv, RowFits, Fits
    <3>3. call' = [call EXCEPT ![h].pc = "findApplication", ![h].app = row.app,
                               ![h].vb = row.vb, ![h].mb = mb]
      BY <2>1 DEF FindRequest
    <3>. HIDE DEF mb
    <3>4. /\ \A g \in Handlers : g # h => call'[g] = call[g]
          /\ call'[h].pc = "findApplication" /\ call'[h].vb = row.vb /\ call'[h].mb = mb
          /\ call'[h].op = call[h].op /\ call'[h].subscribed = call[h].subscribed
      BY <1>0, <3>3 DEF Call
    <3>5. ~call[h].subscribed
      BY <1>0, <2>1 DEF SawEndorser, FindRequest
    <3>. QED
      BY <3>2, <3>4, <3>5 DEF SawEndorser
  <2>2. CASE FindApplicationByVbId(h)
    BY <1>0, <1>1, <2>2 DEF FindApplicationByVbId, SawEndorser, Call
  <2>3. CASE LoadApplicationLedger(h)
    <3>. DEFINE pc == CASE call[h].op = "signature" -> "seal"
                        [] call[h].op \in {"handshake", "actorKey"} /\ call[h].vb = NoLedger -> "readSeed"
                        [] OTHER -> "build"
                prev == IF call[h].vb \in Ledgers THEN head[call[h].vb] ELSE 0
    <3>1. pc \in {"seal", "readSeed", "build"}
      OBVIOUS
    <3>2. call' = [call EXCEPT ![h].pc = pc, ![h].prev = prev, ![h].subscribed = call[h].vb \in actors]
      BY <2>3 DEF LoadApplicationLedger
    <3>. DEFINE b == call[h].vb \in actors
    <3>3. b \in BOOLEAN /\ (b => call[h].vb \in actors)
      OBVIOUS
    <3>4. call[h].pc = "loadLedger"
      BY <2>3 DEF LoadApplicationLedger
    <3>5. call' = [call EXCEPT ![h].pc = pc, ![h].prev = prev, ![h].subscribed = b]
      BY <3>2
    <3>. HIDE DEF pc, prev, b
    <3>6. /\ \A g \in Handlers : g # h => call'[g] = call[g]
          /\ call'[h].pc = pc /\ call'[h].vb = call[h].vb /\ call'[h].mb = call[h].mb
          /\ call'[h].op = call[h].op /\ call'[h].subscribed = b
      BY <1>0, <3>5 DEF Call
    <3>. QED
      BY <1>0, <1>1, <3>1, <3>3, <3>4, <3>6 DEF SawEndorser
  <2>4. CASE ReadGenesisSeed(h) \/ SaveGeneratedSeed(h)
    <3>1. PICK pc \in {"saveSeed", "build"} :
             \E prev : call' = [call EXCEPT ![h].pc = pc, ![h].prev = prev]
      <4>1. CASE SaveGeneratedSeed(h)
        <5>1. call' = [call EXCEPT ![h].pc = "build", ![h].prev = call[h].prev]
          BY <1>0, <4>1 DEF SaveGeneratedSeed, Call
        <5>. QED
          BY <5>1
      <4>2. CASE ReadGenesisSeed(h)
        BY <4>2 DEF ReadGenesisSeed
      <4>. QED
        BY <2>4, <4>1, <4>2
    <3>2. /\ \A g \in Handlers : g # h => call'[g] = call[g]
          /\ call'[h].pc = pc /\ call'[h].vb = call[h].vb
          /\ call'[h].op = call[h].op /\ call'[h].subscribed = call[h].subscribed
      BY <1>0, <3>1 DEF Call
    <3>. QED
      BY <1>0, <1>1, <3>1, <3>2 DEF SawEndorser
  <2>. QED
    BY <2>1, <2>2, <2>3, <2>4
<1>. QED
  BY <1>1, <1>2, EndorserKept

\* The endorser's key was found in the microblock or on the ledger it extends.
LEMMA EndorserSeals ==
    ASSUME IInv, EndorserInv, NEW h \in Handlers, SealAndPublish(h)
    PROVE  EndorserInv'
<1>0. PICK mb : mb = [call[h].mb EXCEPT !.signed = call[h].sig, !.sent = nonce]
  OBVIOUS
<1>1. /\ call \in [Handlers -> Call] /\ call[h] \in Call /\ CallFits(h) /\ SawEndorser(h)
  BY DEF IInv, TypeInv, TypeOK, EndorserInv
<1>2. /\ call[h].pc = "seal"
      /\ call[h].mb.subscribes \/ call[h].subscribed
      /\ call' = [call EXCEPT ![h] = Go(h, "awaitNode", mb)] /\ wire' = wire \cup {mb}
      /\ actors' = actors
  BY <1>0 DEF SealAndPublish, EndorserHasKey, EndorserOnLedger, chainVars
<1>3. mb.req = call[h].mb.req /\ mb.vb = call[h].mb.vb /\ mb.subscribes = call[h].mb.subscribes
  BY <1>0, <1>1 DEF Call, Microblock
<1>4. HasEndorser(mb)'
  <2>1. call[h].mb.subscribes \/ call[h].mb.vb \in actors
    BY <1>1, <1>2, Zenon DEF SawEndorser, CallFits
  <2>. QED
    BY <1>2, <1>3, <2>1 DEF HasEndorser
<1>5. /\ \A g \in Handlers : g # h => call'[g] = call[g]
      /\ call'[h].pc = "awaitNode" /\ ~call'[h].subscribed
  BY <1>1, <1>2 DEF Go, Idle
<1>6. SawEndorser(h)'
  BY <1>5 DEF SawEndorser
<1>. QED
  BY <1>2, <1>4, <1>5, <1>6, EndorserKept

\* A microblock of POST /anchor carries no request.
LEMMA EndorserAnchors ==
    ASSUME IInv, EndorserInv, NEW h \in Handlers, BuildAndPublish(h)
    PROVE  EndorserInv'
<1>1. call \in [Handlers -> Call] /\ actors' = actors
  BY DEF IInv, TypeInv, TypeOK, BuildAndPublish, chainVars
<1>2. PICK mb : /\ mb.req = NoRequest
                /\ call' = [call EXCEPT ![h] = [Go(h, "awaitNode", mb) EXCEPT !.app = call[h].app,
                                                                             !.vb = call[h].vb]]
                /\ wire' = wire \cup {mb}
  <2>1. PICK prev :
          LET mb == [id |-> nonce + 1, req |-> NoRequest, vb |-> call[h].vb, prev |-> prev,
                     subscribes |-> FALSE, signed |-> 0, sent |-> nonce + 1]
          IN  /\ call' = [call EXCEPT ![h] = [Go(h, "awaitNode", mb) EXCEPT !.app = call[h].app,
                                                                           !.vb = call[h].vb]]
              /\ wire' = wire \cup {mb}
    BY DEF BuildAndPublish
  <2>. QED
    BY <2>1
<1>3. /\ \A g \in Handlers : g # h => call'[g] = call[g]
      /\ call'[h].pc = "awaitNode" /\ ~call'[h].subscribed
  BY <1>1, <1>2 DEF Go, Idle
<1>4. HasEndorser(mb)'
  BY <1>2, NoRequestAssumption DEF HasEndorser
<1>5. SawEndorser(h)'
  BY <1>3 DEF SawEndorser
<1>. QED
  BY <1>1, <1>2, <1>3, <1>4, <1>5, EndorserKept

\* The steps of the database, the node, the administrator and the process.
LEMMA EndorserElsewhere ==
    ASSUME IInv, EndorserInv,
           UNCHANGED vars \/ (\E k \in marks : ApplyMark(k)) \/ Node \/ Admin \/ Crash
    PROVE  EndorserInv'
<1>1. actors \subseteq actors' /\ wire' \subseteq wire
  BY DEF vars, ApplyMark, Node, NodeAccepts, NodeRefuses, Admin, DeleteAnchorRequest,
         DeleteApplications, CreateApplication, Crash, dbVars, chainVars
<1>2. \/ call' = call
      \/ call' = [h \in Handlers |-> Idle]
  BY DEF vars, ApplyMark, Node, NodeAccepts, NodeRefuses, Admin, DeleteAnchorRequest,
         DeleteApplications, CreateApplication, Crash
<1>3. \A h \in Handlers : call'[h] = call[h] \/ SawEndorser(h)'
  BY <1>2 DEF SawEndorser, Idle
<1>. QED
  BY <1>1, <1>3, EndorserKept

LEMMA EndorserNext == IInv /\ EndorserInv /\ [Next]_vars => EndorserInv'
BY EndorserForgets, EndorserCarried, EndorserSeals, EndorserAnchors, EndorserElsewhere
DEF Next, Step

LEMMA EndorserInvHolds == Spec => []EndorserInv
BY EndorserInit, EndorserNext, IInvHolds, PTL DEF Spec

\* The node takes from the wire, whose microblocks all have their endorser.
LEMMA AcceptedHasEndorser ==
    ASSUME EndorserInv, [Next]_vars, NEW m \in chain' \ chain, m.req \in Requests
    PROVE  m.subscribes \/ m.vb \in actors
<1>1. chain' # chain
  OBVIOUS
<1>2. Node
  <2>1. ASSUME NEW h \in Handlers, Step(h) PROVE chain' = chain
    BY <2>1 DEF Step, chainVars, StoreAnchorRequest, FindRequest, FindApplicationByVbId,
         LoadApplicationLedger, ReadGenesisSeed, SaveGeneratedSeed, BuildMicroblock, AskActorKey,
         SealAndPublish, MarkAsPublished, Answer, BuildAndPublish, SaveCompletedAnchorRequest, Throws
  <2>2. ASSUME NEW h \in Handlers, Receive(h) \/ Fails(h) PROVE chain' = chain
    BY <2>2 DEF chainVars, Receive, ClientSends, WalletSends, Fails
  <2>3. UNCHANGED vars \/ (\E k \in marks : ApplyMark(k)) \/ Admin \/ Crash => chain' = chain
    BY DEF vars, chainVars, ApplyMark, Admin, DeleteAnchorRequest, DeleteApplications,
           CreateApplication, Crash
  <2>. QED
    BY <1>1, <2>1, <2>2, <2>3 DEF Next
<1>3. m \in wire
  BY <1>2 DEF Node, NodeAccepts, NodeRefuses, chainVars
<1>. QED
  BY <1>3 DEF EndorserInv, HasEndorser

\* Whenever the chain takes a microblock that a wallet endorsed, the endorser
\* is a subscribed actor of the ledger.
THEOREM EndorserIsSubscribedHolds == Spec => EndorserIsSubscribed
<1>1. EndorserInv /\ [Next]_vars =>
        [\A m \in chain' \ chain : m.req \in Requests => m.subscribes \/ m.vb \in actors]_vars
  BY AcceptedHasEndorser
<1>. QED
  BY <1>1, EndorserInvHolds, PTL DEF Spec, EndorserIsSubscribed
=============================================================================
