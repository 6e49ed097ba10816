------------------------------ MODULE Anchoring ------------------------------
(***************************************************************************)
(* The anchoring of microblocks by the operator: the life of an anchor     *)
(* request from the call of a client (POST /anchorWithWallet, POST         *)
(* /anchor) through the messages of a wallet (POST /protocols/wiap/v1) to  *)
(* the publication of a microblock on the Carmentis chain.                 *)
(*                                                                         *)
(* Node runs every HTTP call as an asynchronous function: a call is cut    *)
(* into the steps between two awaits that touch shared state, and the      *)
(* steps of different calls interleave.  The shared state is the database  *)
(* (rows, apps), the updates issued but not awaited (marks), the           *)
(* microblocks sent to the chain node (wire) and the chain itself.         *)
(***************************************************************************)
EXTENDS Naturals, FiniteSets

CONSTANTS
    Requests,        \* the anchor request ids the random generator can draw
    Apps,            \* the applications (vbId) an administrator registers
    Ledgers,         \* the application ledgers that exist on chain at the start
    Handlers,        \* slots for HTTP calls being served at the same time
    NoRequest,       \* no request id: a microblock of POST /anchor has none
    NoApp,           \* the SQL NULL of the column application
    NoLedger,        \* virtualBlockchainId omitted: a new ledger is created
    RelationsLoaded, \* do findOneBy and findOneByOrFail join many-to-one relations?
    WalletWaits,     \* does a wallet wait for answers, and send what they ask for?
    MaxCalls,        \* bound on the calls that arrive
    MaxFailures      \* bound on the failures: failures, failed operations, lost answers

ASSUME NoRequestAssumption == NoRequest \notin Requests
ASSUME NoAppAssumption == NoApp \notin Apps
ASSUME NoLedgerAssumption == NoLedger \notin Ledgers
ASSUME LedgersAssumption == Ledgers \cap Nat = {} /\ NoLedger \notin Nat
ASSUME FlagsAssumption ==
    /\ RelationsLoaded \in BOOLEAN
    /\ WalletWaits \in BOOLEAN
ASSUME BoundsAssumption == MaxCalls \in Nat /\ MaxFailures \in Nat

VARIABLES
    rows,     \* rows[r]: the AnchorRequestEntity of id r
    apps,     \* the vbIds in the table application
    marks,    \* updates issued by markAnchorRequestAsPublished, not yet applied
    call,     \* call[h]: the HTTP call slot h is serving
    wallet,   \* wallet[r]: the last answer the wallet received for request r
    wire,     \* microblocks sent to the chain node, not yet handled by it
    chain,    \* microblocks the node accepted
    head,     \* head[l]: id of the last microblock of ledger l
    actors,   \* the ledgers on which the endorser is a subscribed actor
    nonce,    \* the next random value
    calls,    \* how many calls arrived
    failures  \* how many operations failed, answers were lost, processes crashed

dbVars == <<rows, apps, marks>>
chainVars == <<chain, head, actors>>
vars == <<rows, apps, marks, call, wallet, wire, chain, head, actors, nonce, calls, failures>>

-----------------------------------------------------------------------------
(* Data.  Hashes, seeds and microblock contents are natural numbers: 0 is   *)
(* null, 1 stands for all that was on chain before (heads and genesis       *)
(* seeds), larger numbers are random draws.  No two builds yield the same   *)
(* microblock, since each encrypts with fresh keys.                         *)

Before == 1

WalletOps == {"handshake", "actorKey", "signature"}
ClientOps == {"anchorWithWallet", "anchor"}

\* signed: the id of the microblock the endorser's signature was made for; sent:
\* which call of publishMicroblock sent it, since a row may be sealed again, and
\* the node answers each publication by itself
Microblock == [id : Nat, req : Requests \cup {NoRequest}, vb : Ledgers \cup {NoLedger},
               prev : Nat, subscribes : BOOLEAN, signed : Nat, sent : Nat]
NoMb == [id |-> 0, req |-> NoRequest, vb |-> NoLedger,
         prev |-> 0, subscribes |-> FALSE, signed |-> 0, sent |-> 0]

\* vb is the request's virtualBlockchainId, vbId the column of that name
Row == [status : {"unused", "pending", "completed", "deleted"},
        app : Apps \cup {NoApp}, vb : Ledgers \cup {NoLedger}, seed : Nat,
        built : Microblock, published : Nat, vbId : Ledgers \cup Nat]
Unused == [status |-> "unused", app |-> NoApp, vb |-> NoLedger, seed |-> 0,
           built |-> NoMb, published |-> 0, vbId |-> 0]
Deleted == [Unused EXCEPT !.status = "deleted"]

View == [kind : {"none", "actorKeyRequired", "approvalData", "published"}, ref : Nat]
NoView == [kind |-> "none", ref |-> 0]

\* prev and subscribed: what the call saw of the ledger when it loaded it
Call == [pc : {"idle", "store", "findRequest", "findApplication",
               "loadLedger", "readSeed", "saveSeed", "build", "seal",
               "awaitNode", "answer"},
         op : WalletOps \cup ClientOps \cup {"none"}, req : Requests \cup {NoRequest},
         app : Apps \cup {NoApp}, vb : Ledgers \cup {NoLedger}, prev : Nat,
         subscribed : BOOLEAN, mb : Microblock, sig : Nat, reply : View]
Idle == [pc |-> "idle", op |-> "none", req |-> NoRequest, app |-> NoApp,
         vb |-> NoLedger, prev |-> 0, subscribed |-> FALSE, mb |-> NoMb,
         sig |-> 0, reply |-> NoView]

Exists(r) == rows[r].status \in {"pending", "completed"}
IsPending(r) == rows[r].status = "pending"

TypeOK ==
    /\ rows \in [Requests -> Row]
    /\ apps \subseteq Apps
    /\ marks \subseteq [req : Requests, mb : Microblock]
    /\ call \in [Handlers -> Call]
    /\ wallet \in [Requests -> View]
    /\ wire \subseteq Microblock
    /\ chain \subseteq Microblock
    /\ head \in [Ledgers -> Nat]
    /\ actors \subseteq Ledgers
    /\ nonce \in Nat
    /\ calls \in Nat
    /\ failures \in Nat

Init ==
    /\ rows = [r \in Requests |-> Unused]
    /\ apps = Apps
    /\ marks = {}
    /\ call = [h \in Handlers |-> Idle]
    /\ wallet = [r \in Requests |-> NoView]
    /\ wire = {}
    /\ chain = {}
    /\ head = [l \in Ledgers |-> Before]
    /\ actors \in SUBSET Ledgers
    /\ nonce = Before + 1
    /\ calls = 0
    /\ failures = 0

-----------------------------------------------------------------------------
(* Calls that arrive.                                                       *)

Busy == {h \in Handlers : call[h].pc # "idle"}

\* Bounds of the model: on the calls, and a request id is left for each client.
Arrives == calls < MaxCalls /\ calls' = calls + 1

IdLeft == Cardinality({r \in Requests : rows[r].status = "unused"})
             > Cardinality({h \in Busy : call[h].op \in ClientOps})

\* A client calls with a key, of which findApplicationByApiKey found the
\* application a, or null if the key is gone since the guard has seen it.
\* anchorWithWallet goes on with a null, anchor dereferences it, which is an
\* error with no effect.
ClientSends(h, op, a, l) ==
    /\ call[h].pc = "idle"
    /\ Arrives /\ IdLeft
    /\ a \in apps \cup {NoApp}
    /\ op = "anchor" => a # NoApp
    /\ call' = [call EXCEPT ![h] =
         [Idle EXCEPT !.pc = IF op = "anchor" THEN "loadLedger" ELSE "store",
                      !.op = op, !.vb = l, !.app = a]]
    /\ UNCHANGED <<dbVars, wallet, wire, chainVars, nonce, failures>>

\* A wallet that waits for each answer, sends the message it asks for or starts
\* again with a handshake, and stops when it is told of the publication.
FollowsProtocol(op, r) ==
    /\ wallet[r].kind # "published"
    /\ \A g \in Busy : ~(call[g].op \in WalletOps /\ call[g].req = r)
    /\ op = "actorKey" => wallet[r].kind = "actorKeyRequired"
    /\ op = "signature" => wallet[r].kind = "approvalData"

\* What a wallet signs with: the microblock it was last shown, or nothing (0).
Signature(r) == IF wallet[r].kind \in {"approvalData", "published"} THEN wallet[r].ref ELSE 0

\* The route is public and keeps no session: any message for a request comes at
\* any time, unless the wallet waits.
WalletSends(h, op, r) ==
    /\ call[h].pc = "idle"
    /\ Arrives
    /\ rows[r].status # "unused"
    /\ WalletWaits => FollowsProtocol(op, r)
    /\ call' = [call EXCEPT ![h] =
         [Idle EXCEPT !.pc = "findRequest", !.op = op, !.req = r,
                      !.sig = IF op = "signature" THEN Signature(r) ELSE 0]]
    /\ UNCHANGED <<dbVars, wallet, wire, chainVars, nonce, failures>>

-----------------------------------------------------------------------------
(* POST /anchorWithWallet.                                                  *)

StoreAnchorRequest(h, r) ==
    /\ call[h].pc = "store"
    /\ call[h].app \in apps \cup {NoApp}
    /\ rows[r].status = "unused"
    /\ rows' = [rows EXCEPT ![r] = [Unused EXCEPT !.status = "pending",
                                                  !.app = call[h].app, !.vb = call[h].vb]]
    /\ call' = [call EXCEPT ![h] = Idle]
    /\ UNCHANGED <<apps, marks, wallet, wire, chainVars, nonce, calls, failures>>

-----------------------------------------------------------------------------
(* The wallet protocol: what its three messages have in common.             *)

\* What approvalHandshake, handleActorKeys and approvalSignature need of the row.
Servable(h) ==
    LET row == rows[call[h].req] IN
    /\ IsPending(call[h].req)
    /\ RelationsLoaded /\ row.app # NoApp
    /\ call[h].op = "signature" => row.built # NoMb

FindRequest(h) ==
    /\ call[h].pc = "findRequest"
    /\ Servable(h)
    /\ LET row == rows[call[h].req] IN
         call' = [call EXCEPT ![h].pc = "findApplication",
                              ![h].app = row.app, ![h].vb = row.vb,
                              ![h].mb = IF call[h].op = "signature" THEN row.built ELSE NoMb]
    /\ UNCHANGED <<dbVars, wallet, wire, chainVars, nonce, calls, failures>>

FindApplicationByVbId(h) ==
    /\ call[h].pc = "findApplication"
    /\ call[h].app \in apps
    /\ call' = [call EXCEPT ![h].pc = "loadLedger"]
    /\ UNCHANGED <<dbVars, wallet, wire, chainVars, nonce, calls, failures>>

\* The ledger is read from the chain, or an empty one is made in memory.
LoadApplicationLedger(h) ==
    /\ call[h].pc = "loadLedger"
    /\ call' = [call EXCEPT
         ![h].pc = CASE call[h].op = "signature" -> "seal"
                     [] call[h].op \in {"handshake", "actorKey"} /\ call[h].vb = NoLedger -> "readSeed"
                     [] OTHER -> "build",
         ![h].prev = IF call[h].vb \in Ledgers THEN head[call[h].vb] ELSE 0,
         ![h].subscribed = call[h].vb \in actors]
    /\ UNCHANGED <<dbVars, wallet, wire, chainVars, nonce, calls, failures>>

\* Mutants: the stored seed is replaced by a new one, or not put in the microblock.
ReadGenesisSeedAlwaysNew(h) ==
    /\ call[h].pc = "readSeed" /\ Exists(call[h].req)
    /\ call' = [call EXCEPT ![h].pc = "saveSeed", ![h].prev = nonce]
    /\ nonce' = nonce + 1
    /\ UNCHANGED <<dbVars, wallet, wire, chainVars, calls, failures>>

ReadGenesisSeedNotSet(h) ==
    /\ call[h].pc = "readSeed" /\ Exists(call[h].req)
    /\ call' = [call EXCEPT ![h].pc = IF rows[call[h].req].seed = 0 THEN "saveSeed" ELSE "build",
                            ![h].prev = nonce]
    /\ nonce' = nonce + 1
    /\ UNCHANGED <<dbVars, wallet, wire, chainVars, calls, failures>>

\* The builder of an empty ledger reads the row again: is a seed stored?
ReadGenesisSeed(h) ==
    /\ call[h].pc = "readSeed"
    /\ Exists(call[h].req)
    /\ LET seed == rows[call[h].req].seed IN
         \/ /\ seed = 0
            /\ call' = [call EXCEPT ![h].pc = "saveSeed", ![h].prev = nonce]
            /\ nonce' = nonce + 1
         \/ /\ seed # 0
            /\ call' = [call EXCEPT ![h].pc = "build", ![h].prev = seed]
            /\ UNCHANGED nonce
    /\ UNCHANGED <<dbVars, wallet, wire, chainVars, calls, failures>>

\* Mutants: save() of the entity that was read, which reopens or recreates the
\* row; no row matched; only the first microblock kept.
SaveGenesisSeedOfEntity(r, seed) ==
    rows' = [rows EXCEPT ![r].seed = seed, ![r].status = "pending"]
SaveNoGenesisSeed(r, seed) == rows' = rows
SaveMicroblockOfEntity(r, mb) ==
    rows' = [rows EXCEPT ![r].built = mb, ![r].status = "pending"]
SaveFirstMicroblock(r, mb) ==
    rows' = IF Exists(r) /\ rows[r].built = NoMb THEN [rows EXCEPT ![r].built = mb] ELSE rows

\* update() touches the named columns of the row, and no row if it is deleted.
SaveGenesisSeed(r, seed) ==
    rows' = IF Exists(r) THEN [rows EXCEPT ![r].seed = seed] ELSE rows

SaveMicroblock(r, mb) ==
    rows' = IF Exists(r) THEN [rows EXCEPT ![r].built = mb] ELSE rows

SaveGeneratedSeed(h) ==
    /\ call[h].pc = "saveSeed"
    /\ SaveGenesisSeed(call[h].req, call[h].prev)
    /\ call' = [call EXCEPT ![h].pc = "build"]
    /\ UNCHANGED <<apps, marks, wallet, wire, chainVars, nonce, calls, failures>>

-----------------------------------------------------------------------------
(* APPROVAL_HANDSHAKE and ACTOR_KEY: a microblock is built and stored.      *)

\* A step keeps of the call what its later steps still use.
Go(h, pc, mb) == [Idle EXCEPT !.pc = pc, !.op = call[h].op, !.req = call[h].req, !.mb = mb]
Reply(h, kind, ref) ==
    [Idle EXCEPT !.pc = "answer", !.op = call[h].op, !.req = call[h].req,
                 !.reply = [kind |-> kind, ref |-> ref]]

EndorserOnAnyLedger(h) == actors # {}  \* Mutant: another ledger is looked at.
EndorserOnLedger(h) == call[h].subscribed

\* The handshake needs the endorser on the ledger it loaded; actorKey
\* subscribes it in the microblock.
BuildMicroblock(h) ==
    /\ call[h].pc = "build"
    /\ \/ call[h].op = "handshake" /\ EndorserOnLedger(h)
       \/ call[h].op = "actorKey"
    /\ LET mb == [id |-> nonce, req |-> call[h].req, vb |-> call[h].vb,
                  prev |-> call[h].prev, subscribes |-> call[h].op = "actorKey",
                  signed |-> 0, sent |-> 0] IN
         /\ SaveMicroblock(call[h].req, mb)
         /\ call' = [call EXCEPT ![h] = Reply(h, "approvalData", mb.id)]
    /\ nonce' = nonce + 1
    /\ UNCHANGED <<apps, marks, wallet, wire, chainVars, calls, failures>>

\* ActorNotSubscribedError: the wallet is given the genesis seed of the ledger,
\* from which it derives the endorser's keys.
AskActorKey(h) ==
    /\ call[h].pc = "build"
    /\ call[h].op = "handshake" /\ ~EndorserOnLedger(h)
    /\ LET seed == IF call[h].vb \in Ledgers THEN Before ELSE call[h].prev IN
         /\ SaveGenesisSeed(call[h].req, seed)
         /\ call' = [call EXCEPT ![h] = Reply(h, "actorKeyRequired", seed)]
    /\ UNCHANGED <<apps, marks, wallet, wire, chainVars, nonce, calls, failures>>

-----------------------------------------------------------------------------
(* APPROVAL_SIGNATURE: the stored microblock is sealed and published.       *)

\* An invalid signature only logs a warning.  A microblock that does not
\* extend the loaded ledger is left for the node to refuse.
EndorserHasKey(h) == call[h].mb.subscribes \/ EndorserOnLedger(h)

SealAndPublish(h) ==
    /\ call[h].pc = "seal"
    /\ EndorserHasKey(h)
    /\ LET mb == [call[h].mb EXCEPT !.signed = call[h].sig, !.sent = nonce] IN
         /\ call' = [call EXCEPT ![h] = Go(h, "awaitNode", mb)]
         /\ wire' = wire \cup {mb}
    /\ nonce' = nonce + 1
    /\ UNCHANGED <<dbVars, wallet, chainVars, calls, failures>>

\* Mutants: marked before the node answers; the wallet asked to approve again.
MarkBeforePublication(h) ==
    /\ call[h].pc = "awaitNode" /\ call[h].op = "signature"
    /\ marks' = marks \cup {[req |-> call[h].req, mb |-> call[h].mb]}
    /\ call' = [call EXCEPT ![h] = Reply(h, "published", call[h].mb.id)]
    /\ UNCHANGED <<rows, apps, wallet, wire, chainVars, nonce, calls, failures>>

MarkAndAskAgain(h) ==
    /\ call[h].pc = "awaitNode" /\ call[h].op = "signature" /\ call[h].mb \in chain
    /\ marks' = marks \cup {[req |-> call[h].req, mb |-> call[h].mb]}
    /\ call' = [call EXCEPT ![h] = Reply(h, "approvalData", call[h].mb.id)]
    /\ UNCHANGED <<rows, apps, wallet, wire, chainVars, nonce, calls, failures>>

\* publishMicroblock returned: the node took what this call sent, and not just a
\* microblock of the same content.  markAnchorRequestAsPublished issues the update
\* and returns without awaiting it; the wallet is answered next.
MarkAsPublished(h) ==
    /\ call[h].pc = "awaitNode"
    /\ call[h].op = "signature"
    /\ call[h].mb \in chain
    /\ marks' = marks \cup {[req |-> call[h].req, mb |-> call[h].mb]}
    /\ call' = [call EXCEPT ![h] = Reply(h, "published", call[h].mb.id)]
    /\ UNCHANGED <<rows, apps, wallet, wire, chainVars, nonce, calls, failures>>

\* Mutants: an upsert; a status the entity does not have; an update that fails
\* unnoticed.
ApplyMarkUpsert(k) ==
    /\ k \in marks
    /\ marks' = marks \ {k}
    /\ rows' = [rows EXCEPT ![k.req].status = "completed", ![k.req].published = k.mb.id]
    /\ UNCHANGED <<apps, call, wallet, wire, chainVars, nonce, calls, failures>>

ApplyMarkWrongStatus(k) ==
    /\ k \in marks
    /\ marks' = marks \ {k}
    /\ rows' = [rows EXCEPT ![k.req].status = "published", ![k.req].published = k.mb.id]
    /\ UNCHANGED <<apps, call, wallet, wire, chainVars, nonce, calls, failures>>

ApplyMarkLost(k) ==
    /\ k \in marks
    /\ marks' = marks \ {k}
    /\ UNCHANGED <<rows, apps, call, wallet, wire, chainVars, nonce, calls, failures>>

\* The database applies the update, whenever it gets to it.
ApplyMark(k) ==
    /\ k \in marks
    /\ marks' = marks \ {k}
    /\ rows' = IF Exists(k.req)
               THEN [rows EXCEPT ![k.req].status = "completed", ![k.req].published = k.mb.id]
               ELSE rows
    /\ UNCHANGED <<apps, call, wallet, wire, chainVars, nonce, calls, failures>>

Answer(h) ==
    /\ call[h].pc = "answer"
    /\ wallet' = [wallet EXCEPT ![call[h].req] = call[h].reply]
    /\ call' = [call EXCEPT ![h] = Idle]
    /\ UNCHANGED <<dbVars, wire, chainVars, nonce, calls, failures>>

-----------------------------------------------------------------------------
(* POST /anchor: the operator builds, seals and publishes alone.  The row   *)
(* is inserted, completed, once the node has accepted the microblock.       *)

BuildAndPublish(h) ==
    /\ call[h].pc = "build"
    /\ call[h].op = "anchor"
    /\ LET mb == [id |-> nonce + 1, req |-> NoRequest, vb |-> call[h].vb,
                  prev |-> IF call[h].vb \in Ledgers THEN call[h].prev ELSE nonce,
                  subscribes |-> FALSE, signed |-> 0, sent |-> nonce + 1] IN
         /\ call' = [call EXCEPT ![h] = [Go(h, "awaitNode", mb) EXCEPT !.app = call[h].app,
                                                                     !.vb = call[h].vb]]
         /\ wire' = wire \cup {mb}
    /\ nonce' = nonce + 2
    /\ UNCHANGED <<dbVars, wallet, chainVars, calls, failures>>

SaveCompletedTwice(h, r) ==  \* Mutant: the insert is retried although it succeeded.
    /\ call[h].pc = "awaitNode" /\ call[h].op = "anchor" /\ call[h].mb \in chain
    /\ rows[r].status = "unused"
    /\ rows' = [rows EXCEPT ![r] =
         [Unused EXCEPT !.status = "completed", !.vb = call[h].vb, !.published = call[h].mb.id]]
    /\ UNCHANGED <<apps, marks, call, wallet, wire, chainVars, nonce, calls, failures>>

SaveCompletedAnchorRequest(h, r) ==
    /\ call[h].pc = "awaitNode"
    /\ call[h].op = "anchor"
    /\ call[h].mb \in chain
    /\ call[h].app \in apps
    /\ rows[r].status = "unused"
    /\ rows' = [rows EXCEPT ![r] =
         [Unused EXCEPT !.status = "completed", !.app = call[h].app, !.vb = call[h].vb,
                        !.published = call[h].mb.id,
                        !.vbId = IF call[h].vb \in Ledgers THEN call[h].vb ELSE call[h].mb.id]]
    /\ call' = [call EXCEPT ![h] = Idle]
    /\ UNCHANGED <<apps, marks, wallet, wire, chainVars, nonce, calls, failures>>

-----------------------------------------------------------------------------
(* Errors, crashes and administration.                                      *)

ThrowsButNotWhenRefused(h) ==  \* Mutant: a refusal of the node goes unnoticed.
    /\ \/ call[h].pc = "store" /\ call[h].app \notin apps \cup {NoApp}
       \/ call[h].pc = "findRequest" /\ ~Servable(h)
       \/ call[h].pc = "findApplication" /\ call[h].app \notin apps
       \/ call[h].pc = "readSeed" /\ ~Exists(call[h].req)
       \/ call[h].pc = "seal" /\ ~EndorserHasKey(h)
       \/ call[h].pc = "awaitNode" /\ call[h].op = "anchor"
            /\ call[h].mb \in chain /\ call[h].app \notin apps
    /\ call' = [call EXCEPT ![h] = Idle]
    /\ UNCHANGED <<dbVars, wallet, wire, chainVars, nonce, calls, failures>>

\* An exception ends the call: ERROR to the wallet, an HTTP error to a client.
\* What the call wrote before stays written.
Throws(h) ==
    /\ \/ call[h].pc = "store" /\ call[h].app \notin apps \cup {NoApp}
       \/ call[h].pc = "findRequest" /\ ~Servable(h)
       \/ call[h].pc = "findApplication" /\ call[h].app \notin apps
       \/ call[h].pc = "readSeed" /\ ~Exists(call[h].req)
       \/ call[h].pc = "seal" /\ ~EndorserHasKey(h)
       \/ call[h].pc = "awaitNode" /\ call[h].mb \notin chain \cup wire
       \/ call[h].pc = "awaitNode" /\ call[h].op = "anchor"
            /\ call[h].mb \in chain /\ call[h].app \notin apps
    /\ call' = [call EXCEPT ![h] = Idle]
    /\ UNCHANGED <<dbVars, wallet, wire, chainVars, nonce, calls, failures>>

\* A bound of the model.
FailureLeft == failures < MaxFailures /\ failures' = failures + 1

\* An operation of the database, the chain or the SDK fails, or the connection
\* is lost and with it the answer.
Fails(h) ==
    /\ call[h].pc # "idle"
    /\ FailureLeft
    /\ call' = [call EXCEPT ![h] = Idle]
    /\ UNCHANGED <<dbVars, wallet, wire, chainVars, nonce, calls>>

\* The process dies (a failed mark is an unhandled rejection, which is enough)
\* and restarts.  Calls and updates not applied are lost, not what was sent.
Crash ==
    /\ FailureLeft
    /\ call' = [h \in Handlers |-> Idle]
    /\ marks' = {}
    /\ UNCHANGED <<rows, apps, wallet, wire, chainVars, nonce, calls>>

DeleteAnchorRequest(r) ==
    /\ Exists(r)
    /\ Arrives
    /\ rows' = [rows EXCEPT ![r] = Deleted]
    /\ UNCHANGED <<apps, marks, call, wallet, wire, chainVars, nonce, failures>>

DeleteApplicationsOnly(A) ==  \* Mutant: the requests of the applications are left.
    /\ A # {} /\ A \subseteq apps
    /\ Arrives
    /\ apps' = apps \ A
    /\ UNCHANGED <<rows, marks, call, wallet, wire, chainVars, nonce, failures>>

\* One application is deleted, or all those of a wallet that is deleted.  ON
\* DELETE CASCADE takes their anchor requests.
DeleteApplications(A) ==
    /\ A # {} /\ A \subseteq apps
    /\ Arrives
    /\ apps' = apps \ A
    /\ rows' = [r \in Requests |-> IF Exists(r) /\ rows[r].app \in A THEN Deleted ELSE rows[r]]
    /\ UNCHANGED <<marks, call, wallet, wire, chainVars, nonce, failures>>

CreateApplication(a) ==
    /\ a \notin apps
    /\ Arrives
    /\ apps' = apps \cup {a}
    /\ UNCHANGED <<rows, marks, call, wallet, wire, chainVars, nonce, failures>>

-----------------------------------------------------------------------------
(* The chain node: it takes a microblock that extends its ledger, or that   *)
(* starts a new one.                                                        *)

Extends(m) ==
    /\ m.vb \in Ledgers => m.prev = head[m.vb]
    /\ \A n \in chain : n.id # m.id

NodeAccepts(m) ==
    /\ m \in wire
    /\ Extends(m)
    /\ wire' = wire \ {m}
    /\ chain' = chain \cup {m}
    /\ head' = [l \in Ledgers |-> IF l = m.vb THEN m.id ELSE head[l]]
    /\ actors' = IF m.subscribes THEN actors \cup ({m.vb} \cap Ledgers) ELSE actors
    /\ UNCHANGED <<dbVars, call, wallet, nonce, calls, failures>>

NodeRefuses(m) ==
    /\ m \in wire
    /\ \/ ~Extends(m) /\ UNCHANGED failures
       \/ Extends(m) /\ FailureLeft
    /\ wire' = wire \ {m}
    /\ UNCHANGED <<dbVars, call, wallet, chainVars, nonce, calls>>

-----------------------------------------------------------------------------
\* A step of the call in slot h.
Step(h) ==
    \/ \E r \in Requests : StoreAnchorRequest(h, r)
    \/ FindRequest(h)
    \/ FindApplicationByVbId(h)
    \/ LoadApplicationLedger(h)
    \/ ReadGenesisSeed(h)
    \/ SaveGeneratedSeed(h)
    \/ BuildMicroblock(h)
    \/ AskActorKey(h)
    \/ SealAndPublish(h)
    \/ MarkAsPublished(h)
    \/ Answer(h)
    \/ BuildAndPublish(h)
    \/ \E r \in Requests : SaveCompletedAnchorRequest(h, r)
    \/ Throws(h)

Receive(h) ==
    \/ \E op \in ClientOps, a \in Apps \cup {NoApp}, l \in Ledgers \cup {NoLedger} :
           ClientSends(h, op, a, l)
    \/ \E op \in WalletOps, r \in Requests : WalletSends(h, op, r)

Node == \E m \in wire : NodeAccepts(m) \/ NodeRefuses(m)

Admin ==
    \/ \E r \in Requests : DeleteAnchorRequest(r)
    \/ \E A \in SUBSET apps : DeleteApplications(A)
    \/ \E a \in Apps : CreateApplication(a)

Next ==
    \/ \E h \in Handlers : Receive(h) \/ Step(h) \/ Fails(h)
    \/ \E k \in marks : ApplyMark(k)
    \/ Node
    \/ Admin
    \/ Crash

Spec == Init /\ [][Next]_vars

\* The event loop resumes every call whose await has settled, the database
\* settles every update, and the node handles every microblock it was sent.
FairSpec ==
    /\ Spec
    /\ \A h \in Handlers : WF_vars(Step(h))
    /\ WF_vars(\E k \in marks : ApplyMark(k))
    /\ WF_vars(Node)
=============================================================================
