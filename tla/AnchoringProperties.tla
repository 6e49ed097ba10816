------------------------- MODULE AnchoringProperties -------------------------
(***************************************************************************)
(* What must hold of Anchoring, whoever calls it and however the calls     *)
(* interleave, and what holds only for wallets that wait for their answer. *)
(***************************************************************************)
EXTENDS Anchoring

IsCompleted(r) == rows[r].status = "completed"

(***************************************************************************)
(* For every interleaving, crash and fault.                                *)
(***************************************************************************)

\* The microblock m is one the row of request r may name.
NamedBy(r, m) ==
    /\ m.id = rows[r].published
    /\ m.vb = rows[r].vb
    /\ m.req \in {r, NoRequest}

\* A completed request names a microblock that is on chain, in the ledger the
\* client asked for, and that was built for this request (or by the anchor
\* call that created the row): approvalSignature and anchor publish before
\* they record, though the record is an update nobody awaits.
CompletedIsAnchored ==
    \A r \in Requests : IsCompleted(r) => \E m \in chain : NamedBy(r, m)

\* Two requests never name the same microblock, so a client that reads two
\* completed requests knows that its data was anchored twice: no handler of
\* anchor or approvalSignature records a microblock under another id.
OneRequestPerMicroblock ==
    \A r, s \in Requests :
        IsCompleted(r) /\ IsCompleted(s) /\ rows[r].published = rows[s].published => r = s

\* A request that has an application has one that exists: a call that looked
\* its application up before it was deleted does not leave a request behind,
\* which a later application of the same vbId would own and its listing would
\* show.
RequestHasApplication ==
    \A r \in Requests : Exists(r) /\ rows[r].app # NoApp => rows[r].app \in apps

\* A completed request stays completed until it is deleted: a handshake or an
\* actorKey call that loaded the row while it was pending and writes its seed
\* or microblock late does not reopen it (AnchorRequestService updates
\* columns, it does not save the entity it read).
CompletionIsFinal ==
    [][\A r \in Requests : IsCompleted(r) => rows'[r].status \in {"completed", "deleted"}]_vars

\* A deleted request never comes back, whatever calls were in flight when it
\* was deleted, by DELETE /anchorRequest/:id or with its application.
DeletedStaysDeleted ==
    [][\A r \in Requests : rows[r].status = "deleted" => rows'[r].status = "deleted"]_vars

\* Whenever the chain takes a microblock that a wallet endorsed, the endorser
\* is a subscribed actor of the ledger, by that microblock or an earlier one:
\* the key its signature is checked with is on chain.  The handshake checks it
\* on the ledger it loaded, some steps and other publications earlier.
EndorserIsSubscribed ==
    [][\A m \in chain' \ chain :
          m.req \in Requests => m.subscribes \/ m.vb \in actors]_vars

\* The detailed specification implements the life cycle the API promises.
Lifecycle == INSTANCE AnchorLifecycle WITH
    status <- [r \in Requests |-> rows[r].status],
    recorded <- [r \in Requests |-> rows[r].published],
    anchored <- {[id |-> m.id, req |-> m.req] : m \in chain}

ImplementsLifecycle == Lifecycle!Init /\ [][Lifecycle!Next]_(Lifecycle!lifecycleVars)

(***************************************************************************)
(* For wallets that wait for the answer of one message before they send    *)
(* the next one, the one it asks for.                                      *)
(***************************************************************************)

\* Once a genesis seed is stored it never changes: the wallet derives the
\* actor keys it sends from it, so that a retry after an error, or after a
\* crash of the operator, must find the same one.
SeedIsStable ==
    [][\A r \in Requests : rows[r].seed # 0 /\ Exists(r)'
          => rows'[r].seed = rows[r].seed]_vars

\* The microblock stored for a request that creates a ledger starts from the
\* stored genesis seed.
BuiltFromStoredSeed ==
    \A r \in Requests :
        Exists(r) /\ rows[r].vb = NoLedger /\ rows[r].built # NoMb
            => rows[r].built.prev = rows[r].seed

\* The seed a wallet was last given is the stored one.
WalletKnowsSeed ==
    \A r \in Requests :
        Exists(r) /\ wallet[r].kind = "actorKeyRequired" => wallet[r].ref = rows[r].seed

\* Short of a crash (which can lose the answer that shows a new microblock),
\* what is published is what the wallet was shown when it signed.
PublishedIsSigned ==
    failures = 0 => \A m \in wire \cup chain : m.req \in Requests => m.signed = m.id

\* publishMicroblock is called once for a request (with success, or not yet
\* answered), be it with the same microblock sealed again or with a new one, and
\* once more for each crash, lost answer or failed operation at most, though
\* nothing but the status column, written late and not awaited, prevents it.
PublishedOnce ==
    \A r \in Requests : Cardinality({m \in wire \cup chain : m.req = r}) <= 1 + failures

(***************************************************************************)
(* Claims of the comments that the code does not keep.                     *)
(***************************************************************************)

\* A wallet's handshake for a pending request of a live application is not
\* answered by an error.
PendingIsServed ==
    [][\A h \in Handlers :
          /\ call[h].pc = "findRequest" /\ call[h].op = "handshake"
          /\ IsPending(call[h].req) /\ rows[call[h].req].app \in apps
          /\ failures' = failures
          => call'[h].pc \in {"findRequest", "findApplication"}]_vars

\* When the wallet is told that its microblock is published, the request is
\* marked as published.
AnsweredIsMarked ==
    \A r \in Requests : wallet[r].kind = "published" => ~IsPending(r)

(***************************************************************************)
(* Liveness, with no crash and no fault.                                   *)
(***************************************************************************)

\* Every call is answered.
EveryCallIsAnswered ==
    \A h \in Handlers : call[h].pc # "idle" ~> call[h].pc = "idle"

\* The request of every microblock the wallet endorsed and the chain took is
\* completed in the end, unless it is deleted.
PublicationIsRecorded ==
    \A r \in Requests : (\E m \in chain : m.req = r) ~> ~IsPending(r)
=============================================================================
