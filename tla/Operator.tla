------------------------------- MODULE Operator -------------------------------
(***************************************************************************)
(* The operator: the calls of clients pass ApiKeyGuard (ApiKeys) before    *)
(* they anchor (Anchoring), the messages of wallets do not, and the        *)
(* administrator changes the tables of both.  Each slot serves one call,   *)
(* first in the guard and then in the route; the two components share the  *)
(* table of applications and the process.                                  *)
(***************************************************************************)
EXTENDS Naturals

CONSTANTS
    Ids, Apps, Wallets, Handlers, NoId, NoApp, NoWallet, NoLimit, Limits, MaxTime,
    MaxKeyCalls, MaxKeyFailures,   \* the bounds of ApiKeys
    Requests, Ledgers, NoRequest, NoLedger, RelationsLoaded, WalletWaits,
    MaxCalls, MaxFailures          \* the bounds of Anchoring

ASSUME NullAssumption ==
    /\ NoId \notin Ids /\ NoApp \notin Apps /\ NoWallet \notin Wallets
    /\ NoRequest \notin Requests /\ NoLedger \notin Ledgers
ASSUME DataAssumption ==
    /\ Limits \subseteq Nat \cup {NoLimit} /\ NoLimit \notin Nat
    /\ Ledgers \cap Nat = {} /\ NoLedger \notin Nat
    /\ RelationsLoaded \in BOOLEAN /\ WalletWaits \in BOOLEAN
    /\ MaxCalls \in Nat /\ MaxFailures \in Nat

VARIABLES
    keys, owner, wallets, issued, now, drawn, expected, raced, keyCalls, keyFailures,
    guard,   \* guard[h]: the call of slot h in ApiKeys
    rows, marks, wallet, wire, chain, head, actors, nonce, calls, failures,
    serving  \* serving[h]: the call of slot h in Anchoring

keyVars == <<keys, owner, wallets, issued, now, drawn, expected, raced, keyCalls, keyFailures,
             guard>>
anchorVars == <<rows, marks, wallet, wire, chain, head, actors, nonce, calls, failures, serving>>
vars == <<keyVars, anchorVars>>

\* An application is a row that has a wallet, since the column is not nullable.
Applications == {a \in Apps : owner[a] # NoWallet}

Keys == INSTANCE ApiKeys WITH
    call <- guard, calls <- keyCalls, failures <- keyFailures,
    MaxCalls <- MaxKeyCalls, MaxFailures <- MaxKeyFailures

Anchor == INSTANCE AnchoringProperties WITH apps <- Applications, call <- serving

Init == Keys!Init /\ Anchor!Init

-----------------------------------------------------------------------------
(* Calls.                                                                   *)

\* The guard, and the routes that need no more of the anchoring: those that
\* read, and those of the administrator that create and toggle keys.
ServeKeys(h) ==
    /\ serving[h].pc = "idle"
    /\ \/ \E t \in Keys!Presentable : Keys!Present(h, t)
       \/ Keys!IsActiveKey(h) \/ Keys!Refused(h) \/ Keys!FindOneByKey(h)
       \/ Keys!HandledWithoutLookup(h) \/ Keys!FindWalletByApiKey(h) \/ Keys!LookupThrows(h)
       \/ Keys!ReadChain(h) \/ Keys!Handled(h)
       \/ Keys!Creation(h) \/ Keys!Toggle(h)
       \/ Keys!Fails(h)
    /\ UNCHANGED anchorVars

ServeUnguarded(h, op, l) ==  \* Mutant: the route is public.
    /\ guard[h].pc = "isActiveKey" /\ serving[h].pc = "idle"
    /\ UNCHANGED keyVars
    /\ Anchor!ClientSends(h, op, guard[h].text.app, l)

\* anchorWithWallet and anchor, with the application of the key.
ServeAnchoring(h, op, l) ==
    /\ Keys!FindApplicationByApiKey(h)
    /\ \E a \in Apps \cup {NoApp} : guard'[h].app = a /\ Anchor!ClientSends(h, op, a, l)

\* anchor needs an application: without one it throws.
ServeNoApplication(h) ==
    /\ Keys!FindApplicationByApiKey(h)
    /\ guard'[h].app = NoApp
    /\ UNCHANGED anchorVars

\* DELETE /anchorRequest/:anchorRequestId
ServeDeletion(h, r) ==
    /\ Keys!HandledWithoutLookup(h)
    /\ Anchor!DeleteAnchorRequest(r)

\* POST /protocols/wiap/v1 is public: the guard lets it through at once.
ServeWallet(h, op, r) ==
    /\ guard[h].pc = "idle"
    /\ UNCHANGED keyVars
    /\ Anchor!WalletSends(h, op, r)

Anchors(h) ==
    /\ UNCHANGED keyVars
    /\ Anchor!Step(h) \/ Anchor!Fails(h)

-----------------------------------------------------------------------------
(* The administrator.  A deletion takes, by ON DELETE CASCADE, the keys and *)
(* the anchor requests of an application, and the applications of a wallet. *)

DeleteKey(i) == Keys!DeleteKey(i) /\ UNCHANGED anchorVars

DeleteApplication(a) ==
    /\ Keys!DeleteApplication(a)
    /\ Anchor!DeleteApplications({a})

DeleteWalletOnly(w) ==  \* Mutant: the cascade stops at the applications.
    /\ Keys!DeleteWallet(w)
    /\ UNCHANGED anchorVars

DeleteWallet(w) ==
    /\ Keys!DeleteWallet(w)
    /\ LET gone == {a \in Apps : owner[a] = w} IN
         \/ gone = {} /\ UNCHANGED anchorVars
         \/ Anchor!DeleteApplications(gone)

\* save() of an application that exists gives it another wallet.
CreateApplication(a, w) ==
    /\ Keys!CreateApplication(a, w)
    /\ \/ a \in Applications /\ UNCHANGED anchorVars
       \/ Anchor!CreateApplication(a)

Admin ==
    \/ \E i \in Ids : DeleteKey(i)
    \/ \E a \in Apps : DeleteApplication(a) \/ \E w \in Wallets : CreateApplication(a, w)
    \/ \E w \in Wallets : DeleteWallet(w)

-----------------------------------------------------------------------------
(* The database, the chain, the clock and the process.                      *)

Elsewhere ==
    /\ UNCHANGED keyVars
    /\ (\E k \in marks : Anchor!ApplyMark(k)) \/ Anchor!Node

Tick == Keys!Tick /\ UNCHANGED anchorVars

Crash == Keys!Crash /\ Anchor!Crash

Next ==
    \/ \E h \in Handlers :
         \/ ServeKeys(h) \/ ServeNoApplication(h) \/ Anchors(h)
         \/ \E op \in Anchor!ClientOps, l \in Ledgers \cup {NoLedger} : ServeAnchoring(h, op, l)
         \/ \E r \in Requests : ServeDeletion(h, r)
         \/ \E op \in Anchor!WalletOps, r \in Requests : ServeWallet(h, op, r)
    \/ Admin
    \/ Elsewhere
    \/ Tick
    \/ Crash

Spec == Init /\ [][Next]_vars

-----------------------------------------------------------------------------
(* Properties.                                                              *)

\* Seen from the anchoring alone, an operator with keys, wallets and their
\* deletion behaves as Anchoring says, so that all that holds of it holds here:
\* ApiKeyGuard and the cascades are no more than the environment it assumes.
ImplementsAnchoring == Anchor!Init /\ [][Anchor!Next]_(Anchor!vars)

\* A request is only created by a call that presented a key an administrator
\* was given, and with the application that key was issued for, or none: by
\* anchor many awaits after ApiKeyGuard, when key and application may be gone
\* or created again.
RequestIsOfItsKey ==
    [][\A r \in Requests :
          rows[r].status = "unused" /\ rows'[r].status # "unused" =>
              \E h \in Handlers :
                  /\ guard[h].pc = "handle" /\ serving[h].pc \in {"store", "awaitNode"}
                  /\ serving'[h].pc = "idle"
                  /\ guard[h].text \in issued
                  /\ rows'[r].app \in {guard[h].text.app, NoApp}]_vars

\* A request that names an application can be served: the application exists,
\* and so does the wallet whose seed signs for it.
RequestHasWallet ==
    \A r \in Requests :
        Anchor!Exists(r) /\ rows[r].app # NoApp => owner[rows[r].app] \in wallets
=============================================================================
