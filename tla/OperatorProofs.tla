---------------------------- MODULE OperatorProofs ----------------------------
(***************************************************************************)
(* Proofs about Operator, for any sets and bounds.  It implements          *)
(* Anchoring, for the guard, the tables of the administrator and the       *)
(* cascades change of the anchoring only what its own actions change.  The *)
(* requests of applications have a wallet, and are of the key that was     *)
(* presented.                                                              *)
(***************************************************************************)
EXTENDS Operator, TLAPS

\* The foreign key of the applications: each has a wallet that exists, which is
\* not null.
TablesTyped ==
    /\ wallets \subseteq Wallets
    /\ owner \in [Apps -> wallets \cup {NoWallet}]

\* The calls never touch the two tables.
LEMMA CallsKeepTables ==
    ASSUME NEW h \in Handlers,
           \/ ServeKeys(h) \/ ServeNoApplication(h) \/ Anchors(h)
           \/ \E op \in Anchor!ClientOps, l \in Ledgers \cup {NoLedger} : ServeAnchoring(h, op, l)
           \/ \E r \in Requests : ServeDeletion(h, r)
           \/ \E op \in Anchor!WalletOps, r \in Requests : ServeWallet(h, op, r)
    PROVE  owner' = owner /\ wallets' = wallets
<1>1. CASE ServeKeys(h)
  BY <1>1
  DEF ServeKeys, Keys!Present, Keys!IsActiveKey, Keys!Refused, Keys!FindOneByKey,
      Keys!HandledWithoutLookup, Keys!FindWalletByApiKey, Keys!LookupThrows, Keys!ReadChain,
      Keys!Handled, Keys!Creation, Keys!CreateApiKey, Keys!SaveKey, Keys!SaveFails,
      Keys!FormatKey, Keys!ReloadKey, Keys!Toggle, Keys!ReadActivity, Keys!WriteActivity,
      Keys!Fails, Keys!Unchanged, Keys!tables
<1>2. CASE \/ ServeNoApplication(h)
           \/ \E op \in Anchor!ClientOps, l \in Ledgers \cup {NoLedger} : ServeAnchoring(h, op, l)
  BY <1>2 DEF ServeNoApplication, ServeAnchoring, Keys!FindApplicationByApiKey, Keys!Unchanged
<1>3. CASE \E r \in Requests : ServeDeletion(h, r)
  BY <1>3 DEF ServeDeletion, Keys!HandledWithoutLookup, Keys!Unchanged
<1>4. CASE Anchors(h) \/ \E op \in Anchor!WalletOps, r \in Requests : ServeWallet(h, op, r)
  BY <1>4 DEF Anchors, ServeWallet, keyVars
<1>. QED
  BY <1>1, <1>2, <1>3, <1>4

LEMMA OthersKeepTables ==
    ASSUME Elsewhere \/ Tick \/ Crash \/ (\E i \in Ids : DeleteKey(i)) \/ UNCHANGED vars
    PROVE  owner' = owner /\ wallets' = wallets
BY DEF Elsewhere, Tick, Crash, DeleteKey, vars, keyVars, Keys!Tick, Keys!Crash, Keys!DeleteKey,
       Keys!Unchanged, Keys!tables

LEMMA TablesInit == Init => TablesTyped
BY DEF Init, Keys!Init, TablesTyped

LEMMA TablesNext == TablesTyped /\ [Next]_vars => TablesTyped'
<1>. SUFFICES ASSUME TablesTyped, [Next]_vars PROVE TablesTyped'
  OBVIOUS
<1>1. CASE owner' = owner /\ wallets' = wallets
  BY <1>1 DEF TablesTyped
<1>2. ASSUME NEW a \in Apps, DeleteApplication(a) PROVE TablesTyped'
  BY <1>2 DEF DeleteApplication, Keys!DeleteApplication, TablesTyped
<1>3. ASSUME NEW a \in Apps, NEW w \in Wallets, CreateApplication(a, w) PROVE TablesTyped'
  BY <1>3 DEF CreateApplication, Keys!CreateApplication, TablesTyped
<1>4. ASSUME NEW w \in Wallets, DeleteWallet(w) PROVE TablesTyped'
  BY <1>4 DEF DeleteWallet, Keys!DeleteWallet, TablesTyped
<1>. QED
  BY <1>1, <1>2, <1>3, <1>4, CallsKeepTables, OthersKeepTables DEF Next, Admin

-----------------------------------------------------------------------------
(* What a step of the operator is to the anchoring.                         *)

LEMMA SameApplications ==
    ASSUME owner' = owner
    PROVE  Applications' = Applications
BY DEF Applications

\* A step that the anchoring does not see.
LEMMA Stutters ==
    ASSUME Applications' = Applications, UNCHANGED anchorVars
    PROVE  UNCHANGED Anchor!vars
BY DEF anchorVars, Anchor!vars

LEMMA CallsRefine ==
    ASSUME NEW h \in Handlers,
           \/ ServeKeys(h) \/ ServeNoApplication(h) \/ Anchors(h)
           \/ \E op \in Anchor!ClientOps, l \in Ledgers \cup {NoLedger} : ServeAnchoring(h, op, l)
           \/ \E r \in Requests : ServeDeletion(h, r)
           \/ \E op \in Anchor!WalletOps, r \in Requests : ServeWallet(h, op, r)
    PROVE  Anchor!Next \/ UNCHANGED Anchor!vars
<1>0. Applications' = Applications
  BY CallsKeepTables, SameApplications
<1>1. CASE ServeKeys(h) \/ ServeNoApplication(h)
  BY <1>0, <1>1, Stutters DEF ServeKeys, ServeNoApplication
<1>2. CASE Anchors(h)
  BY <1>2 DEF Anchors, Anchor!Next
<1>3. ASSUME NEW op \in Anchor!ClientOps, NEW l \in Ledgers \cup {NoLedger},
             ServeAnchoring(h, op, l)
      PROVE  Anchor!Next
  BY <1>3 DEF ServeAnchoring, Anchor!Next, Anchor!Receive
<1>4. ASSUME NEW r \in Requests, ServeDeletion(h, r) PROVE Anchor!Next
  BY <1>4 DEF ServeDeletion, Anchor!Next, Anchor!Admin
<1>5. ASSUME NEW op \in Anchor!WalletOps, NEW r \in Requests, ServeWallet(h, op, r)
      PROVE  Anchor!Next
  BY <1>5 DEF ServeWallet, Anchor!Next, Anchor!Receive
<1>. QED
  BY <1>1, <1>2, <1>3, <1>4, <1>5

\* The applications of a wallet, like a single one, are a set of applications
\* that the anchoring deletes together.
LEMMA AdminRefines ==
    ASSUME TablesTyped, Admin
    PROVE  Anchor!Next \/ UNCHANGED Anchor!vars
<1>1. ASSUME NEW i \in Ids, DeleteKey(i) PROVE UNCHANGED Anchor!vars
  BY <1>1, OthersKeepTables, SameApplications, Stutters DEF DeleteKey
<1>2. ASSUME NEW A, Anchor!DeleteApplications(A) PROVE Anchor!Next
  <2>1. A \in SUBSET Applications
    BY <1>2 DEF Anchor!DeleteApplications
  <2>. QED
    BY <1>2, <2>1 DEF Anchor!Next, Anchor!Admin
<1>3. ASSUME NEW a \in Apps, DeleteApplication(a) PROVE Anchor!Next
  BY <1>2, <1>3 DEF DeleteApplication
<1>4. ASSUME NEW w \in Wallets, DeleteWallet(w) PROVE Anchor!Next \/ UNCHANGED Anchor!vars
  <2>. DEFINE gone == {a \in Apps : owner[a] = w}
  <2>1. owner' = [a \in Apps |-> IF a \in gone THEN NoWallet ELSE owner[a]]
    BY <1>4 DEF DeleteWallet, Keys!DeleteWallet
  <2>2. CASE gone = {} /\ UNCHANGED anchorVars
    <3>1. Applications' = Applications
      BY <2>1, <2>2 DEF Applications
    <3>. QED
      BY <2>2, <3>1, Stutters
  <2>3. CASE Anchor!DeleteApplications(gone)
    BY <1>2, <2>3
  <2>. QED
    BY <1>4, <2>2, <2>3 DEF DeleteWallet
<1>5. ASSUME NEW a \in Apps, NEW w \in Wallets, CreateApplication(a, w)
      PROVE  Anchor!Next \/ UNCHANGED Anchor!vars
  <2>1. CASE a \in Applications /\ UNCHANGED anchorVars
    <3>1. owner' = [owner EXCEPT ![a] = w] /\ w # NoWallet
      BY <1>5, NullAssumption DEF CreateApplication, Keys!CreateApplication
    <3>2. Applications' = Applications
      BY <2>1, <3>1 DEF Applications, TablesTyped
    <3>. QED
      BY <2>1, <3>2, Stutters
  <2>2. CASE Anchor!CreateApplication(a)
    BY <2>2 DEF Anchor!Next, Anchor!Admin
  <2>. QED
    BY <1>5, <2>1, <2>2 DEF CreateApplication
<1>. QED
  BY <1>1, <1>3, <1>4, <1>5 DEF Admin

LEMMA NextRefines == TablesTyped /\ [Next]_vars => [Anchor!Next]_(Anchor!vars)
<1>. SUFFICES ASSUME TablesTyped, [Next]_vars
              PROVE  Anchor!Next \/ UNCHANGED Anchor!vars
  OBVIOUS
<1>1. CASE Elsewhere
  BY <1>1 DEF Elsewhere, Anchor!Next
<1>2. CASE Tick \/ UNCHANGED vars
  <2>1. UNCHANGED anchorVars
    BY <1>2 DEF Tick, vars
  <2>. QED
    BY <1>2, <2>1, OthersKeepTables, SameApplications, Stutters
<1>3. CASE Crash
  BY <1>3 DEF Crash, Anchor!Next
<1>. QED
  BY <1>1, <1>2, <1>3, CallsRefine, AdminRefines DEF Next

\* All that holds of Anchoring holds of the operator.
THEOREM AnchoringImplemented == Spec => ImplementsAnchoring
<1>1. Init => Anchor!Init
  BY DEF Init
<1>. QED
  BY <1>1, TablesInit, TablesNext, NextRefines, PTL DEF Spec, ImplementsAnchoring

-----------------------------------------------------------------------------
(* The rows of the anchor requests.  What this needs of their type is that  *)
(* rows is a table of records with seven columns.                           *)

Columns == {"status", "app", "vb", "seed", "built", "published", "vbId"}
IsRow(row) == row = [f \in Columns |-> row[f]]

RowsShaped ==
    /\ rows = [r \in Requests |-> rows[r]]
    /\ \A r \in Requests : IsRow(rows[r])

LEMMA UnusedIsRow ==
    /\ IsRow(Anchor!Unused) /\ IsRow(Anchor!Deleted)
    /\ Anchor!Deleted.status = "deleted"
BY DEF Anchor!Unused, Anchor!Deleted, IsRow, Columns

\* A row that exists after a step existed before, with the same application, or
\* has none or one that exists.
RowKept(r) ==
    Anchor!Exists(r)' =>
        \/ Anchor!Exists(r) /\ rows'[r].app = rows[r].app
        \/ rows'[r].app \in Applications \cup {NoApp}

RowsKept == RowsShaped' /\ \A r \in Requests : RowKept(r)

LEMMA SameRowsKept ==
    ASSUME RowsShaped, rows' = rows
    PROVE  RowsKept
BY DEF RowsShaped, RowsKept, RowKept, Anchor!Exists

\* One row is replaced.
LEMMA RowReplaced ==
    ASSUME RowsShaped, NEW q \in Requests, NEW row, IsRow(row), rows' = [rows EXCEPT ![q] = row],
           \/ row.status = "deleted"
           \/ Anchor!Exists(q) /\ row.app = rows[q].app
           \/ row.app \in Applications \cup {NoApp}
    PROVE  RowsKept
<1>1. \A r \in Requests : rows'[r] = IF r = q THEN row ELSE rows[r]
  BY DEF RowsShaped
<1>2. rows' = [r \in Requests |-> rows'[r]]
  BY DEF RowsShaped
<1>. QED
  BY <1>1, <1>2 DEF RowsShaped, RowsKept, RowKept, Anchor!Exists

LEMMA InsertsKeep ==
    ASSUME RowsShaped, NEW h \in Handlers, NEW r \in Requests,
           Anchor!StoreAnchorRequest(h, r) \/ Anchor!SaveCompletedAnchorRequest(h, r)
    PROVE  RowsKept
<1>1. CASE Anchor!StoreAnchorRequest(h, r)
  <2>. DEFINE row == [Anchor!Unused EXCEPT !.status = "pending", !.app = serving[h].app,
                                           !.vb = serving[h].vb]
  <2>1. rows' = [rows EXCEPT ![r] = row] /\ serving[h].app \in Applications \cup {NoApp}
    BY <1>1 DEF Anchor!StoreAnchorRequest
  <2>2. IsRow(row) /\ row.app = serving[h].app
    BY UnusedIsRow DEF IsRow, Columns
  <2>. HIDE DEF row
  <2>. QED
    BY <2>1, <2>2, RowReplaced
<1>2. CASE Anchor!SaveCompletedAnchorRequest(h, r)
  <2>. DEFINE vbId == IF serving[h].vb \in Ledgers THEN serving[h].vb ELSE serving[h].mb.id
              row(v) == [Anchor!Unused EXCEPT
                           !.status = "completed", !.app = serving[h].app, !.vb = serving[h].vb,
                           !.published = serving[h].mb.id, !.vbId = v]
  <2>1. rows' = [rows EXCEPT ![r] = row(vbId)] /\ serving[h].app \in Applications
    BY <1>2 DEF Anchor!SaveCompletedAnchorRequest
  <2>2. \A v : IsRow(row(v)) /\ row(v).app = serving[h].app
    BY UnusedIsRow DEF IsRow, Columns
  <2>. HIDE DEF row, vbId
  <2>. QED
    BY <2>1, <2>2, RowReplaced
<1>. QED
  BY <1>1, <1>2

LEMMA UpdatesKeep ==
    ASSUME RowsShaped, NEW h \in Handlers,
           Anchor!SaveGeneratedSeed(h) \/ Anchor!BuildMicroblock(h) \/ Anchor!AskActorKey(h)
    PROVE  RowsKept
<1>1. ASSUME NEW q, NEW x, Anchor!SaveGenesisSeed(q, x) \/ Anchor!SaveMicroblock(q, x)
      PROVE  RowsKept
  <2>1. CASE rows' = rows
    BY <2>1, SameRowsKept
  <2>2. CASE /\ Anchor!Exists(q)
             /\ \/ rows' = [rows EXCEPT ![q].seed = x]
                \/ rows' = [rows EXCEPT ![q].built = x]
    <3>1. /\ rows' = [r \in Requests |-> rows'[r]]
          /\ \A r \in Requests : /\ IsRow(rows'[r]) /\ rows'[r].app = rows[r].app
                                 /\ rows'[r].status = rows[r].status
      BY <2>2 DEF RowsShaped, IsRow, Columns
    <3>. QED
      BY <3>1 DEF RowsKept, RowsShaped, RowKept, Anchor!Exists
  <2>. QED
    BY <1>1, <2>1, <2>2 DEF Anchor!SaveGenesisSeed, Anchor!SaveMicroblock
<1>. QED
  BY <1>1 DEF Anchor!SaveGeneratedSeed, Anchor!BuildMicroblock, Anchor!AskActorKey

LEMMA MarkKeeps ==
    ASSUME RowsShaped, NEW k, Anchor!ApplyMark(k)
    PROVE  RowsKept
<1>1. CASE rows' = rows
  BY <1>1, SameRowsKept
<1>2. CASE /\ Anchor!Exists(k.req)
           /\ rows' = [rows EXCEPT ![k.req].status = "completed", ![k.req].published = k.mb.id]
  <2>1. /\ rows' = [r \in Requests |-> rows'[r]]
        /\ \A r \in Requests : /\ IsRow(rows'[r]) /\ rows'[r].app = rows[r].app
                               /\ r # k.req => rows'[r] = rows[r]
    BY <1>2 DEF RowsShaped, IsRow, Columns
  <2>. QED
    BY <1>2, <2>1 DEF RowsKept, RowsShaped, RowKept, Anchor!Exists
<1>. QED
  BY <1>1, <1>2 DEF Anchor!ApplyMark

LEMMA StepKeepsRows ==
    ASSUME RowsShaped, NEW h \in Handlers, Anchor!Step(h) \/ Anchor!Fails(h)
    PROVE  RowsKept
<1>1. \/ \E r \in Requests :
             Anchor!StoreAnchorRequest(h, r) \/ Anchor!SaveCompletedAnchorRequest(h, r)
      \/ Anchor!SaveGeneratedSeed(h) \/ Anchor!BuildMicroblock(h) \/ Anchor!AskActorKey(h)
      \/ rows' = rows
  BY DEF Anchor!Step, Anchor!Fails, Anchor!FindRequest, Anchor!FindApplicationByVbId,
         Anchor!LoadApplicationLedger, Anchor!ReadGenesisSeed, Anchor!SealAndPublish,
         Anchor!MarkAsPublished, Anchor!Answer, Anchor!BuildAndPublish, Anchor!Throws, Anchor!dbVars
<1>. QED
  BY <1>1, InsertsKeep, UpdatesKeep, SameRowsKept

\* Every step but the deletion of applications.
LEMMA CallsKeepRows ==
    ASSUME RowsShaped, NEW h \in Handlers,
           \/ ServeKeys(h) \/ ServeNoApplication(h) \/ Anchors(h)
           \/ \E op \in Anchor!ClientOps, l \in Ledgers \cup {NoLedger} : ServeAnchoring(h, op, l)
           \/ \E r \in Requests : ServeDeletion(h, r)
           \/ \E op \in Anchor!WalletOps, r \in Requests : ServeWallet(h, op, r)
    PROVE  RowsKept
<1>1. CASE Anchors(h)
  BY <1>1, StepKeepsRows DEF Anchors
<1>2. ASSUME NEW r \in Requests, ServeDeletion(h, r) PROVE RowsKept
  <2>1. rows' = [rows EXCEPT ![r] = Anchor!Deleted]
    BY <1>2 DEF ServeDeletion, Anchor!DeleteAnchorRequest
  <2>. QED
    BY <2>1, UnusedIsRow, RowReplaced
<1>3. CASE rows' = rows
  BY <1>3, SameRowsKept
<1>. QED
  BY <1>1, <1>2, <1>3
  DEF ServeKeys, ServeNoApplication, ServeAnchoring, ServeWallet, anchorVars,
      Anchor!ClientSends, Anchor!WalletSends, Anchor!dbVars

LEMMA OthersKeepRows ==
    ASSUME RowsShaped,
           Elsewhere \/ Tick \/ Crash \/ (\E i \in Ids : DeleteKey(i)) \/ UNCHANGED vars
    PROVE  RowsKept
<1>1. ASSUME NEW k \in marks, Anchor!ApplyMark(k) PROVE RowsKept
  BY <1>1, MarkKeeps
<1>2. CASE rows' = rows
  BY <1>2, SameRowsKept
<1>. QED
  BY <1>1, <1>2
  DEF Elsewhere, Tick, Crash, DeleteKey, vars, anchorVars, Anchor!Crash, Anchor!Node,
      Anchor!NodeAccepts, Anchor!NodeRefuses, Anchor!dbVars

-----------------------------------------------------------------------------
(* The requests have applications, and these have wallets.                  *)

TablesInv ==
    /\ TablesTyped
    /\ RowsShaped
    /\ Anchor!RequestHasApplication

LEMMA TablesInvInit == Init => TablesInv
<1>. SUFFICES ASSUME Init PROVE TablesInv
  OBVIOUS
<1>1. rows = [r \in Requests |-> Anchor!Unused]
  BY DEF Init, Anchor!Init
<1>2. Anchor!Unused.status = "unused"
  BY DEF Anchor!Unused
<1>. QED
  BY <1>1, <1>2, UnusedIsRow, TablesInit
  DEF TablesInv, RowsShaped, Anchor!RequestHasApplication, Anchor!Exists

LEMMA ApplicationsKept ==
    ASSUME TablesInv, RowsKept, Applications \subseteq Applications'
    PROVE  Anchor!RequestHasApplication'
BY DEF TablesInv, RowsKept, RowKept, Anchor!RequestHasApplication, Anchor!Exists

\* What is deleted with the applications.
LEMMA CascadeKeeps ==
    ASSUME TablesInv, NEW A, Anchor!DeleteApplications(A)
    PROVE  RowsShaped' /\ Anchor!RequestHasApplication'
<1>1. /\ Applications' = Applications \ A
      /\ rows' = [r \in Requests |-> IF Anchor!Exists(r) /\ rows[r].app \in A
                                     THEN Anchor!Deleted ELSE rows[r]]
  BY DEF Anchor!DeleteApplications
<1>2. RowsShaped'
  BY <1>1, UnusedIsRow DEF TablesInv, RowsShaped
<1>3. Anchor!RequestHasApplication'
  BY <1>1, UnusedIsRow DEF TablesInv, Anchor!RequestHasApplication, Anchor!Exists
<1>. QED
  BY <1>2, <1>3

LEMMA TablesInvNext == TablesInv /\ [Next]_vars => TablesInv'
<1>. SUFFICES ASSUME TablesInv, [Next]_vars PROVE RowsShaped' /\ Anchor!RequestHasApplication'
  BY TablesNext DEF TablesInv
<1>0. TablesTyped /\ RowsShaped
  BY DEF TablesInv
<1>1. ASSUME RowsKept, Applications \subseteq Applications'
      PROVE  RowsShaped' /\ Anchor!RequestHasApplication'
  BY <1>1, ApplicationsKept DEF RowsKept
<1>2. ASSUME NEW h \in Handlers,
             \/ ServeKeys(h) \/ ServeNoApplication(h) \/ Anchors(h)
             \/ \E op \in Anchor!ClientOps, l \in Ledgers \cup {NoLedger} :
                    ServeAnchoring(h, op, l)
             \/ \E r \in Requests : ServeDeletion(h, r)
             \/ \E op \in Anchor!WalletOps, r \in Requests : ServeWallet(h, op, r)
      PROVE  RowsShaped' /\ Anchor!RequestHasApplication'
  <2>1. RowsKept
    BY <1>0, <1>2, CallsKeepRows
  <2>2. Applications' = Applications
    BY <1>2, CallsKeepTables, SameApplications
  <2>. QED
    BY <1>1, <2>1, <2>2
<1>3. CASE Elsewhere \/ Tick \/ Crash \/ (\E i \in Ids : DeleteKey(i)) \/ UNCHANGED vars
  <2>1. RowsKept
    BY <1>0, <1>3, OthersKeepRows
  <2>2. Applications' = Applications
    BY <1>3, OthersKeepTables, SameApplications
  <2>. QED
    BY <1>1, <2>1, <2>2
<1>4. ASSUME NEW a \in Apps, DeleteApplication(a)
      PROVE  RowsShaped' /\ Anchor!RequestHasApplication'
  BY <1>4, CascadeKeeps DEF DeleteApplication
<1>5. ASSUME NEW a \in Apps, NEW w \in Wallets, CreateApplication(a, w)
      PROVE  RowsShaped' /\ Anchor!RequestHasApplication'
  <2>1. RowsKept
    BY <1>0, <1>5, SameRowsKept DEF CreateApplication, anchorVars, Anchor!CreateApplication
  <2>2. owner' = [owner EXCEPT ![a] = w] /\ w # NoWallet
    BY <1>5, NullAssumption DEF CreateApplication, Keys!CreateApplication
  <2>3. Applications \subseteq Applications'
    BY <1>0, <2>2 DEF Applications, TablesTyped
  <2>. QED
    BY <1>1, <2>1, <2>3
<1>6. ASSUME NEW w \in Wallets, DeleteWallet(w)
      PROVE  RowsShaped' /\ Anchor!RequestHasApplication'
  <2>. DEFINE gone == {a \in Apps : owner[a] = w}
  <2>1. CASE gone = {} /\ UNCHANGED anchorVars
    <3>1. RowsKept
      BY <1>0, <2>1, SameRowsKept DEF anchorVars
    <3>2. owner' = [a \in Apps |-> IF a \in gone THEN NoWallet ELSE owner[a]]
      BY <1>6 DEF DeleteWallet, Keys!DeleteWallet
    <3>3. Applications' = Applications
      BY <2>1, <3>2 DEF Applications
    <3>. QED
      BY <1>1, <3>1, <3>3
  <2>2. CASE Anchor!DeleteApplications(gone)
    BY <2>2, CascadeKeeps
  <2>. QED
    BY <1>6, <2>1, <2>2 DEF DeleteWallet
<1>. QED
  BY <1>2, <1>3, <1>4, <1>5, <1>6 DEF Next, Admin

\* A request that names an application can be signed for: the cascades leave no
\* request without its application, and no application without its wallet.
THEOREM RequestHasWalletHolds == Spec => []RequestHasWallet
<1>1. TablesInv => RequestHasWallet
  BY DEF TablesInv, TablesTyped, RequestHasWallet, Anchor!RequestHasApplication, Applications
<1>. QED
  BY <1>1, TablesInvInit, TablesInvNext, PTL DEF Spec

-----------------------------------------------------------------------------
(* What a step of the operator is to the keys.                              *)

LEMMA KeysRefined == [Next]_vars => [Keys!Next]_(Keys!vars)
<1>. SUFFICES ASSUME [Next]_vars
              PROVE  Keys!Next \/ UNCHANGED Keys!vars
  OBVIOUS
<1>1. ASSUME UNCHANGED keyVars PROVE UNCHANGED Keys!vars
  BY <1>1 DEF keyVars, Keys!vars
<1>2. ASSUME NEW h \in Handlers,
             \/ ServeKeys(h) \/ ServeNoApplication(h)
             \/ \E op \in Anchor!ClientOps, l \in Ledgers \cup {NoLedger} :
                    ServeAnchoring(h, op, l)
             \/ \E r \in Requests : ServeDeletion(h, r)
      PROVE  Keys!Next
  BY <1>2 DEF ServeKeys, ServeNoApplication, ServeAnchoring, ServeDeletion, Keys!Next, Keys!Guard
<1>3. ASSUME NEW h \in Handlers,
             \/ Anchors(h)
             \/ \E op \in Anchor!WalletOps, r \in Requests : ServeWallet(h, op, r)
      PROVE  UNCHANGED Keys!vars
  BY <1>1, <1>3 DEF Anchors, ServeWallet
<1>4. CASE Admin
  BY <1>4 DEF Admin, DeleteKey, DeleteApplication, CreateApplication, DeleteWallet,
              Keys!Next, Keys!Admin
<1>5. CASE Elsewhere
  BY <1>1, <1>5 DEF Elsewhere
<1>6. CASE Tick \/ Crash
  BY <1>6 DEF Tick, Crash, Keys!Next
<1>7. CASE UNCHANGED vars
  BY <1>1, <1>7 DEF vars
<1>. QED
  BY <1>2, <1>3, <1>4, <1>5, <1>6, <1>7 DEF Next

-----------------------------------------------------------------------------
(* A key that was issued stays the key of its application, and a call keeps *)
(* the key it presented.                                                    *)

KeyColumns == {"status", "app", "secret", "formatted", "isActive", "activeUntil"}
IsKey(row) == row = [f \in KeyColumns |-> row[f]]

KeysShaped ==
    /\ keys = [i \in Ids |-> keys[i]]
    /\ \A i \in Ids : IsKey(keys[i])

GuardFields ==
    {"pc", "id", "text", "attached", "app", "wallet", "until", "isActive", "since"}
IsGuard(c) == c = [f \in GuardFields |-> c[f]]

GuardShaped ==
    /\ guard = [h \in Handlers |-> guard[h]]
    /\ \A h \in Handlers : IsGuard(guard[h])

\* Each stored key has a secret that was drawn.
SecretsDrawn == \A i \in Ids : keys[i].status = "stored" => keys[i].secret # 0

\* The row of an issued key is gone, or is that of the application in its text.
IssuedFits(t) ==
    /\ t.id \in Ids /\ keys[t.id].status # "unused"
    /\ keys[t.id].status = "stored" => keys[t.id].app = t.app

Presents(c) == c.pc \in {"isActiveKey", "findOneByKey", "admitted", "handle", "readChain"}

\* Before the guard has compared it, a text may be a guess, or none.
Guessed(t) == t = Keys!NoText \/ (t.id \in Ids /\ t.secret = 0)

GuardFits(c) ==
    /\ Presents(c) =>
         /\ c.id = c.text.id
         /\ c.text \in issued \/ (c.pc = "isActiveKey" /\ Guessed(c.text))
    /\ c.pc = "handle" => c.app \in {c.text.app, NoApp}
    /\ c.pc \in {"format", "reload"} => c.id \in Ids /\ keys[c.id].status # "unused"

KeysInv ==
    /\ KeysShaped /\ GuardShaped
    /\ SecretsDrawn /\ drawn \in Nat
    /\ \A t \in issued : IssuedFits(t)
    /\ \A h \in Handlers : GuardFits(guard[h])

LEMMA KeysInvInit == Init => KeysInv
<1>1. IsKey(Keys!Unused) /\ IsGuard(Keys!Idle) /\ Keys!Idle.pc = "idle"
  BY DEF Keys!Unused, Keys!Idle, IsKey, KeyColumns, IsGuard, GuardFields
<1>2. Keys!Unused.status = "unused"
  BY DEF Keys!Unused
<1>. QED
  BY <1>1, <1>2
  DEF SecretsDrawn, Init, Keys!Init, KeysInv, KeysShaped, GuardShaped, GuardFits, Presents

\* A row in use keeps its application until it is deleted, and stays deleted.
KeyKept(i) ==
    keys[i].status # "unused" =>
        /\ keys'[i].status # "unused"
        /\ keys'[i].status = "stored" => keys[i].status = "stored" /\ keys'[i].app = keys[i].app

KeysKept == KeysShaped' /\ SecretsDrawn' /\ \A i \in Ids : KeyKept(i)

LEMMA SameKeysKept ==
    ASSUME KeysShaped, SecretsDrawn, keys' = keys
    PROVE  KeysKept
BY DEF KeysShaped, SecretsDrawn, KeysKept, KeyKept

\* Two columns that are written on their own.
LEMMA ColumnKeepsKeys ==
    ASSUME KeysShaped, SecretsDrawn, NEW i, NEW x,
           \/ keys' = [keys EXCEPT ![i].formatted = x]
           \/ keys' = [keys EXCEPT ![i].isActive = x]
    PROVE  KeysKept
<1>1. ASSUME NEW j \in Ids
      PROVE  /\ keys'[j].status = keys[j].status /\ keys'[j].app = keys[j].app
             /\ keys'[j].secret = keys[j].secret /\ IsKey(keys'[j])
  BY DEF KeysShaped, IsKey, KeyColumns
<1>2. keys' = [j \in Ids |-> keys'[j]]
  BY DEF KeysShaped
<1>. QED
  BY <1>1, <1>2 DEF KeysShaped, SecretsDrawn, KeysKept, KeyKept

\* What the steps of the keys are to their rows.
LEMMA KeysNextKeeps ==
    ASSUME KeysInv, Keys!Next
    PROVE  KeysKept
<1>0. KeysShaped /\ SecretsDrawn /\ drawn \in Nat
  BY DEF KeysInv
<1>1. ASSUME NEW h \in Handlers, NEW i \in Ids, Keys!SaveKey(h, i) PROVE KeysKept
  <2>. DEFINE row == [status |-> "stored", app |-> guard[h].app, secret |-> drawn + 1,
                      formatted |-> FALSE, isActive |-> TRUE, activeUntil |-> guard[h].until]
  <2>1. keys' = [keys EXCEPT ![i] = row] /\ keys[i].status = "unused"
    BY <1>1 DEF Keys!SaveKey
  <2>2. IsKey(row) /\ row.secret # 0
    BY <1>0 DEF IsKey, KeyColumns
  <2>. HIDE DEF row
  <2>. QED
    BY <1>0, <2>1, <2>2 DEF KeysShaped, SecretsDrawn, KeysKept, KeyKept
<1>2. ASSUME NEW h \in Handlers, Keys!FormatKey(h) \/ Keys!WriteActivity(h) PROVE KeysKept
  <2>1. \/ keys' = keys
        \/ keys' = [keys EXCEPT ![guard[h].id].formatted = Keys!Stored(guard[h].id)]
        \/ keys' = [keys EXCEPT ![guard[h].id].isActive = ~guard[h].isActive]
    BY <1>2 DEF Keys!FormatKey, Keys!WriteActivity
  <2>. QED
    BY <1>0, <2>1, SameKeysKept, ColumnKeepsKeys
<1>3. ASSUME NEW gone, keys' = Keys!WithoutKeys(gone) PROVE KeysKept
  <2>1. IsKey(Keys!Deleted) /\ Keys!Deleted.status = "deleted"
    BY DEF Keys!Deleted, Keys!Unused, IsKey, KeyColumns
  <2>2. keys' = [i \in Ids |-> IF i \in gone THEN Keys!Deleted ELSE keys[i]]
    BY <1>3 DEF Keys!WithoutKeys
  <2>. QED
    BY <1>0, <2>1, <2>2 DEF KeysShaped, SecretsDrawn, KeysKept, KeyKept
<1>4. CASE Keys!Admin
  <2>1. (\E gone : keys' = Keys!WithoutKeys(gone)) \/ keys' = keys
    BY <1>4 DEF Keys!Admin, Keys!DeleteKey, Keys!DeleteApplication, Keys!CreateApplication,
                Keys!DeleteWallet
  <2>. QED
    BY <1>0, <1>3, <2>1, SameKeysKept
<1>5. ASSUME NEW h \in Handlers,
             Keys!Guard(h) \/ Keys!Creation(h) \/ Keys!Toggle(h) \/ Keys!Fails(h)
      PROVE  KeysKept
  <2>1. \/ \E i \in Ids : Keys!SaveKey(h, i)
        \/ Keys!FormatKey(h) \/ Keys!WriteActivity(h)
        \/ keys' = keys
    BY <1>5
    DEF Keys!Guard, Keys!Creation, Keys!Toggle, Keys!Fails, Keys!Present, Keys!IsActiveKey,
        Keys!Refused, Keys!FindOneByKey, Keys!HandledWithoutLookup, Keys!FindApplicationByApiKey,
        Keys!FindWalletByApiKey, Keys!LookupThrows, Keys!ReadChain, Keys!Handled,
        Keys!CreateApiKey, Keys!SaveFails, Keys!ReloadKey, Keys!ReadActivity, Keys!tables
  <2>. QED
    BY <1>0, <1>1, <1>2, <2>1, SameKeysKept
<1>6. CASE keys' = keys
  BY <1>0, <1>6, SameKeysKept
<1>. QED
  BY <1>4, <1>5, <1>6 DEF Keys!Next, Keys!Tick, Keys!Crash, Keys!tables

\* A secret is drawn at a time.
LEMMA DrawnNext ==
    ASSUME drawn \in Nat, Keys!Next \/ UNCHANGED Keys!vars
    PROVE  drawn' \in Nat
<1>1. ASSUME NEW h \in Handlers, Keys!Guard(h) PROVE drawn' = drawn
  BY <1>1
  DEF Keys!Guard, Keys!Present, Keys!IsActiveKey, Keys!Refused, Keys!FindOneByKey,
      Keys!HandledWithoutLookup, Keys!FindApplicationByApiKey, Keys!FindWalletByApiKey,
      Keys!LookupThrows, Keys!ReadChain, Keys!Handled
<1>2. ASSUME NEW h \in Handlers, Keys!Creation(h) \/ Keys!Toggle(h) \/ Keys!Fails(h)
      PROVE  drawn' = drawn \/ drawn' = drawn + 1
  BY <1>2
  DEF Keys!Creation, Keys!Toggle, Keys!Fails, Keys!CreateApiKey, Keys!SaveKey, Keys!SaveFails,
      Keys!FormatKey, Keys!ReloadKey, Keys!ReadActivity, Keys!WriteActivity
<1>3. CASE Keys!Admin \/ Keys!Tick \/ Keys!Crash \/ UNCHANGED Keys!vars
  BY <1>3
  DEF Keys!Admin, Keys!DeleteKey, Keys!DeleteApplication, Keys!CreateApplication,
      Keys!DeleteWallet, Keys!Tick, Keys!Crash, Keys!vars
<1>. QED
  BY <1>1, <1>2, <1>3 DEF Keys!Next

\* The texts given to administrators, where there is no new one.
LEMMA IssuedKept ==
    ASSUME KeysInv, KeysKept, issued' = issued
    PROVE  \A t \in issued' : IssuedFits(t)'
BY DEF KeysInv, KeysKept, KeyKept, IssuedFits

\* A slot that serves no call.
LEMMA IdleFits ==
    ASSUME NEW h \in Handlers, guard'[h] = Keys!Idle
    PROVE  IsGuard(guard[h])' /\ GuardFits(guard[h])'
BY DEF Keys!Idle, IsGuard, GuardFields, GuardFits, Presents

\* The call that a step moves.
GuardGoes(h) ==
    /\ guard' = [guard EXCEPT ![h] = guard'[h]]
    /\ IsGuard(guard[h])' /\ GuardFits(guard[h])'

LEMMA GuardSteps ==
    ASSUME KeysInv, KeysKept, NEW h \in Handlers,
           Keys!Guard(h) \/ Keys!Creation(h) \/ Keys!Toggle(h) \/ Keys!Fails(h)
    PROVE  GuardGoes(h) /\ \A t \in issued' : IssuedFits(t)'
<1>0. /\ GuardShaped /\ KeysShaped /\ IsGuard(guard[h]) /\ GuardFits(guard[h])
      /\ \A t \in issued : IssuedFits(t)
  BY DEF KeysInv, GuardShaped
<1>1. ASSUME NEW c, guard' = [guard EXCEPT ![h] = c]
      PROVE  guard'[h] = c /\ guard' = [guard EXCEPT ![h] = guard'[h]]
  BY <1>0, <1>1 DEF GuardShaped
<1>2. ASSUME NEW t \in Keys!Presentable, Keys!Present(h, t) PROVE GuardGoes(h) /\ issued' = issued
  <2>. DEFINE c == [Keys!Idle EXCEPT
                        !.pc = "isActiveKey", !.id = t.id, !.text = t, !.since = now]
  <2>0. issued' = issued
    BY <1>2 DEF Keys!Present, Keys!Goto
  <2>1. guard' = [guard EXCEPT ![h] = c]
    BY <1>2 DEF Keys!Present, Keys!Goto
  <2>2. guard'[h] = c /\ guard' = [guard EXCEPT ![h] = guard'[h]]
    <3>. HIDE DEF c
    <3>. QED
      BY <1>1, <2>1
  <2>3. IsGuard(guard[h])'
    BY <1>0, <2>2 DEF IsGuard, GuardFields, Keys!Idle
  <2>4. guard'[h].pc = "isActiveKey" /\ guard'[h].id = t.id /\ guard'[h].text = t
    BY <1>0, <2>2 DEF IsGuard, GuardFields, Keys!Idle
  <2>5. t \in issued \/ Guessed(t)
    BY DEF Keys!Presentable, Keys!Guesses, Guessed
  <2>6. GuardFits(guard[h])'
    BY <2>0, <2>4, <2>5 DEF GuardFits, Presents, Guessed
  <2>. QED
    BY <2>0, <2>2, <2>3, <2>6 DEF GuardGoes
<1>3. CASE Keys!IsActiveKey(h)
  <2>. DEFINE c == [guard[h] EXCEPT !.pc = "findOneByKey"]
  <2>0. guard[h].pc = "isActiveKey" /\ issued' = issued
    BY <1>3 DEF Keys!IsActiveKey, Keys!Goto
  <2>1. guard' = [guard EXCEPT ![h] = c]
    BY <1>3 DEF Keys!IsActiveKey, Keys!Goto
  <2>2. guard'[h] = c /\ guard' = [guard EXCEPT ![h] = guard'[h]]
    <3>. HIDE DEF c
    <3>. QED
      BY <1>1, <2>1
  <2>3. IsGuard(guard[h])'
    BY <1>0, <2>2 DEF IsGuard, GuardFields
  <2>4. /\ guard'[h].pc = "findOneByKey"
        /\ guard'[h].id = guard[h].id /\ guard'[h].text = guard[h].text
    BY <1>0, <2>2 DEF IsGuard, GuardFields
  <2>5. guard[h].text \in issued
    <3>1. guard[h].text # Keys!NoText /\ keys[guard[h].text.id].status = "stored"
            /\ Keys!TextOf(guard[h].text.id) = guard[h].text
      BY <1>3 DEF Keys!IsActiveKey, Keys!IsActive, Keys!Stored
    <3>2. keys[guard[h].text.id].secret = guard[h].text.secret
      BY <3>1 DEF Keys!TextOf
    <3>. QED
      BY <1>0, <2>0, <3>1, <3>2 DEF GuardFits, Presents, Guessed, KeysInv, SecretsDrawn
  <2>6. GuardFits(guard[h])'
    BY <1>0, <2>0, <2>4, <2>5 DEF GuardFits, Presents
  <2>. QED
    BY <2>0, <2>2, <2>3, <2>6, IssuedKept DEF GuardGoes
<1>4. CASE Keys!FindOneByKey(h)
  <2>. DEFINE x == IF Keys!Stored(guard[h].id) THEN Keys!TextOf(guard[h].id) ELSE Keys!NoText
  <2>. DEFINE c == [guard[h] EXCEPT !.pc = "admitted", !.attached = x]
  <2>0. guard[h].pc = "findOneByKey" /\ issued' = issued
    BY <1>4 DEF Keys!FindOneByKey, Keys!Goto
  <2>1. guard' = [guard EXCEPT ![h] = c]
    BY <1>4 DEF Keys!FindOneByKey, Keys!Goto
  <2>. HIDE DEF x
  <2>2. guard'[h] = c /\ guard' = [guard EXCEPT ![h] = guard'[h]]
    <3>. HIDE DEF c
    <3>. QED
      BY <1>1, <2>1
  <2>3. IsGuard(guard[h])'
    BY <1>0, <2>2 DEF IsGuard, GuardFields
  <2>4. /\ guard'[h].pc = "admitted"
        /\ guard'[h].id = guard[h].id /\ guard'[h].text = guard[h].text
    BY <1>0, <2>2 DEF IsGuard, GuardFields
  <2>5. GuardFits(guard[h])'
    BY <1>0, <2>0, <2>4 DEF GuardFits, Presents
  <2>. QED
    BY <2>0, <2>2, <2>3, <2>5, IssuedKept DEF GuardGoes
<1>5. CASE Keys!FindApplicationByApiKey(h)
  <2>. DEFINE x == IF Keys!Stored(guard[h].id) THEN keys[guard[h].id].app ELSE NoApp
  <2>. DEFINE c == [guard[h] EXCEPT !.pc = "handle", !.app = x]
  <2>0. guard[h].pc = "admitted" /\ issued' = issued
    BY <1>5 DEF Keys!FindApplicationByApiKey, Keys!Goto
  <2>1. guard' = [guard EXCEPT ![h] = c]
    BY <1>5 DEF Keys!FindApplicationByApiKey, Keys!Goto
  <2>2. x \in {guard[h].text.app, NoApp}
    BY <1>0, <2>0 DEF GuardFits, Presents, IssuedFits, Keys!Stored
  <2>. HIDE DEF x
  <2>3. guard'[h] = c /\ guard' = [guard EXCEPT ![h] = guard'[h]]
    <3>. HIDE DEF c
    <3>. QED
      BY <1>1, <2>1
  <2>4. IsGuard(guard[h])'
    BY <1>0, <2>3 DEF IsGuard, GuardFields
  <2>5. /\ guard'[h].pc = "handle"
        /\ guard'[h].id = guard[h].id /\ guard'[h].text = guard[h].text /\ guard'[h].app = x
    BY <1>0, <2>3 DEF IsGuard, GuardFields
  <2>6. GuardFits(guard[h])'
    BY <1>0, <2>0, <2>2, <2>5 DEF GuardFits, Presents
  <2>. QED
    BY <2>0, <2>3, <2>4, <2>6, IssuedKept DEF GuardGoes
<1>6. CASE Keys!FindWalletByApiKey(h)
  <2>. DEFINE x == owner[keys[guard[h].id].app]
  <2>. DEFINE c == [guard[h] EXCEPT !.pc = "readChain", !.wallet = x]
  <2>0. guard[h].pc = "admitted" /\ issued' = issued
    BY <1>6 DEF Keys!FindWalletByApiKey, Keys!Goto
  <2>1. guard' = [guard EXCEPT ![h] = c]
    BY <1>6 DEF Keys!FindWalletByApiKey, Keys!Goto
  <2>. HIDE DEF x
  <2>2. guard'[h] = c /\ guard' = [guard EXCEPT ![h] = guard'[h]]
    <3>. HIDE DEF c
    <3>. QED
      BY <1>1, <2>1
  <2>3. IsGuard(guard[h])'
    BY <1>0, <2>2 DEF IsGuard, GuardFields
  <2>4. /\ guard'[h].pc = "readChain"
        /\ guard'[h].id = guard[h].id /\ guard'[h].text = guard[h].text
    BY <1>0, <2>2 DEF IsGuard, GuardFields
  <2>5. GuardFits(guard[h])'
    BY <1>0, <2>0, <2>4 DEF GuardFits, Presents
  <2>. QED
    BY <2>0, <2>2, <2>3, <2>5, IssuedKept DEF GuardGoes
<1>7. ASSUME NEW a, NEW until, Keys!CreateApiKey(h, a, until)
      PROVE  GuardGoes(h) /\ issued' = issued
  <2>. DEFINE c == [Keys!Idle EXCEPT !.pc = "save", !.app = a, !.until = until]
  <2>0. issued' = issued
    BY <1>7 DEF Keys!CreateApiKey, Keys!Goto
  <2>1. guard' = [guard EXCEPT ![h] = c]
    BY <1>7 DEF Keys!CreateApiKey, Keys!Goto
  <2>2. guard'[h] = c /\ guard' = [guard EXCEPT ![h] = guard'[h]]
    <3>. HIDE DEF c
    <3>. QED
      BY <1>1, <2>1
  <2>3. IsGuard(guard[h])'
    BY <1>0, <2>2 DEF IsGuard, GuardFields, Keys!Idle
  <2>4. guard'[h].pc = "save"
    BY <1>0, <2>2 DEF IsGuard, GuardFields, Keys!Idle
  <2>5. GuardFits(guard[h])'
    BY <2>0, <2>4 DEF GuardFits, Presents
  <2>. QED
    BY <2>0, <2>2, <2>3, <2>5 DEF GuardGoes
<1>8. ASSUME NEW i \in Ids, Keys!SaveKey(h, i) PROVE GuardGoes(h) /\ issued' = issued
  <2>. DEFINE c == [guard[h] EXCEPT !.pc = "format", !.id = i]
  <2>0. issued' = issued
    BY <1>8 DEF Keys!SaveKey, Keys!Goto, Keys!Unchanged
  <2>1. guard' = [guard EXCEPT ![h] = c]
    BY <1>8 DEF Keys!SaveKey, Keys!Goto, Keys!Unchanged
  <2>2. keys'[i].status = "stored"
    BY <1>0, <1>8 DEF KeysShaped, Keys!SaveKey
  <2>3. guard'[h] = c /\ guard' = [guard EXCEPT ![h] = guard'[h]]
    <3>. HIDE DEF c
    <3>. QED
      BY <1>1, <2>1
  <2>4. IsGuard(guard[h])'
    BY <1>0, <2>3 DEF IsGuard, GuardFields
  <2>5. guard'[h].pc = "format" /\ guard'[h].id = i
    BY <1>0, <2>3 DEF IsGuard, GuardFields
  <2>6. GuardFits(guard[h])'
    BY <1>0, <2>0, <2>2, <2>5 DEF GuardFits, Presents
  <2>. QED
    BY <2>0, <2>3, <2>4, <2>6 DEF GuardGoes
<1>9. CASE Keys!FormatKey(h)
  <2>. DEFINE c == [guard[h] EXCEPT !.pc = "reload"]
  <2>0. guard[h].pc = "format" /\ issued' = issued
    BY <1>9 DEF Keys!FormatKey, Keys!Goto
  <2>1. guard' = [guard EXCEPT ![h] = c]
    BY <1>9 DEF Keys!FormatKey, Keys!Goto
  <2>2. guard[h].id \in Ids /\ keys'[guard[h].id].status # "unused"
    BY <1>0, <2>0 DEF GuardFits, KeysKept, KeyKept
  <2>3. guard'[h] = c /\ guard' = [guard EXCEPT ![h] = guard'[h]]
    <3>. HIDE DEF c
    <3>. QED
      BY <1>1, <2>1
  <2>4. IsGuard(guard[h])'
    BY <1>0, <2>3 DEF IsGuard, GuardFields
  <2>5. guard'[h].pc = "reload" /\ guard'[h].id = guard[h].id
    BY <1>0, <2>3 DEF IsGuard, GuardFields
  <2>6. GuardFits(guard[h])'
    BY <1>0, <2>0, <2>2, <2>5 DEF GuardFits, Presents
  <2>. QED
    BY <2>0, <2>3, <2>4, <2>6, IssuedKept DEF GuardGoes
<1>10. CASE Keys!ReloadKey(h)
  <2>1. /\ guard[h].pc = "reload" /\ keys' = keys /\ guard' = [guard EXCEPT ![h] = Keys!Idle]
        /\ issued' \subseteq issued \cup {Keys!TextOf(guard[h].id)}
    BY <1>10 DEF Keys!ReloadKey, Keys!Goto
  <2>2. guard[h].id \in Ids /\ keys[guard[h].id].status # "unused"
    BY <1>0, <2>1 DEF GuardFits
  <2>3. IssuedFits(Keys!TextOf(guard[h].id))
    BY <2>2 DEF IssuedFits, Keys!TextOf
  <2>4. GuardGoes(h)
    BY <1>1, <2>1, IdleFits DEF GuardGoes
  <2>. QED
    BY <1>0, <2>1, <2>3, <2>4 DEF IssuedFits
<1>11. ASSUME NEW i \in Ids, Keys!ReadActivity(h, i) PROVE GuardGoes(h) /\ issued' = issued
  <2>. DEFINE x == keys[i].isActive
  <2>. DEFINE y == IF keys[i].formatted THEN Keys!TextOf(i) ELSE Keys!NoText
  <2>. DEFINE c == [Keys!Idle EXCEPT
                        !.pc = "toggle", !.id = i, !.isActive = x, !.text = y]
  <2>0. issued' = issued
    BY <1>11 DEF Keys!ReadActivity, Keys!Goto
  <2>1. guard' = [guard EXCEPT ![h] = c]
    BY <1>11 DEF Keys!ReadActivity, Keys!Goto
  <2>. HIDE DEF x, y
  <2>2. guard'[h] = c /\ guard' = [guard EXCEPT ![h] = guard'[h]]
    <3>. HIDE DEF c
    <3>. QED
      BY <1>1, <2>1
  <2>3. IsGuard(guard[h])'
    BY <1>0, <2>2 DEF IsGuard, GuardFields, Keys!Idle
  <2>4. guard'[h].pc = "toggle"
    BY <1>0, <2>2 DEF IsGuard, GuardFields, Keys!Idle
  <2>5. GuardFits(guard[h])'
    BY <2>0, <2>4 DEF GuardFits, Presents
  <2>. QED
    BY <2>0, <2>2, <2>3, <2>5 DEF GuardGoes
<1>12. ASSUME guard' = [guard EXCEPT ![h] = Keys!Idle], issued' = issued
       PROVE  GuardGoes(h)
  BY <1>1, <1>12, IdleFits DEF GuardGoes
<1>13. CASE \/ Keys!Refused(h) \/ Keys!HandledWithoutLookup(h) \/ Keys!LookupThrows(h)
            \/ Keys!ReadChain(h) \/ Keys!Handled(h) \/ Keys!SaveFails(h)
            \/ Keys!WriteActivity(h) \/ Keys!Fails(h)
  <2>1. guard' = [guard EXCEPT ![h] = Keys!Idle] /\ issued' = issued
    BY <1>13
    DEF Keys!Refused, Keys!HandledWithoutLookup, Keys!LookupThrows, Keys!ReadChain,
        Keys!Handled, Keys!SaveFails, Keys!WriteActivity, Keys!Fails, Keys!Goto
  <2>. QED
    BY <1>12, <2>1, IssuedKept
<1>. QED
  BY <1>2, <1>3, <1>4, <1>5, <1>6, <1>7, <1>8, <1>9, <1>10, <1>11, <1>13, IssuedKept
  DEF Keys!Guard, Keys!Creation, Keys!Toggle

LEMMA KeysInvNext == KeysInv /\ [Keys!Next]_(Keys!vars) => KeysInv'
<1>. SUFFICES ASSUME KeysInv, Keys!Next \/ UNCHANGED Keys!vars
              PROVE  KeysInv'
  OBVIOUS
<1>0. KeysKept
  BY KeysNextKeeps, SameKeysKept DEF Keys!vars, KeysInv
<1>d. drawn' \in Nat
  BY DrawnNext DEF KeysInv
<1>1. ASSUME NEW h \in Handlers,
             Keys!Guard(h) \/ Keys!Creation(h) \/ Keys!Toggle(h) \/ Keys!Fails(h)
      PROVE  KeysInv'
  <2>1. GuardGoes(h) /\ \A t \in issued' : IssuedFits(t)'
    BY <1>0, <1>1, GuardSteps
  <2>2. issued \subseteq issued'
    BY <1>1
    DEF Keys!Guard, Keys!Creation, Keys!Toggle, Keys!Fails, Keys!Present, Keys!IsActiveKey,
        Keys!Refused, Keys!FindOneByKey, Keys!HandledWithoutLookup, Keys!FindApplicationByApiKey,
        Keys!FindWalletByApiKey, Keys!LookupThrows, Keys!ReadChain, Keys!Handled,
        Keys!CreateApiKey, Keys!SaveKey, Keys!SaveFails, Keys!FormatKey, Keys!ReloadKey,
        Keys!ReadActivity, Keys!WriteActivity
  <2>3. ASSUME NEW g \in Handlers \ {h}
        PROVE  IsGuard(guard[g])' /\ GuardFits(guard[g])'
    <3>1. guard'[g] = guard[g]
      BY <2>1, <2>3 DEF GuardGoes, KeysInv, GuardShaped
    <3>2. IsGuard(guard[g]) /\ GuardFits(guard[g])
      BY <2>3 DEF KeysInv, GuardShaped
    <3>3. Presents(guard[g])' = Presents(guard[g])
      BY <3>1 DEF Presents
    <3>4. IsGuard(guard[g])'
      BY <3>1, <3>2 DEF IsGuard
    <3>5. GuardFits(guard[g])'
      BY <1>0, <2>2, <3>1, <3>2, <3>3 DEF GuardFits, KeysKept, KeyKept
    <3>. QED
      BY <3>4, <3>5
  <2>4. \A g \in Handlers : IsGuard(guard[g])' /\ GuardFits(guard[g])'
    BY <2>1, <2>3 DEF GuardGoes
  <2>5. guard' = [g \in Handlers |-> guard'[g]]
    BY <2>1 DEF GuardGoes, KeysInv, GuardShaped
  <2>. QED
    BY <1>0, <1>d, <2>1, <2>4, <2>5 DEF KeysInv, KeysKept, GuardShaped
<1>2. ASSUME issued' = issued,
             guard' = guard \/ guard' = [h \in Handlers |-> Keys!Idle]
      PROVE  KeysInv'
  <2>1. \A t \in issued' : IssuedFits(t)'
    BY <1>0, <1>2, IssuedKept
  <2>2. CASE guard' = [h \in Handlers |-> Keys!Idle]
    <3>1. \A h \in Handlers : IsGuard(guard[h])' /\ GuardFits(guard[h])'
      BY <2>2, IdleFits
    <3>2. guard' = [g \in Handlers |-> guard'[g]]
      BY <2>2
    <3>. QED
      BY <1>0, <1>d, <2>1, <3>1, <3>2 DEF KeysInv, KeysKept, GuardShaped
  <2>3. CASE guard' = guard
    <3>1. \A h \in Handlers : GuardFits(guard[h])'
      BY <1>0, <1>2, <2>3 DEF KeysInv, GuardFits, Presents, KeysKept, KeyKept
    <3>. QED
      BY <1>0, <1>d, <2>1, <2>3, <3>1 DEF KeysInv, KeysKept, GuardShaped, IsGuard
  <2>. QED
    BY <1>2, <2>2, <2>3
<1>. QED
  BY <1>1, <1>2
  DEF Keys!Next, Keys!Admin, Keys!DeleteKey, Keys!DeleteApplication, Keys!CreateApplication,
      Keys!DeleteWallet, Keys!Tick, Keys!Crash, Keys!vars

-----------------------------------------------------------------------------
(* A call that is to create a request is still in the route that found the  *)
(* application of its key.                                                  *)

ServedFields ==
    {"pc", "op", "req", "app", "vb", "prev", "subscribed", "mb", "sig", "reply"}
IsServed(c) == c = [f \in ServedFields |-> c[f]]

ServingShaped ==
    /\ serving = [h \in Handlers |-> serving[h]]
    /\ \A h \in Handlers : IsServed(serving[h])

ServingFits(c, g) ==
    /\ c.op = "anchor" => c.pc \in {"loadLedger", "build", "awaitNode"}
    /\ c.op = "anchor" \/ c.pc = "store" => g.pc = "handle" /\ c.app = g.app

ServingInv ==
    /\ ServingShaped
    /\ \A h \in Handlers : ServingFits(serving[h], guard[h])

LEMMA IdleServes ==
    /\ IsServed(Anchor!Idle) /\ Anchor!Idle.pc = "idle" /\ Anchor!Idle.op = "none"
    /\ \A g : ServingFits(Anchor!Idle, g)
BY DEF Anchor!Idle, IsServed, ServedFields, ServingFits

LEMMA ServingInit == Init => ServingInv
<1>. SUFFICES ASSUME Init PROVE ServingInv
  OBVIOUS
<1>1. serving = [h \in Handlers |-> Anchor!Idle]
  BY DEF Init, Anchor!Init
<1>. QED
  BY <1>1, IdleServes DEF ServingInv, ServingShaped

\* The call in slot h, as a step leaves it.
Served(h) ==
    /\ serving' = [serving EXCEPT ![h] = serving'[h]]
    /\ IsServed(serving[h])' /\ ServingFits(serving'[h], guard[h])

LEMMA ServedIdle ==
    ASSUME ServingInv, NEW h \in Handlers, serving' = [serving EXCEPT ![h] = Anchor!Idle]
    PROVE  Served(h)
<1>1. serving'[h] = Anchor!Idle /\ serving' = [serving EXCEPT ![h] = serving'[h]]
  BY DEF ServingInv, ServingShaped
<1>. QED
  BY <1>1, IdleServes DEF Served

\* A call that is neither in its last await nor of a client goes on.
LEMMA ServedNext ==
    ASSUME ServingInv, NEW h \in Handlers, NEW c, serving' = [serving EXCEPT ![h] = c],
           IsServed(c), ServingFits(c, guard[h])
    PROVE  Served(h)
<1>1. serving'[h] = c /\ serving' = [serving EXCEPT ![h] = serving'[h]]
  BY DEF ServingInv, ServingShaped
<1>. QED
  BY <1>1 DEF Served

LEMMA ReplyServes ==
    ASSUME NEW h \in Handlers, NEW kind, NEW ref, serving[h].op # "anchor"
    PROVE  /\ IsServed(Anchor!Reply(h, kind, ref))
           /\ ServingFits(Anchor!Reply(h, kind, ref), guard[h])
BY DEF Anchor!Reply, Anchor!Idle, IsServed, ServedFields, ServingFits

LEMMA StepServes ==
    ASSUME ServingInv, NEW h \in Handlers, Anchor!Step(h) \/ Anchor!Fails(h)
    PROVE  Served(h)
<1>0. /\ serving = [g \in Handlers |-> serving[g]] /\ IsServed(serving[h])
      /\ ServingFits(serving[h], guard[h])
  BY DEF ServingInv, ServingShaped
<1>1. CASE \/ \E r \in Requests :
                  Anchor!StoreAnchorRequest(h, r) \/ Anchor!SaveCompletedAnchorRequest(h, r)
           \/ Anchor!Answer(h) \/ Anchor!Throws(h) \/ Anchor!Fails(h)
  BY <1>1, ServedIdle
  DEF Anchor!StoreAnchorRequest, Anchor!SaveCompletedAnchorRequest, Anchor!Answer,
      Anchor!Throws, Anchor!Fails
<1>2. CASE Anchor!BuildMicroblock(h) \/ Anchor!AskActorKey(h) \/ Anchor!MarkAsPublished(h)
  <2>1. /\ serving[h].op # "anchor"
        /\ \E kind, ref : serving' = [serving EXCEPT ![h] = Anchor!Reply(h, kind, ref)]
    BY <1>2 DEF Anchor!BuildMicroblock, Anchor!AskActorKey, Anchor!MarkAsPublished
  <2>. QED
    BY <2>1, ReplyServes, ServedNext
<1>3. CASE Anchor!FindRequest(h)
  <2>. DEFINE mb == IF serving[h].op = "signature" THEN rows[serving[h].req].built ELSE Anchor!NoMb
  <2>1. /\ serving[h].pc = "findRequest"
        /\ serving' = [serving EXCEPT ![h].pc = "findApplication",
                          ![h].app = rows[serving[h].req].app, ![h].vb = rows[serving[h].req].vb,
                          ![h].mb = mb]
    BY <1>3 DEF Anchor!FindRequest
  <2>. HIDE DEF mb
  <2>2. /\ serving'[h].pc = "findApplication" /\ serving'[h].op = serving[h].op
        /\ serving' = [serving EXCEPT ![h] = serving'[h]] /\ IsServed(serving[h])'
    BY <1>0, <2>1 DEF IsServed, ServedFields
  <2>. QED
    BY <1>0, <2>1, <2>2 DEF Served, ServingFits
<1>4. CASE Anchor!FindApplicationByVbId(h)
  <2>1. /\ serving[h].pc = "findApplication"
        /\ serving' = [serving EXCEPT ![h].pc = "loadLedger"]
    BY <1>4 DEF Anchor!FindApplicationByVbId
  <2>2. /\ serving'[h].pc = "loadLedger" /\ serving'[h].op = serving[h].op
        /\ serving' = [serving EXCEPT ![h] = serving'[h]] /\ IsServed(serving[h])'
    BY <1>0, <2>1 DEF IsServed, ServedFields
  <2>. QED
    BY <1>0, <2>1, <2>2 DEF Served, ServingFits
<1>5. CASE Anchor!LoadApplicationLedger(h)
  <2>. DEFINE pc == CASE serving[h].op = "signature" -> "seal"
                      [] /\ serving[h].op \in {"handshake", "actorKey"}
                         /\ serving[h].vb = NoLedger -> "readSeed"
                      [] OTHER -> "build"
              prev == IF serving[h].vb \in Ledgers THEN head[serving[h].vb] ELSE 0
  <2>1. /\ serving[h].pc = "loadLedger"
        /\ serving' = [serving EXCEPT ![h].pc = pc, ![h].prev = prev,
                                      ![h].subscribed = serving[h].vb \in actors]
    BY <1>5 DEF Anchor!LoadApplicationLedger
  <2>2. (serving[h].op = "anchor" => pc = "build") /\ pc # "store"
    OBVIOUS
  <2>. HIDE DEF pc, prev
  <2>3. /\ serving'[h].pc = pc /\ serving'[h].op = serving[h].op
        /\ serving'[h].app = serving[h].app
        /\ serving' = [serving EXCEPT ![h] = serving'[h]] /\ IsServed(serving[h])'
    BY <1>0, <2>1 DEF IsServed, ServedFields
  <2>. QED
    BY <1>0, <2>1, <2>2, <2>3 DEF Served, ServingFits
<1>6. CASE Anchor!ReadGenesisSeed(h)
  <2>1. PICK pc, x :
          /\ pc \in {"saveSeed", "build"}
          /\ serving[h].pc = "readSeed"
          /\ serving' = [serving EXCEPT ![h].pc = pc, ![h].prev = x]
    BY <1>6 DEF Anchor!ReadGenesisSeed
  <2>2. /\ serving'[h].pc = pc /\ serving'[h].op = serving[h].op
        /\ serving' = [serving EXCEPT ![h] = serving'[h]] /\ IsServed(serving[h])'
    BY <1>0, <2>1 DEF IsServed, ServedFields
  <2>. QED
    BY <1>0, <2>1, <2>2 DEF Served, ServingFits
<1>7. CASE Anchor!SaveGeneratedSeed(h)
  <2>1. /\ serving[h].pc = "saveSeed"
        /\ serving' = [serving EXCEPT ![h].pc = "build"]
    BY <1>7 DEF Anchor!SaveGeneratedSeed
  <2>2. /\ serving'[h].pc = "build" /\ serving'[h].op = serving[h].op
        /\ serving' = [serving EXCEPT ![h] = serving'[h]] /\ IsServed(serving[h])'
    BY <1>0, <2>1 DEF IsServed, ServedFields
  <2>. QED
    BY <1>0, <2>1, <2>2 DEF Served, ServingFits
<1>8. CASE Anchor!SealAndPublish(h)
  <2>. DEFINE c(mb) == Anchor!Go(h, "awaitNode", mb)
  <2>1. serving[h].pc = "seal" /\ \E mb : serving' = [serving EXCEPT ![h] = c(mb)]
    BY <1>8 DEF Anchor!SealAndPublish
  <2>2. \A mb : IsServed(c(mb)) /\ c(mb).pc = "awaitNode" /\ c(mb).op = serving[h].op
    BY DEF Anchor!Go, Anchor!Idle, IsServed, ServedFields
  <2>. HIDE DEF c
  <2>3. \A mb : ServingFits(c(mb), guard[h])
    BY <1>0, <2>1, <2>2 DEF ServingFits
  <2>. QED
    BY <2>1, <2>2, <2>3, ServedNext
<1>9. CASE Anchor!BuildAndPublish(h)
  <2>. DEFINE c(mb) == [Anchor!Go(h, "awaitNode", mb) EXCEPT !.app = serving[h].app,
                                                              !.vb = serving[h].vb]
  <2>1. serving[h].op = "anchor" /\ \E mb : serving' = [serving EXCEPT ![h] = c(mb)]
    BY <1>9 DEF Anchor!BuildAndPublish
  <2>2. \A mb : /\ IsServed(c(mb)) /\ c(mb).pc = "awaitNode" /\ c(mb).op = serving[h].op
                /\ c(mb).app = serving[h].app
    BY DEF Anchor!Go, Anchor!Idle, IsServed, ServedFields
  <2>. HIDE DEF c
  <2>3. \A mb : ServingFits(c(mb), guard[h])
    BY <1>0, <2>1, <2>2 DEF ServingFits
  <2>. QED
    BY <2>1, <2>2, <2>3, ServedNext
<1>. QED
  BY <1>1, <1>2, <1>3, <1>4, <1>5, <1>6, <1>7, <1>8, <1>9 DEF Anchor!Step

\* The other calls in the anchoring are not touched, nor is the guard of theirs.
LEMMA OthersServe ==
    ASSUME ServingInv, NEW h \in Handlers, Served(h), guard' = guard
    PROVE  ServingInv'
<1>1. \A g \in Handlers : g # h => serving'[g] = serving[g]
  BY DEF Served, ServingInv, ServingShaped
<1>2. serving' = [g \in Handlers |-> serving'[g]]
  BY DEF Served, ServingInv, ServingShaped
<1>3. \A g \in Handlers : ServingFits(serving[g], guard[g])'
  BY <1>1 DEF Served, ServingInv, ServingFits
<1>4. \A g \in Handlers : IsServed(serving[g])'
  BY <1>1 DEF Served, ServingInv, ServingShaped, IsServed
<1>. QED
  BY <1>2, <1>3, <1>4 DEF ServingInv, ServingShaped

\* The guard moves in a slot whose call creates no request.
LEMMA GuardServes ==
    ASSUME ServingInv, NEW h \in Handlers,
           serving[h].op # "anchor", serving[h].pc # "store",
           serving' = serving, guard' = [guard EXCEPT ![h] = guard'[h]], GuardShaped
    PROVE  ServingInv'
<1>1. \A g \in Handlers : g # h => guard'[g] = guard[g]
  BY DEF GuardShaped
<1>2. \A g \in Handlers : ServingFits(serving[g], guard[g])'
  BY <1>1 DEF ServingInv, ServingFits
<1>. QED
  BY <1>2 DEF ServingInv, ServingShaped, IsServed

LEMMA SendsServe ==
    ASSUME ServingInv, KeysInv, NEW h \in Handlers,
           NEW op \in Anchor!ClientOps, NEW l \in Ledgers \cup {NoLedger}, ServeAnchoring(h, op, l)
    PROVE  ServingInv'
<1>1. PICK a \in Apps \cup {NoApp} : guard'[h].app = a /\ Anchor!ClientSends(h, op, a, l)
  BY DEF ServeAnchoring
<1>2. GuardGoes(h)
  BY KeysNextKeeps, GuardSteps DEF ServeAnchoring, Keys!Next, Keys!Guard
<1>3. guard'[h].pc = "handle"
  <2>. DEFINE x == IF Keys!Stored(guard[h].id) THEN keys[guard[h].id].app ELSE NoApp
  <2>1. guard' = [guard EXCEPT ![h] = [guard[h] EXCEPT !.pc = "handle", !.app = x]]
    BY DEF ServeAnchoring, Keys!FindApplicationByApiKey, Keys!Goto
  <2>. HIDE DEF x
  <2>. QED
    BY <2>1 DEF KeysInv, GuardShaped, IsGuard, GuardFields
<1>4. \A g \in Handlers : g # h => guard'[g] = guard[g]
  BY <1>2 DEF GuardGoes, KeysInv, GuardShaped
<1>. DEFINE pc == IF op = "anchor" THEN "loadLedger" ELSE "store"
            c == [Anchor!Idle EXCEPT !.pc = pc, !.op = op, !.vb = l, !.app = a]
<1>5. serving' = [serving EXCEPT ![h] = c]
  BY <1>1 DEF Anchor!ClientSends
<1>6. IsServed(c) /\ c.pc = pc /\ c.op = op /\ c.app = a
  BY DEF Anchor!Idle, IsServed, ServedFields
<1>. HIDE DEF c
<1>7. /\ serving'[h] = c /\ serving' = [g \in Handlers |-> serving'[g]]
      /\ \A g \in Handlers : g # h => serving'[g] = serving[g]
  BY <1>5 DEF ServingInv, ServingShaped
<1>8. ServingFits(serving'[h], guard'[h])
  BY <1>1, <1>3, <1>6, <1>7 DEF ServingFits
<1>9. \A g \in Handlers : ServingFits(serving[g], guard[g])'
  BY <1>4, <1>7, <1>8 DEF ServingInv, ServingFits
<1>10. \A g \in Handlers : IsServed(serving[g])'
  BY <1>6, <1>7 DEF ServingInv, ServingShaped, IsServed
<1>. QED
  BY <1>7, <1>9, <1>10 DEF ServingInv, ServingShaped

LEMMA ServingNext == ServingInv /\ KeysInv /\ [Next]_vars => ServingInv'
<1>. SUFFICES ASSUME ServingInv, KeysInv, [Next]_vars PROVE ServingInv'
  OBVIOUS
<1>0. \A h \in Handlers : serving[h].pc = "idle" => serving[h].op # "anchor"
  BY DEF ServingInv, ServingFits
<1>1. ASSUME NEW h \in Handlers, ServeKeys(h) PROVE ServingInv'
  <2>1. GuardGoes(h)
    BY <1>1, KeysNextKeeps, GuardSteps DEF ServeKeys, Keys!Next, Keys!Guard
  <2>2. serving[h].op # "anchor" /\ serving[h].pc # "store" /\ serving' = serving
    BY <1>0, <1>1 DEF ServeKeys, anchorVars
  <2>. QED
    BY <2>1, <2>2, GuardServes DEF GuardGoes, KeysInv
<1>2. ASSUME NEW h \in Handlers,
             ServeNoApplication(h) \/ \E r \in Requests : ServeDeletion(h, r)
      PROVE  ServingInv'
  <2>1. GuardGoes(h)
    BY <1>2, KeysNextKeeps, GuardSteps
    DEF ServeNoApplication, ServeDeletion, Keys!Next, Keys!Guard
  <2>2. guard[h].pc = "admitted" /\ serving' = serving
    BY <1>2
    DEF ServeNoApplication, ServeDeletion, Keys!FindApplicationByApiKey,
        Keys!HandledWithoutLookup, Anchor!DeleteAnchorRequest, anchorVars
  <2>3. serving[h].op # "anchor" /\ serving[h].pc # "store"
    BY <2>2 DEF ServingInv, ServingFits
  <2>. QED
    BY <2>1, <2>2, <2>3, GuardServes DEF GuardGoes, KeysInv
<1>3. ASSUME NEW h \in Handlers, Anchors(h) PROVE ServingInv'
  BY <1>3, StepServes, OthersServe DEF Anchors, keyVars
<1>4. ASSUME NEW h \in Handlers, NEW op \in Anchor!ClientOps, NEW l \in Ledgers \cup {NoLedger},
             ServeAnchoring(h, op, l)
      PROVE  ServingInv'
  BY <1>4, SendsServe
<1>5. ASSUME NEW h \in Handlers, NEW op \in Anchor!WalletOps, NEW r \in Requests,
             ServeWallet(h, op, r)
      PROVE  ServingInv'
  <2>. DEFINE sig == IF op = "signature" THEN Anchor!Signature(r) ELSE 0
              c == [Anchor!Idle EXCEPT !.pc = "findRequest", !.op = op, !.req = r, !.sig = sig]
  <2>1. serving' = [serving EXCEPT ![h] = c] /\ guard' = guard
    BY <1>5 DEF ServeWallet, Anchor!WalletSends, keyVars
  <2>2. IsServed(c) /\ c.pc = "findRequest" /\ c.op = op
    BY DEF Anchor!Idle, IsServed, ServedFields
  <2>3. op # "anchor"
    BY DEF Anchor!WalletOps
  <2>. HIDE DEF c
  <2>4. ServingFits(c, guard[h])
    BY <2>2, <2>3 DEF ServingFits
  <2>. QED
    BY <2>1, <2>2, <2>4, ServedNext, OthersServe
<1>6. ASSUME guard' = guard, serving' = serving PROVE ServingInv'
  BY <1>6 DEF ServingInv, ServingShaped, ServingFits, IsServed
<1>7. CASE Admin
  BY <1>6, <1>7
  DEF Admin, DeleteKey, DeleteApplication, CreateApplication, DeleteWallet, anchorVars,
      Keys!DeleteKey, Keys!DeleteApplication, Keys!CreateApplication, Keys!DeleteWallet,
      Anchor!DeleteApplications, Anchor!CreateApplication
<1>8. CASE Elsewhere \/ Tick \/ UNCHANGED vars
  BY <1>6, <1>8
  DEF Elsewhere, Tick, vars, keyVars, anchorVars, Keys!Tick, Anchor!ApplyMark, Anchor!Node,
      Anchor!NodeAccepts, Anchor!NodeRefuses
<1>9. CASE Crash
  <2>1. serving' = [h \in Handlers |-> Anchor!Idle]
    BY <1>9 DEF Crash, Anchor!Crash
  <2>. QED
    BY <2>1, IdleServes DEF ServingInv, ServingShaped
<1>. QED
  BY <1>1, <1>2, <1>3, <1>4, <1>5, <1>7, <1>8, <1>9 DEF Next

-----------------------------------------------------------------------------
(* Who creates a request.                                                   *)

\* An unused row that is inserted.
Inserted(r) == rows[r].status = "unused" /\ rows'[r].status # "unused"

LEMMA OnlyInsertsInsert ==
    ASSUME RowsShaped, NEW h \in Handlers, Anchor!Step(h) \/ Anchor!Fails(h),
           NEW r \in Requests, Inserted(r)
    PROVE  Anchor!StoreAnchorRequest(h, r) \/ Anchor!SaveCompletedAnchorRequest(h, r)
<1>1. ASSUME NEW q, NEW x, Anchor!SaveGenesisSeed(q, x) \/ Anchor!SaveMicroblock(q, x)
      PROVE  rows'[r].status = rows[r].status
  <2>1. CASE rows' = [rows EXCEPT ![q].seed = x] \/ rows' = [rows EXCEPT ![q].built = x]
    BY <2>1 DEF RowsShaped, IsRow, Columns
  <2>. QED
    BY <1>1, <2>1 DEF Anchor!SaveGenesisSeed, Anchor!SaveMicroblock
<1>2. ASSUME NEW q \in Requests, q # r,
             Anchor!StoreAnchorRequest(h, q) \/ Anchor!SaveCompletedAnchorRequest(h, q)
      PROVE  rows'[r] = rows[r]
  <2>1. \E row : rows' = [rows EXCEPT ![q] = row]
    BY <1>2 DEF Anchor!StoreAnchorRequest, Anchor!SaveCompletedAnchorRequest
  <2>. QED
    BY <1>2, <2>1 DEF RowsShaped
<1>3. \/ \E q \in Requests :
             Anchor!StoreAnchorRequest(h, q) \/ Anchor!SaveCompletedAnchorRequest(h, q)
      \/ Anchor!SaveGeneratedSeed(h) \/ Anchor!BuildMicroblock(h) \/ Anchor!AskActorKey(h)
      \/ rows' = rows
  BY DEF Anchor!Step, Anchor!Fails, Anchor!FindRequest, Anchor!FindApplicationByVbId,
         Anchor!LoadApplicationLedger, Anchor!ReadGenesisSeed, Anchor!SealAndPublish,
         Anchor!MarkAsPublished, Anchor!Answer, Anchor!BuildAndPublish, Anchor!Throws, Anchor!dbVars
<1>. QED
  BY <1>1, <1>2, <1>3
  DEF Inserted, Anchor!SaveGeneratedSeed, Anchor!BuildMicroblock, Anchor!AskActorKey

\* The row that is inserted has the application of the call.
LEMMA InsertedOfCall ==
    ASSUME RowsShaped, NEW h \in Handlers, NEW r \in Requests, ServingShaped,
           Anchor!StoreAnchorRequest(h, r) \/ Anchor!SaveCompletedAnchorRequest(h, r)
    PROVE  /\ rows'[r].app = serving[h].app /\ serving'[h].pc = "idle"
           /\ \/ serving[h].pc = "store"
              \/ serving[h].pc = "awaitNode" /\ serving[h].op = "anchor"
<1>1. serving'[h].pc = "idle"
  BY IdleServes
  DEF ServingShaped, Anchor!StoreAnchorRequest, Anchor!SaveCompletedAnchorRequest
<1>2. CASE Anchor!StoreAnchorRequest(h, r)
  BY <1>1, <1>2
  DEF RowsShaped, IsRow, Columns, Anchor!Unused, Anchor!StoreAnchorRequest
<1>3. CASE Anchor!SaveCompletedAnchorRequest(h, r)
  BY <1>1, <1>3
  DEF RowsShaped, IsRow, Columns, Anchor!Unused, Anchor!SaveCompletedAnchorRequest
<1>. QED
  BY <1>2, <1>3

\* Nothing but a call inserts a row.
LEMMA OnlyCallsInsert ==
    ASSUME RowsShaped, [Next]_vars, NEW r \in Requests, Inserted(r)
    PROVE  \E h \in Handlers : guard' = guard /\ Anchors(h)
<1>0. rows' # rows
  BY DEF Inserted
<1>1. ASSUME NEW k, Anchor!ApplyMark(k) PROVE FALSE
  <2>1. rows' = [rows EXCEPT ![k.req].status = "completed", ![k.req].published = k.mb.id]
        /\ Anchor!Exists(k.req)
    BY <1>0, <1>1 DEF Anchor!ApplyMark
  <2>2. r # k.req
    BY <2>1 DEF Inserted, Anchor!Exists
  <2>3. rows'[r] = rows[r]
    BY <2>1, <2>2 DEF RowsShaped
  <2>. QED
    BY <2>3 DEF Inserted
<1>2. ASSUME NEW A, Anchor!DeleteApplications(A) PROVE FALSE
  BY <1>2 DEF Anchor!DeleteApplications, Inserted, Anchor!Exists
<1>3. ASSUME NEW q \in Requests, Anchor!DeleteAnchorRequest(q) PROVE FALSE
  BY <1>3 DEF Anchor!DeleteAnchorRequest, RowsShaped, Inserted, Anchor!Exists
<1>4. ASSUME NEW h \in Handlers, Anchors(h) PROVE guard' = guard
  BY <1>4 DEF Anchors, keyVars
<1>. QED
  BY <1>0, <1>1, <1>2, <1>3, <1>4
  DEF Next, ServeKeys, ServeNoApplication, ServeAnchoring, ServeDeletion, ServeWallet, Admin,
      DeleteKey, DeleteApplication, CreateApplication, DeleteWallet, Elsewhere, Tick, Crash, vars,
      anchorVars, Anchor!ClientSends, Anchor!WalletSends, Anchor!CreateApplication, Anchor!Crash,
      Anchor!Node, Anchor!NodeAccepts, Anchor!NodeRefuses, Anchor!dbVars

\* A request is only created by a call that presented an issued key and is still
\* in the route, with the application that key was issued for or with none.
THEOREM RequestIsOfItsKeyHolds == Spec => RequestIsOfItsKey
<1>1. TablesInv /\ KeysInv /\ ServingInv /\ [Next]_vars
      => \A r \in Requests :
          rows[r].status = "unused" /\ rows'[r].status # "unused" =>
              \E h \in Handlers :
                  /\ guard[h].pc = "handle" /\ serving[h].pc \in {"store", "awaitNode"}
                  /\ serving'[h].pc = "idle"
                  /\ guard[h].text \in issued
                  /\ rows'[r].app \in {guard[h].text.app, NoApp}
  <2>. SUFFICES ASSUME TablesInv, KeysInv, ServingInv, [Next]_vars,
                       NEW r \in Requests, Inserted(r)
                PROVE  \E h \in Handlers :
                         /\ guard[h].pc = "handle" /\ serving[h].pc \in {"store", "awaitNode"}
                         /\ serving'[h].pc = "idle"
                         /\ guard[h].text \in issued
                         /\ rows'[r].app \in {guard[h].text.app, NoApp}
    BY DEF Inserted
  <2>1. PICK h \in Handlers : Anchors(h)
    BY OnlyCallsInsert DEF TablesInv
  <2>2. Anchor!StoreAnchorRequest(h, r) \/ Anchor!SaveCompletedAnchorRequest(h, r)
    BY <2>1, OnlyInsertsInsert DEF TablesInv, Anchors
  <2>3. /\ rows'[r].app = serving[h].app /\ serving'[h].pc = "idle"
        /\ \/ serving[h].pc = "store"
           \/ serving[h].pc = "awaitNode" /\ serving[h].op = "anchor"
    BY <2>2, InsertedOfCall DEF TablesInv, ServingInv
  <2>4. guard[h].pc = "handle" /\ serving[h].app = guard[h].app
    BY <2>3 DEF ServingInv, ServingFits
  <2>5. guard[h].text \in issued /\ guard[h].app \in {guard[h].text.app, NoApp}
    BY <2>4 DEF KeysInv, GuardFits, Presents
  <2>. QED
    BY <2>3, <2>4, <2>5
<1>2. Init => TablesInv /\ KeysInv /\ ServingInv
  BY TablesInvInit, KeysInvInit, ServingInit
<1>. QED
  BY <1>1, <1>2, TablesInvNext, KeysRefined, KeysInvNext, ServingNext, PTL
  DEF Spec, RequestIsOfItsKey
=============================================================================
