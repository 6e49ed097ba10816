---------------------------- MODULE ApiKeysProofs ----------------------------
(***************************************************************************)
(* Proofs about ApiKeys, for any sets of keys, applications, wallets and   *)
(* calls, any expiry dates and any bounds.                                 *)
(***************************************************************************)
EXTENDS ApiKeys, TLAPS

(***************************************************************************)
(* The inductive invariant.                                                *)
(***************************************************************************)

ClientPcs == {"isActiveKey", "findOneByKey", "admitted", "handle", "readChain"}

\* A stored key belongs to an application, and its secret was drawn.
KeysFit ==
    \A i \in Ids : Stored(i) =>
        keys[i].app \in Apps /\ IsApplication(keys[i].app) /\ keys[i].secret # 0

\* A text that was issued names a row that is in use, and is what that row holds.
IssuedFit ==
    \A t \in issued :
        /\ keys[t.id].status # "unused"
        /\ Stored(t.id) => TextOf(t.id) = t /\ keys[t.id].formatted

\* What a call of a client has read is its own key, or nothing; past the
\* guard, the text is one that was issued.
ClientFits(c) ==
    c.pc \in ClientPcs =>
        /\ c.text \in (IF c.pc = "isActiveKey" THEN Presentable ELSE issued)
        /\ c.id = c.text.id
        /\ c.attached \in {c.text, NoText}
        /\ c.app \in {c.text.app, NoApp}

\* The row that createKey or a toggle is about exists, or did.
AdminFits(c) ==
    /\ c.pc = "save" => c.app \in Apps
    /\ c.pc \in {"format", "reload", "toggle"} => c.id \in Ids /\ keys[c.id].status # "unused"
    /\ c.pc = "reload" /\ Stored(c.id) => keys[c.id].formatted

\* A call that passed the guard with a key that expires did so before it did.
InTime(c) ==
    /\ c.since <= now
    /\ /\ c.pc \in ClientPcs \ {"isActiveKey"} /\ Stored(c.id)
       /\ keys[c.id].activeUntil # NoLimit
       => c.since < keys[c.id].activeUntil

CallFits(h) == ClientFits(call[h]) /\ AdminFits(call[h]) /\ InTime(call[h])

\* A toggle that overlaps no other holds what the row holds.
IsToggling(h, i) == call[h].pc = "toggle" /\ call[h].id = i
TogglesFit ==
    \A i \in Ids :
        /\ keys[i].status = "unused" => expected[i]
        /\ Stored(i) /\ i \notin raced =>
             /\ keys[i].isActive = expected[i]
             /\ \A h \in Handlers : IsToggling(h, i) => call[h].isActive = keys[i].isActive
        /\ \A g, h \in Handlers : IsToggling(g, i) /\ IsToggling(h, i) /\ g # h => i \in raced

IInv ==
    /\ TypeOK
    /\ KeysFit
    /\ IssuedFit
    /\ \A h \in Handlers : CallFits(h)
    /\ TogglesFit

-----------------------------------------------------------------------------
(* Types.                                                                   *)

LEMMA ConstantsTyped ==
    /\ Unused \in Row /\ Deleted \in Row
    /\ Idle \in Call
    /\ NoText \notin Text
<1>1. Unused \in Row /\ Deleted \in Row
  BY DEF Unused, Deleted, Row
<1>2. Idle \in Call
  BY DEF Idle, Call, NoText
<1>3. NoText \notin Text
  BY NullAssumption DEF NoText, Text
<1>. QED
  BY <1>1, <1>2, <1>3

LEMMA TextTyped ==
    ASSUME IInv, NEW i \in Ids, Stored(i)
    PROVE  TextOf(i) \in Text
BY DEF IInv, TypeOK, Row, KeysFit, TextOf, Text

LEMMA PresentableTyped ==
    ASSUME IInv, NEW t \in Presentable
    PROVE  /\ t \in Text \cup {NoText}
           /\ t.id \in Ids \cup {NoId} /\ t.app \in Apps \cup {NoApp} /\ t.secret \in Nat
           /\ t \notin issued => t = NoText \/ t.secret = 0
BY DEF IInv, TypeOK, Presentable, Guesses, Text, NoText

\* Nobody guesses a secret that was drawn: a text that is active was issued.
LEMMA ActiveIsIssued ==
    ASSUME IInv, NEW t \in Presentable, IsActive(t)
    PROVE  t \in issued /\ t.id \in Ids /\ keys[t.id].activeUntil # NoLimit
             /\ now < keys[t.id].activeUntil
<1>1. t # NoText /\ Stored(t.id) /\ TextOf(t.id) = t
        /\ keys[t.id].activeUntil # NoLimit /\ keys[t.id].activeUntil > now
  BY DEF IsActive
<1>2. t \in Text /\ t.id \in Ids
  BY <1>1, PresentableTyped DEF Text
<1>3. t.secret # 0
  BY <1>1, <1>2 DEF IInv, KeysFit, TextOf
<1>4. keys[t.id].activeUntil \in Nat
  BY <1>1, <1>2, LimitsAssumption DEF IInv, TypeOK, Row
<1>. QED
  BY <1>1, <1>2, <1>3, <1>4, PresentableTyped DEF IInv, TypeOK

LEMMA TypeInit == Init => IInv
<1>. SUFFICES ASSUME Init PROVE IInv
  OBVIOUS
<1>1. TypeOK
  BY ConstantsTyped, BoundAssumption DEF Init, TypeOK
<1>2. \A i \in Ids : keys[i].status = "unused"
  BY DEF Init, Unused
<1>3. KeysFit /\ IssuedFit
  BY <1>2 DEF KeysFit, IssuedFit, Stored, Init
<1>4. \A h \in Handlers : CallFits(h)
  BY DEF CallFits, ClientFits, AdminFits, InTime, ClientPcs, Init, Idle
<1>5. TogglesFit
  BY <1>2 DEF TogglesFit, IsToggling, Stored, Init, Idle
<1>. QED
  BY <1>1, <1>3, <1>4, <1>5 DEF IInv

\* What a step gives one slot.
Gives(h) == call' = [call EXCEPT ![h] = call'[h]] /\ call'[h] \in Call

-----------------------------------------------------------------------------
(* The steps of a client's call change no row.                              *)

LEMMA IdleFits ==
    ASSUME IInv, NEW h \in Handlers, call' = [call EXCEPT ![h] = Idle], now' \in Nat
    PROVE  Gives(h) /\ CallFits(h)'
<1>1. call' \in [Handlers -> Call] /\ call'[h] = Idle /\ Idle \in Call
  BY ConstantsTyped DEF IInv, TypeOK
<1>2. Idle.pc = "idle" /\ Idle.since = 0
  BY DEF Idle
<1>. QED
  BY <1>1, <1>2 DEF Gives, CallFits, ClientFits, AdminFits, InTime, ClientPcs

LEMMA ClientFitsOn ==
    ASSUME IInv, NEW h \in Handlers, NEW c \in Call, Goto(h, c),
           UNCHANGED <<keys, issued, now>>,
           c.pc \in ClientPcs, ClientFits(c), InTime(c)
    PROVE  Gives(h) /\ CallFits(h)'
<1>1. call' \in [Handlers -> Call] /\ call'[h] = c
  BY DEF IInv, TypeOK, Goto
<1>2. Gives(h)
  BY <1>1 DEF Goto, Gives
<1>3. ClientFits(c)'
  BY DEF ClientFits, Presentable
<1>4. AdminFits(c)'
  BY DEF AdminFits, ClientPcs
<1>5. InTime(c)'
  BY DEF InTime, Stored
<1>. QED
  BY <1>1, <1>2, <1>3, <1>4, <1>5 DEF CallFits, ClientFits, AdminFits, InTime

\* What one of the reads of a call in progress makes of it.
LEMMA ClientGoesOn ==
    ASSUME IInv, NEW h \in Handlers, call[h].pc \in ClientPcs,
           UNCHANGED <<keys, issued, now>>,
           NEW pc \in ClientPcs, NEW attached \in {call[h].text, NoText},
           NEW app \in {call[h].text.app, NoApp}, NEW wallet \in Wallets \cup {NoWallet},
           Goto(h, [call[h] EXCEPT !.pc = pc, !.attached = attached, !.app = app,
                                   !.wallet = wallet]),
           pc # "isActiveKey", call[h].text \in issued,
           Stored(call[h].id) /\ keys[call[h].id].activeUntil # NoLimit =>
             call[h].since < keys[call[h].id].activeUntil
    PROVE  Gives(h) /\ CallFits(h)'
<1>. DEFINE c == [call[h] EXCEPT !.pc = pc, !.attached = attached, !.app = app,
                                 !.wallet = wallet]
<1>0. call[h] \in Call /\ now \in Nat /\ ClientFits(call[h]) /\ InTime(call[h])
  BY DEF IInv, TypeOK, CallFits
<1>1. call[h].text \in issued /\ issued \subseteq Text /\ call[h].id = call[h].text.id
  BY <1>0 DEF IInv, TypeOK, ClientFits
<1>2. c \in Call
  BY <1>0, <1>1 DEF Call, ClientPcs, Text
<1>3. c.pc = pc /\ c.id = call[h].id /\ c.text = call[h].text /\ c.since = call[h].since
        /\ c.attached = attached /\ c.app = app
  BY <1>0 DEF Call
<1>4. Goto(h, c)
  OBVIOUS
<1>. HIDE DEF c
<1>5. ClientFits(c) /\ InTime(c)
  BY <1>0, <1>1, <1>3 DEF ClientFits, InTime
<1>. QED
  BY <1>2, <1>3, <1>4, <1>5, ClientFitsOn

LEMMA ClientGives ==
    ASSUME IInv, NEW h \in Handlers, Guard(h)
    PROVE  Gives(h) /\ CallFits(h)'
<1>0. call[h] \in Call /\ now \in Nat /\ ClientFits(call[h]) /\ InTime(call[h])
  BY DEF IInv, TypeOK, CallFits
<1>1. ASSUME NEW t \in Presentable, Present(h, t) PROVE Gives(h) /\ CallFits(h)'
  <2>. DEFINE c == [Idle EXCEPT !.pc = "isActiveKey", !.id = t.id, !.text = t, !.since = now]
  <2>1. c \in Call /\ c.pc = "isActiveKey" /\ c.id = t.id /\ c.text = t /\ c.since = now
          /\ c.attached = NoText /\ c.app = NoApp
    BY <1>0, ConstantsTyped, PresentableTyped DEF Call, Idle
  <2>2. Goto(h, c) /\ UNCHANGED <<keys, issued, now>>
    BY <1>1 DEF Present, Unchanged
  <2>. HIDE DEF c
  <2>3. ClientFits(c) /\ InTime(c) /\ c.pc \in ClientPcs
    BY <1>0, <2>1 DEF ClientFits, InTime, ClientPcs
  <2>. QED
    BY <2>1, <2>2, <2>3, ClientFitsOn
<1>2. CASE IsActiveKey(h)
  <2>1. call[h].pc \in ClientPcs /\ call[h].id = call[h].text.id
          /\ call[h].attached \in {call[h].text, NoText} /\ call[h].app \in {call[h].text.app, NoApp}
    BY <1>0, <1>2 DEF IsActiveKey, ClientFits, ClientPcs
  <2>2. /\ call[h].text \in issued
        /\ keys[call[h].id].activeUntil # NoLimit /\ call[h].since < keys[call[h].id].activeUntil
    <3>1. call[h].text \in Presentable /\ IsActive(call[h].text)
      BY <1>0, <1>2 DEF IsActiveKey, ClientFits, ClientPcs
    <3>2. /\ call[h].text \in issued /\ call[h].text.id \in Ids
          /\ keys[call[h].text.id].activeUntil # NoLimit
          /\ now < keys[call[h].text.id].activeUntil
      BY <3>1, ActiveIsIssued
    <3>3. keys[call[h].text.id].activeUntil \in Nat
      BY <3>2, LimitsAssumption DEF IInv, TypeOK, Row
    <3>. QED
      BY <1>0, <2>1, <3>2, <3>3 DEF InTime, Call
  <2>3. Goto(h, [call[h] EXCEPT !.pc = "findOneByKey", !.attached = call[h].attached,
                                !.app = call[h].app, !.wallet = call[h].wallet])
    BY <1>0, <1>2 DEF IsActiveKey, Goto, Call
  <2>. QED
    BY <1>0, <1>2, <2>1, <2>2, <2>3, ClientGoesOn DEF IsActiveKey, Unchanged, ClientPcs, Call
<1>3. CASE FindOneByKey(h)
  <2>1. call[h].pc \in ClientPcs /\ call[h].pc # "isActiveKey"
          /\ call[h].app \in {call[h].text.app, NoApp}
    BY <1>0, <1>3 DEF FindOneByKey, ClientFits, ClientPcs
  <2>2. Stored(call[h].id) => TextOf(call[h].id) = call[h].text
    BY <1>0, <2>1 DEF IInv, IssuedFit, ClientFits
  <2>3. PICK attached \in {call[h].text, NoText} :
          Goto(h, [call[h] EXCEPT !.pc = "admitted", !.attached = attached,
                                  !.app = call[h].app, !.wallet = call[h].wallet])
    BY <1>0, <1>3, <2>2 DEF FindOneByKey, Goto, Call
  <2>. QED
    BY <1>0, <1>3, <2>1, <2>3, ClientGoesOn
    DEF FindOneByKey, Unchanged, ClientPcs, Call, ClientFits, InTime
<1>4. CASE FindApplicationByApiKey(h)
  <2>1. call[h].pc \in ClientPcs /\ call[h].pc # "isActiveKey"
          /\ call[h].attached \in {call[h].text, NoText} /\ call[h].text \in issued
    BY <1>0, <1>4 DEF FindApplicationByApiKey, ClientFits, ClientPcs
  <2>2. Stored(call[h].id) => keys[call[h].id].app = call[h].text.app
    BY <1>0, <2>1 DEF IInv, TypeOK, IssuedFit, ClientFits, TextOf, Text
  <2>3. PICK app \in {call[h].text.app, NoApp} :
          Goto(h, [call[h] EXCEPT !.pc = "handle", !.attached = call[h].attached,
                                  !.app = app, !.wallet = call[h].wallet])
    BY <1>0, <1>4, <2>2 DEF FindApplicationByApiKey, Goto, Call
  <2>. QED
    BY <1>0, <1>4, <2>1, <2>3, ClientGoesOn
    DEF FindApplicationByApiKey, Unchanged, ClientPcs, Call, InTime
<1>5. CASE FindWalletByApiKey(h)
  <2>1. call[h].pc \in ClientPcs /\ call[h].pc # "isActiveKey" /\ call[h].text \in issued
          /\ call[h].id = call[h].text.id
          /\ call[h].attached \in {call[h].text, NoText} /\ call[h].app \in {call[h].text.app, NoApp}
    BY <1>0, <1>5 DEF FindWalletByApiKey, ClientFits, ClientPcs
  <2>2. owner[keys[call[h].id].app] \in Wallets \cup {NoWallet}
    BY <1>5, <2>1 DEF FindWalletByApiKey, IInv, TypeOK, Text, KeysFit
  <2>3. Goto(h, [call[h] EXCEPT !.pc = "readChain", !.attached = call[h].attached,
                                !.app = call[h].app,
                                !.wallet = owner[keys[call[h].id].app]])
    BY <1>0, <1>5 DEF FindWalletByApiKey, Goto, Call
  <2>. QED
    BY <1>0, <1>5, <2>1, <2>2, <2>3, ClientGoesOn
    DEF FindWalletByApiKey, Unchanged, ClientPcs, Call, InTime
<1>6. CASE \/ Refused(h) \/ HandledWithoutLookup(h) \/ LookupThrows(h) \/ ReadChain(h)
           \/ Handled(h)
  <2>1. call' = [call EXCEPT ![h] = Idle] /\ now' = now
    BY <1>6 DEF Refused, HandledWithoutLookup, LookupThrows, ReadChain, Handled, Unchanged, Goto
  <2>. QED
    BY <1>0, <2>1, IdleFits
<1>. QED
  BY <1>1, <1>2, <1>3, <1>4, <1>5, <1>6 DEF Guard

-----------------------------------------------------------------------------
(* The rows.  A step adds rows and deletes them, and leaves of those that   *)
(* stay all but isActive and the text being formatted.                      *)

Evolves(i) ==
    /\ keys[i].status # "unused" => keys'[i].status # "unused"
    /\ keys[i].status = "deleted" => keys'[i].status = "deleted"
    /\ Stored(i) /\ Stored(i)' =>
         /\ keys'[i].app = keys[i].app /\ keys'[i].secret = keys[i].secret
         /\ keys'[i].activeUntil = keys[i].activeUntil
         /\ keys[i].formatted => keys'[i].formatted

LEMMA StatusOf ==
    ASSUME IInv, NEW i \in Ids
    PROVE  keys[i].status \in {"unused", "stored", "deleted"}
BY DEF IInv, TypeOK, Row

LEMMA GuardKeepsRows ==
    ASSUME NEW h \in Handlers, Guard(h)
    PROVE  UNCHANGED <<tables, issued, now, drawn, failures, history>>
BY DEF Guard, Present, IsActiveKey, Refused, FindOneByKey, HandledWithoutLookup,
       FindApplicationByApiKey, FindWalletByApiKey, LookupThrows, ReadChain, Handled, Unchanged,
       tables, history

\* The calls that a step does not serve.
LEMMA OthersFit ==
    ASSUME IInv, \A i \in Ids : Evolves(i), issued \subseteq issued', now' \in Nat, now <= now',
           NEW g \in Handlers, call'[g] = call[g]
    PROVE  CallFits(g)'
<1>0. CallFits(g) /\ call[g] \in Call /\ now \in Nat /\ issued \subseteq Text
  BY DEF IInv, TypeOK
<1>1. ClientFits(call[g])'
  BY <1>0 DEF CallFits, ClientFits, Presentable
<1>2. AdminFits(call[g])'
  BY <1>0, StatusOf DEF CallFits, AdminFits, Evolves, Stored
<1>3. InTime(call[g])'
  <2>1. call[g].since \in Nat /\ call[g].since <= now'
    BY <1>0 DEF Call, CallFits, InTime
  <2>2. call[g].pc \in ClientPcs \ {"isActiveKey"} =>
          call[g].id \in Ids /\ keys[call[g].id].status # "unused"
    BY <1>0 DEF CallFits, ClientFits, Text, IInv, IssuedFit
  <2>. QED
    BY <1>0, <2>1, <2>2, StatusOf DEF CallFits, InTime, Evolves, Stored
<1>. QED
  BY <1>1, <1>2, <1>3 DEF CallFits

\* The steps that write rows keep them typed.
RowsKept == keys' \in [Ids -> Row] /\ \A i \in Ids : Evolves(i)

LEMMA SameRows ==
    ASSUME IInv, UNCHANGED keys
    PROVE  RowsKept
BY DEF IInv, TypeOK, RowsKept, Evolves, Stored

LEMMA DeletionKeepsRows ==
    ASSUME IInv, NEW gone \in SUBSET Ids, keys' = WithoutKeys(gone), \A i \in gone : Stored(i)
    PROVE  RowsKept
<1>1. Deleted \in Row /\ Deleted.status = "deleted"
  BY ConstantsTyped DEF Deleted, Unused
<1>2. keys' = [i \in Ids |-> IF i \in gone THEN Deleted ELSE keys[i]]
  BY DEF WithoutKeys
<1>3. keys' \in [Ids -> Row]
  BY <1>1, <1>2 DEF IInv, TypeOK
<1>4. ASSUME NEW i \in Ids PROVE Evolves(i)
  BY <1>1, <1>2 DEF Evolves, Stored
<1>. QED
  BY <1>3, <1>4 DEF RowsKept

LEMMA SaveKeepsRows ==
    ASSUME IInv, NEW h \in Handlers, NEW i \in Ids, SaveKey(h, i)
    PROVE  RowsKept
<1>. DEFINE row == [status |-> "stored", app |-> call[h].app, secret |-> drawn + 1,
                    formatted |-> FALSE, isActive |-> TRUE, activeUntil |-> call[h].until]
<1>1. row \in Row /\ row.status = "stored"
  BY DEF IInv, TypeOK, Call, Row
<1>2. keys' = [keys EXCEPT ![i] = row] /\ keys[i].status = "unused"
  BY DEF SaveKey
<1>. HIDE DEF row
<1>3. keys' \in [Ids -> Row]
  BY <1>1, <1>2 DEF IInv, TypeOK
<1>4. ASSUME NEW j \in Ids PROVE Evolves(j)
  BY <1>1, <1>2 DEF IInv, TypeOK, Evolves, Stored
<1>. QED
  BY <1>3, <1>4 DEF RowsKept

LEMMA WriteKeepsRows ==
    ASSUME IInv, NEW i \in Ids, NEW row \in Row, keys' = [keys EXCEPT ![i] = row],
           row.status = keys[i].status, row.app = keys[i].app, row.secret = keys[i].secret,
           row.activeUntil = keys[i].activeUntil,
           Stored(i) /\ keys[i].formatted => row.formatted
    PROVE  RowsKept
<1>1. keys' \in [Ids -> Row]
  BY DEF IInv, TypeOK
<1>2. ASSUME NEW j \in Ids PROVE Evolves(j)
  BY DEF IInv, TypeOK, Evolves, Stored
<1>. QED
  BY <1>1, <1>2 DEF RowsKept

LEMMA WritesKeepRows ==
    ASSUME IInv, NEW h \in Handlers, FormatKey(h) \/ WriteActivity(h)
    PROVE  RowsKept
<1>1. call[h].id \in Ids /\ call[h].isActive \in BOOLEAN
  BY DEF IInv, TypeOK, Call, CallFits, AdminFits, FormatKey, WriteActivity
<1>2. keys \in [Ids -> Row] /\ keys[call[h].id] \in Row
  BY <1>1 DEF IInv, TypeOK
<1>3. CASE FormatKey(h)
  <2>. DEFINE row == [keys[call[h].id] EXCEPT !.formatted = Stored(call[h].id)]
  <2>1. keys' = [keys EXCEPT ![call[h].id] = row]
    BY <1>2, <1>3 DEF FormatKey
  <2>2. row \in Row
    BY <1>2 DEF Row, Stored
  <2>. QED
    BY <1>1, <1>2, <2>1, <2>2, WriteKeepsRows DEF Row
<1>4. CASE WriteActivity(h) /\ Stored(call[h].id)
  <2>. DEFINE row == [keys[call[h].id] EXCEPT !.isActive = ~call[h].isActive]
  <2>1. keys' = [keys EXCEPT ![call[h].id] = row]
    BY <1>2, <1>4 DEF WriteActivity
  <2>2. row \in Row
    BY <1>1, <1>2 DEF Row
  <2>. QED
    BY <1>1, <1>2, <2>1, <2>2, WriteKeepsRows DEF Row
<1>5. CASE WriteActivity(h) /\ ~Stored(call[h].id)
  BY <1>5, SameRows DEF WriteActivity
<1>. QED
  BY <1>3, <1>4, <1>5

LEMMA AdminKeepsRows ==
    ASSUME IInv, Admin
    PROVE  RowsKept
<1>1. ASSUME NEW i \in Ids, DeleteKey(i) PROVE RowsKept
  BY <1>1, DeletionKeepsRows DEF DeleteKey
<1>2. ASSUME NEW A, keys' = WithoutKeys(KeysOf(A)) PROVE RowsKept
  <2>1. KeysOf(A) \in SUBSET Ids /\ \A i \in KeysOf(A) : Stored(i)
    BY DEF KeysOf
  <2>. QED
    BY <1>2, <2>1, DeletionKeepsRows
<1>3. ASSUME NEW a \in Apps, DeleteApplication(a) PROVE RowsKept
  BY <1>2, <1>3 DEF DeleteApplication
<1>4. ASSUME NEW w \in Wallets, DeleteWallet(w) PROVE RowsKept
  BY <1>2, <1>4 DEF DeleteWallet
<1>5. ASSUME NEW a \in Apps, NEW w \in Wallets, CreateApplication(a, w) PROVE RowsKept
  BY <1>5, SameRows DEF CreateApplication
<1>. QED
  BY <1>1, <1>3, <1>4, <1>5 DEF Admin

LEMMA CallsKeepRows ==
    ASSUME IInv, NEW h \in Handlers, Guard(h) \/ Creation(h) \/ Toggle(h) \/ Fails(h)
    PROVE  RowsKept
<1>1. CASE UNCHANGED keys
  BY <1>1, SameRows
<1>2. CASE Guard(h) \/ Fails(h)
  BY <1>1, <1>2, GuardKeepsRows DEF Fails, tables
<1>3. CASE Creation(h)
  BY <1>1, <1>3, SaveKeepsRows, WritesKeepRows
  DEF Creation, CreateApiKey, SaveFails, ReloadKey
<1>4. CASE Toggle(h)
  BY <1>1, <1>4, WritesKeepRows DEF Toggle, ReadActivity, tables
<1>. QED
  BY <1>2, <1>3, <1>4

LEMMA NextKeepsRows ==
    ASSUME IInv, [Next]_vars
    PROVE  RowsKept
<1>1. CASE Tick \/ Crash \/ UNCHANGED vars
  BY <1>1, SameRows DEF Tick, Crash, vars, tables
<1>. QED
  BY <1>1, CallsKeepRows, AdminKeepsRows DEF Next

-----------------------------------------------------------------------------
(* The calls of the administrator.                                          *)

LEMMA CreationGives ==
    ASSUME IInv, NEW h \in Handlers, Creation(h)
    PROVE  Gives(h) /\ CallFits(h)'
<1>0. call \in [Handlers -> Call] /\ call[h] \in Call /\ now \in Nat /\ CallFits(h)
  BY DEF IInv, TypeOK
<1>1. ASSUME NEW a \in Apps, NEW until \in Limits, CreateApiKey(h, a, until)
      PROVE  Gives(h) /\ CallFits(h)'
  <2>. DEFINE c == [Idle EXCEPT !.pc = "save", !.app = a, !.until = until]
  <2>1. c \in Call /\ c.pc = "save" /\ c.app = a /\ c.since = 0
    BY ConstantsTyped DEF Call, Idle
  <2>2. call' = [call EXCEPT ![h] = c] /\ now' = now
    BY <1>1 DEF CreateApiKey, Goto, Unchanged
  <2>. HIDE DEF c
  <2>3. call'[h] = c
    BY <1>0, <2>2
  <2>. QED
    BY <1>0, <2>1, <2>2, <2>3 DEF Gives, CallFits, ClientFits, AdminFits, InTime, ClientPcs
<1>2. ASSUME NEW i \in Ids, SaveKey(h, i) PROVE Gives(h) /\ CallFits(h)'
  <2>. DEFINE c == [call[h] EXCEPT !.pc = "format", !.id = i]
  <2>1. c \in Call /\ c.pc = "format" /\ c.id = i /\ c.since = call[h].since
    BY <1>0 DEF Call
  <2>2. call' = [call EXCEPT ![h] = c] /\ now' = now
    BY <1>2 DEF SaveKey, Goto, Unchanged
  <2>. HIDE DEF c
  <2>3. call'[h] = c
    BY <1>0, <2>2
  <2>4. keys'[i].status # "unused"
    BY <1>2 DEF SaveKey, IInv, TypeOK
  <2>. QED
    BY <1>0, <2>1, <2>2, <2>3, <2>4 DEF Gives, CallFits, ClientFits, AdminFits, InTime, ClientPcs
<1>3. CASE FormatKey(h)
  <2>. DEFINE c == [call[h] EXCEPT !.pc = "reload"]
  <2>1. c \in Call /\ c.pc = "reload" /\ c.id = call[h].id /\ c.since = call[h].since
    BY <1>0 DEF Call
  <2>2. call' = [call EXCEPT ![h] = c] /\ now' = now
    BY <1>3 DEF FormatKey, Goto, Unchanged
  <2>. HIDE DEF c
  <2>3. call'[h] = c
    BY <1>0, <2>2
  <2>4. call[h].id \in Ids /\ keys[call[h].id].status # "unused"
    BY <1>0, <1>3 DEF FormatKey, CallFits, AdminFits
  <2>5. keys'[call[h].id].status = keys[call[h].id].status
          /\ keys'[call[h].id].formatted = Stored(call[h].id)
    BY <1>3, <2>4 DEF FormatKey, IInv, TypeOK, Row
  <2>. QED
    BY <1>0, <2>1, <2>2, <2>3, <2>4, <2>5
    DEF Gives, CallFits, ClientFits, AdminFits, InTime, ClientPcs, Stored
<1>4. CASE SaveFails(h) \/ ReloadKey(h)
  <2>1. call' = [call EXCEPT ![h] = Idle] /\ now' = now
    BY <1>4 DEF SaveFails, ReloadKey, Unchanged, Goto
  <2>. QED
    BY <1>0, <2>1, IdleFits
<1>. QED
  BY <1>1, <1>2, <1>3, <1>4 DEF Creation

LEMMA ToggleGives ==
    ASSUME IInv, NEW h \in Handlers, Toggle(h)
    PROVE  Gives(h) /\ CallFits(h)'
<1>0. call \in [Handlers -> Call] /\ call[h] \in Call /\ now \in Nat
  BY DEF IInv, TypeOK
<1>1. ASSUME NEW i \in Ids, ReadActivity(h, i) PROVE Gives(h) /\ CallFits(h)'
  <2>. DEFINE c == [Idle EXCEPT !.pc = "toggle", !.id = i, !.isActive = keys[i].isActive,
                                !.text = IF keys[i].formatted THEN TextOf(i) ELSE NoText]
  <2>1. TextOf(i) \in Text /\ keys[i].isActive \in BOOLEAN
    BY <1>1, TextTyped DEF ReadActivity, IInv, TypeOK, Row
  <2>2. c \in Call /\ c.pc = "toggle" /\ c.id = i /\ c.since = 0
    BY <2>1, ConstantsTyped DEF Call, Idle
  <2>3. call' = [call EXCEPT ![h] = c] /\ now' = now /\ keys' = keys /\ Stored(i)
    BY <1>1 DEF ReadActivity, Goto, tables
  <2>. HIDE DEF c
  <2>4. call'[h] = c
    BY <1>0, <2>3
  <2>. QED
    BY <1>0, <2>2, <2>3, <2>4
    DEF Gives, CallFits, ClientFits, AdminFits, InTime, ClientPcs, Stored
<1>2. CASE WriteActivity(h)
  <2>1. call' = [call EXCEPT ![h] = Idle] /\ now' = now
    BY <1>2 DEF WriteActivity, Goto
  <2>. QED
    BY <1>0, <2>1, IdleFits
<1>. QED
  BY <1>1, <1>2 DEF Toggle

-----------------------------------------------------------------------------
(* The calls, after any step.                                               *)

LEMMA ServedGives ==
    ASSUME IInv, NEW h \in Handlers, Guard(h) \/ Creation(h) \/ Toggle(h) \/ Fails(h)
    PROVE  Gives(h) /\ CallFits(h)'
<1>1. CASE Fails(h)
  <2>1. call' = [call EXCEPT ![h] = Idle] /\ now' = now /\ now \in Nat
    BY <1>1 DEF Fails, Goto, IInv, TypeOK
  <2>. QED
    BY <2>1, IdleFits
<1>. QED
  BY <1>1, ClientGives, CreationGives, ToggleGives

LEMMA ServedKeeps ==
    ASSUME IInv, NEW h \in Handlers, Guard(h) \/ Creation(h) \/ Toggle(h) \/ Fails(h)
    PROVE  issued \subseteq issued' /\ UNCHANGED <<owner, wallets, now>>
<1>1. CASE Guard(h)
  BY <1>1, GuardKeepsRows DEF tables
<1>2. CASE Creation(h)
  BY <1>2 DEF Creation, CreateApiKey, SaveKey, SaveFails, FormatKey, ReloadKey, Unchanged
<1>3. CASE Toggle(h) \/ Fails(h)
  BY <1>3 DEF Toggle, ReadActivity, WriteActivity, Fails, tables
<1>. QED
  BY <1>1, <1>2, <1>3

LEMMA TimeGoesOn ==
    ASSUME IInv, [Next]_vars
    PROVE  issued \subseteq issued' /\ now' \in Nat /\ now <= now' /\ now' \in 0..MaxTime
<1>0. now \in 0..MaxTime /\ MaxTime \in Nat
  BY BoundAssumption DEF IInv, TypeOK
<1>1. CASE Tick
  BY <1>0, <1>1 DEF Tick
<1>2. CASE Admin
  <2>1. UNCHANGED <<issued, now>>
    BY <1>2
    DEF Admin, DeleteKey, DeleteApplication, DeleteWallet, CreateApplication, Unchanged
  <2>. QED
    BY <1>0, <2>1
<1>3. CASE Crash \/ UNCHANGED vars
  BY <1>0, <1>3 DEF Crash, vars
<1>. QED
  BY <1>0, <1>1, <1>2, <1>3, ServedKeeps DEF Next

LEMMA CallsNext ==
    ASSUME IInv, [Next]_vars
    PROVE  call' \in [Handlers -> Call] /\ \A h \in Handlers : CallFits(h)'
<1>0. call \in [Handlers -> Call] /\ RowsKept
  BY NextKeepsRows DEF IInv, TypeOK
<1>1. ASSUME NEW h \in Handlers, Guard(h) \/ Creation(h) \/ Toggle(h) \/ Fails(h)
      PROVE  call' \in [Handlers -> Call] /\ \A g \in Handlers : CallFits(g)'
  <2>1. Gives(h) /\ CallFits(h)'
    BY <1>1, ServedGives
  <2>2. call' \in [Handlers -> Call] /\ \A g \in Handlers \ {h} : call'[g] = call[g]
    BY <1>0, <2>1 DEF Gives
  <2>. QED
    BY <1>0, <2>1, <2>2, OthersFit, TimeGoesOn DEF RowsKept
<1>2. CASE call' = call
  BY <1>0, <1>2, OthersFit, TimeGoesOn DEF RowsKept
<1>3. CASE Crash
  <2>1. call' = [h \in Handlers |-> Idle] /\ now' \in Nat
    BY <1>3, TimeGoesOn DEF Crash
  <2>2. ASSUME NEW h \in Handlers PROVE CallFits(h)'
    BY <2>1 DEF CallFits, ClientFits, AdminFits, InTime, ClientPcs, Idle
  <2>. QED
    BY <2>1, <2>2, ConstantsTyped
<1>4. CASE Admin \/ Tick \/ UNCHANGED vars
  BY <1>2, <1>4
  DEF Admin, DeleteKey, DeleteApplication, DeleteWallet, CreateApplication, Unchanged, Tick, vars
<1>. QED
  BY <1>1, <1>3, <1>4 DEF Next

-----------------------------------------------------------------------------
(* The texts, the applications and the toggles, after any step.             *)

LEMMA IssuedNext ==
    ASSUME IInv, [Next]_vars
    PROVE  issued' \subseteq Text /\ IssuedFit'
<1>0. RowsKept /\ issued \subseteq Text
  BY NextKeepsRows DEF IInv, TypeOK
<1>1. ASSUME NEW t \in issued
      PROVE  keys'[t.id].status # "unused"
              /\ (Stored(t.id)' => TextOf(t.id)' = t /\ keys'[t.id].formatted)
  <2>1. t.id \in Ids /\ keys[t.id].status # "unused"
          /\ (Stored(t.id) => TextOf(t.id) = t /\ keys[t.id].formatted)
    BY <1>0 DEF Text, IInv, IssuedFit
  <2>. QED
    BY <1>0, <2>1, StatusOf DEF RowsKept, Evolves, Stored, TextOf
<1>2. CASE issued' = issued
  BY <1>0, <1>1, <1>2 DEF IssuedFit
<1>3. ASSUME NEW h \in Handlers, ReloadKey(h), Stored(call[h].id)
      PROVE  issued' \subseteq Text /\ IssuedFit'
  <2>1. call[h].id \in Ids /\ keys[call[h].id].formatted /\ UNCHANGED keys
          /\ issued' = issued \cup {TextOf(call[h].id)}
    BY <1>3 DEF ReloadKey, IInv, CallFits, AdminFits
  <2>2. TextOf(call[h].id) \in Text /\ TextOf(call[h].id).id = call[h].id
    BY <1>3, <2>1, TextTyped DEF TextOf
  <2>. QED
    BY <1>0, <1>1, <1>3, <2>1, <2>2 DEF IssuedFit, Stored, TextOf
<1>4. ASSUME NEW h \in Handlers, Guard(h) \/ Creation(h) \/ Toggle(h) \/ Fails(h)
      PROVE  issued' = issued \/ (ReloadKey(h) /\ Stored(call[h].id))
  <2>1. CASE Guard(h)
    BY <2>1, GuardKeepsRows
  <2>2. CASE Creation(h)
    BY <2>2 DEF Creation, CreateApiKey, SaveKey, SaveFails, FormatKey, ReloadKey
  <2>3. CASE Toggle(h) \/ Fails(h)
    BY <2>3 DEF Toggle, ReadActivity, WriteActivity, Fails
  <2>. QED
    BY <1>4, <2>1, <2>2, <2>3
<1>5. CASE Admin \/ Tick \/ Crash \/ UNCHANGED vars
  BY <1>2, <1>5
  DEF Admin, DeleteKey, DeleteApplication, DeleteWallet, CreateApplication, Tick, Crash, vars
<1>. QED
  BY <1>2, <1>3, <1>4, <1>5 DEF Next

\* No key outlives its application: the deletions take the keys with them, and
\* the foreign key refuses those that come later.
LEMMA KeysNext ==
    ASSUME IInv, [Next]_vars
    PROVE  /\ wallets' \subseteq Wallets /\ owner' \in [Apps -> wallets' \cup {NoWallet}]
           /\ KeysFit'
<1>0. /\ RowsKept /\ KeysFit /\ keys \in [Ids -> Row]
      /\ wallets \subseteq Wallets /\ owner \in [Apps -> wallets \cup {NoWallet}]
  BY NextKeepsRows DEF IInv, TypeOK
<1>1. ASSUME UNCHANGED <<owner, wallets>>,
             \A i \in Ids : Stored(i)' =>
               \/ Stored(i)
               \/ /\ keys'[i].app \in Apps /\ IsApplication(keys'[i].app)
                  /\ keys'[i].secret # 0
      PROVE  KeysFit'
  BY <1>0, <1>1 DEF KeysFit, RowsKept, Evolves, IsApplication
<1>2. ASSUME NEW h \in Handlers, Guard(h) \/ Creation(h) \/ Toggle(h) \/ Fails(h)
      PROVE  KeysFit'
  <2>1. CASE \E i \in Ids : SaveKey(h, i)
    <3>1. PICK i \in Ids : SaveKey(h, i)
      BY <2>1
    <3>2. call[h].app \in Apps /\ IsApplication(call[h].app)
      BY <3>1 DEF SaveKey, IInv, CallFits, AdminFits
    <3>3. /\ keys'[i].app = call[h].app /\ keys'[i].secret = drawn + 1
          /\ \A j \in Ids \ {i} : keys'[j] = keys[j]
      BY <1>0, <3>1 DEF SaveKey
    <3>4. drawn + 1 # 0
      BY DEF IInv, TypeOK
    <3>. QED
      BY <1>1, <1>2, <3>2, <3>3, <3>4, ServedKeeps DEF Stored
  <2>2. CASE ~\E i \in Ids : SaveKey(h, i)
    <3>1. \/ UNCHANGED keys
          \/ FormatKey(h)
          \/ WriteActivity(h)
      BY <1>2, <2>2, GuardKeepsRows
      DEF Creation, CreateApiKey, SaveFails, ReloadKey, Toggle, ReadActivity, Fails, tables
    <3>2. \A i \in Ids : keys'[i].status = keys[i].status
      <4>1. CASE FormatKey(h) \/ WriteActivity(h)
        <5>1. call[h].id \in Ids
          BY <4>1 DEF IInv, CallFits, AdminFits, FormatKey, WriteActivity
        <5>2. CASE FormatKey(h)
          BY <1>0, <5>1, <5>2 DEF FormatKey, Row
        <5>3. CASE WriteActivity(h)
          BY <1>0, <5>1, <5>3 DEF WriteActivity, Row
        <5>. QED
          BY <4>1, <5>2, <5>3
      <4>. QED
        BY <3>1, <4>1
    <3>. QED
      BY <1>1, <1>2, <3>2, ServedKeeps DEF Stored
  <2>. QED
    BY <2>1, <2>2
<1>3. ASSUME NEW i \in Ids, DeleteKey(i) PROVE KeysFit'
  <2>1. UNCHANGED <<owner, wallets>> /\ \A j \in Ids : Stored(j)' => Stored(j)
    BY <1>3 DEF DeleteKey, Unchanged, WithoutKeys, Stored, Deleted, Unused
  <2>. QED
    BY <1>1, <2>1
<1>4. ASSUME NEW A, keys' = WithoutKeys(KeysOf(A)), NEW w \in SUBSET Wallets,
             owner' \in [Apps -> w \cup {NoWallet}], \A a \in Apps \ A : owner'[a] = owner[a]
      PROVE  KeysFit'
  <2>1. ASSUME NEW i \in Ids, Stored(i)' PROVE Stored(i) /\ keys'[i] = keys[i] /\ keys[i].app \notin A
    BY <1>4, <2>1 DEF WithoutKeys, KeysOf, Stored, Deleted, Unused
  <2>. QED
    BY <1>0, <1>4, <2>1 DEF KeysFit, IsApplication
<1>5. ASSUME NEW a \in Apps, DeleteApplication(a)
      PROVE  owner' \in [Apps -> wallets \cup {NoWallet}] /\ wallets' = wallets /\ KeysFit'
  <2>1. owner' = [owner EXCEPT ![a] = NoWallet] /\ wallets' = wallets
          /\ keys' = WithoutKeys(KeysOf({a}))
    BY <1>5 DEF DeleteApplication
  <2>2. owner' \in [Apps -> wallets \cup {NoWallet}]
    BY <1>0, <2>1
  <2>3. \A b \in Apps \ {a} : owner'[b] = owner[b]
    BY <1>0, <2>1
  <2>. QED
    BY <1>0, <1>4, <2>1, <2>2, <2>3
<1>6. ASSUME NEW w \in Wallets, DeleteWallet(w)
      PROVE  /\ owner' \in [Apps -> wallets' \cup {NoWallet}] /\ wallets' = wallets \ {w}
             /\ KeysFit'
  <2>. DEFINE gone == {a \in Apps : owner[a] = w}
  <2>1. owner' = [a \in Apps |-> IF a \in gone THEN NoWallet ELSE owner[a]]
          /\ wallets' = wallets \ {w} /\ keys' = WithoutKeys(KeysOf(gone))
    BY <1>6 DEF DeleteWallet
  <2>2. owner' \in [Apps -> wallets' \cup {NoWallet}] /\ \A a \in Apps \ gone : owner'[a] = owner[a]
    BY <1>0, <2>1
  <2>3. wallets' \in SUBSET Wallets
    BY <1>0, <2>1
  <2>. HIDE DEF gone
  <2>. QED
    BY <1>4, <2>1, <2>2, <2>3
<1>7. ASSUME NEW a \in Apps, NEW w \in Wallets, CreateApplication(a, w)
      PROVE  owner' \in [Apps -> wallets \cup {NoWallet}] /\ wallets' = wallets /\ KeysFit'
  <2>1. owner' = [owner EXCEPT ![a] = w] /\ w \in wallets /\ UNCHANGED <<keys, wallets>>
    BY <1>7 DEF CreateApplication
  <2>2. w # NoWallet
    BY NullAssumption
  <2>. QED
    BY <1>0, <2>1, <2>2 DEF KeysFit, Stored, IsApplication
<1>8. CASE Tick \/ Crash \/ UNCHANGED vars
  BY <1>0, <1>1, <1>8 DEF Tick, Crash, vars, tables, Stored
<1>9. CASE Admin
  BY <1>0, <1>3, <1>5, <1>6, <1>7, <1>9 DEF Admin, DeleteKey, Unchanged
<1>10. CASE \E h \in Handlers : Guard(h) \/ Creation(h) \/ Toggle(h) \/ Fails(h)
  BY <1>0, <1>2, <1>10, ServedKeeps
<1>. QED
  BY <1>8, <1>9, <1>10 DEF Next

\* A toggle that reads the row while no other one of the key is under way holds
\* what the row holds until it writes it.
LEMMA TogglesServed ==
    ASSUME IInv, NEW h \in Handlers, Guard(h) \/ Creation(h) \/ Toggle(h) \/ Fails(h)
    PROVE  TogglesFit' /\ expected' \in [Ids -> BOOLEAN] /\ raced' \subseteq Ids
<1>0. /\ call \in [Handlers -> Call] /\ keys \in [Ids -> Row] /\ TogglesFit
      /\ expected \in [Ids -> BOOLEAN] /\ raced \subseteq Ids
  BY DEF IInv, TypeOK
<1>1. Gives(h) /\ \A g \in Handlers \ {h} : call'[g] = call[g]
  BY <1>0, ServedGives DEF Gives
<1>2. ASSUME UNCHANGED <<expected, raced>>, call'[h].pc # "toggle",
             \A i \in Ids : keys'[i].status = "unused" => keys[i].status = "unused",
             \A i \in Ids : Stored(i)' =>
               \/ Stored(i) /\ keys'[i].isActive = keys[i].isActive
               \/ keys[i].status = "unused" /\ keys'[i].isActive = TRUE
      PROVE  TogglesFit' /\ expected' \in [Ids -> BOOLEAN] /\ raced' \subseteq Ids
  <2>1. ASSUME NEW g \in Handlers, NEW i \in Ids, IsToggling(g, i)'
        PROVE  g # h /\ IsToggling(g, i) /\ call'[g].isActive = call[g].isActive
                /\ keys[i].status # "unused"
    BY <1>1, <1>2, <2>1 DEF IsToggling, IInv, CallFits, AdminFits
  <2>2. ASSUME NEW i \in Ids, keys'[i].status = "unused" PROVE expected'[i]
    BY <1>0, <1>2, <2>2 DEF TogglesFit
  <2>3. ASSUME NEW i \in Ids, Stored(i)', i \notin raced'
        PROVE  keys'[i].isActive = expected'[i]
    <3>1. CASE Stored(i) /\ keys'[i].isActive = keys[i].isActive
      BY <1>0, <1>2, <2>3, <3>1 DEF TogglesFit
    <3>2. CASE keys[i].status = "unused" /\ keys'[i].isActive = TRUE
      <4>1. expected[i] = TRUE
        BY <1>0, <3>2 DEF TogglesFit
      <4>. QED
        BY <1>2, <3>2, <4>1
    <3>. QED
      BY <1>2, <2>3, <3>1, <3>2
  <2>4. ASSUME NEW i \in Ids, Stored(i)', i \notin raced', NEW g \in Handlers, IsToggling(g, i)'
        PROVE  call'[g].isActive = keys'[i].isActive
    <3>1. Stored(i) /\ keys'[i].isActive = keys[i].isActive
      BY <1>2, <2>1, <2>4
    <3>. QED
      BY <1>0, <1>2, <2>1, <2>4, <3>1 DEF TogglesFit
  <2>5. ASSUME NEW i \in Ids, NEW f \in Handlers, NEW g \in Handlers,
               IsToggling(f, i)', IsToggling(g, i)', f # g
        PROVE  i \in raced'
    BY <1>0, <1>2, <2>1, <2>5 DEF TogglesFit
  <2>. QED
    BY <1>0, <1>2, <2>2, <2>3, <2>4, <2>5 DEF TogglesFit
<1>3. CASE Guard(h) \/ Fails(h) \/ SaveFails(h) \/ ReloadKey(h)
           \/ \E a \in Apps, until \in Limits : CreateApiKey(h, a, until)
  <2>1. UNCHANGED <<keys, expected, raced>>
    BY <1>3, GuardKeepsRows
    DEF Fails, SaveFails, ReloadKey, CreateApiKey, Unchanged, tables, history
  <2>2. call'[h].pc # "toggle"
    <3>1. CASE \/ Refused(h) \/ HandledWithoutLookup(h) \/ LookupThrows(h) \/ ReadChain(h)
               \/ Handled(h) \/ Fails(h) \/ SaveFails(h) \/ ReloadKey(h)
      BY <1>0, <3>1
      DEF Refused, HandledWithoutLookup, LookupThrows, ReadChain, Handled, Fails, SaveFails,
          ReloadKey, Goto, Idle
    <3>2. CASE (\E t \in Presentable : Present(h, t))
               \/ \E a \in Apps, until \in Limits : CreateApiKey(h, a, until)
      BY <1>0, <3>2 DEF Present, CreateApiKey, Goto, Idle
    <3>3. CASE IsActiveKey(h) \/ FindOneByKey(h)
      BY <1>0, <3>3 DEF IsActiveKey, FindOneByKey, Goto, Call
    <3>4. CASE FindApplicationByApiKey(h) \/ FindWalletByApiKey(h)
      BY <1>0, <3>4 DEF FindApplicationByApiKey, FindWalletByApiKey, Goto, Call
    <3>. QED
      BY <1>3, <3>1, <3>2, <3>3, <3>4 DEF Guard
  <2>. QED
    BY <1>2, <2>1, <2>2 DEF Stored
<1>4. ASSUME NEW i \in Ids, SaveKey(h, i)
      PROVE  TogglesFit' /\ expected' \in [Ids -> BOOLEAN] /\ raced' \subseteq Ids
  <2>1. UNCHANGED <<expected, raced>> /\ call'[h].pc # "toggle"
    BY <1>0, <1>4 DEF SaveKey, Unchanged, history, Goto, Call
  <2>2. keys'[i].isActive = TRUE /\ keys'[i].status = "stored" /\ keys[i].status = "unused"
          /\ \A j \in Ids \ {i} : keys'[j] = keys[j]
    BY <1>0, <1>4 DEF SaveKey
  <2>. QED
    BY <1>2, <2>1, <2>2 DEF Stored
<1>5. CASE FormatKey(h)
  <2>1. UNCHANGED <<expected, raced>> /\ call'[h].pc # "toggle"
    BY <1>0, <1>5 DEF FormatKey, Unchanged, history, Goto, Call
  <2>2. call[h].id \in Ids
    BY <1>5 DEF FormatKey, IInv, CallFits, AdminFits
  <2>3. \A i \in Ids : keys'[i].status = keys[i].status /\ keys'[i].isActive = keys[i].isActive
    BY <1>0, <1>5, <2>2 DEF FormatKey, Row
  <2>. QED
    BY <1>2, <2>1, <2>3 DEF Stored
<1>6. ASSUME NEW i \in Ids, ReadActivity(h, i)
      PROVE  TogglesFit' /\ expected' \in [Ids -> BOOLEAN] /\ raced' \subseteq Ids
  <2>1. UNCHANGED <<keys, expected>> /\ Stored(i)
          /\ raced' = IF \E g \in Handlers : IsToggling(g, i) THEN raced \cup {i} ELSE raced
    BY <1>6 DEF ReadActivity, tables, IsToggling
  <2>2. call'[h].id = i /\ call'[h].isActive = keys[i].isActive /\ call[h].pc = "idle"
    BY <1>0, <1>6 DEF ReadActivity, Goto, Idle
  <2>3. ASSUME NEW g \in Handlers, NEW j \in Ids, IsToggling(g, j)', g # h
        PROVE  IsToggling(g, j) /\ call'[g].isActive = call[g].isActive
    BY <1>1, <2>3 DEF IsToggling
  <2>4. raced \subseteq raced' /\ raced' \subseteq Ids
    BY <1>0, <2>1
  <2>5. ASSUME NEW j \in Ids, Stored(j), j \notin raced', NEW g \in Handlers, IsToggling(g, j)'
        PROVE  call'[g].isActive = keys[j].isActive
    <3>1. CASE g = h
      BY <2>2, <2>5, <3>1 DEF IsToggling
    <3>2. CASE g # h
      BY <1>0, <2>3, <2>4, <2>5, <3>2 DEF TogglesFit
    <3>. QED
      BY <3>1, <3>2
  <2>6. ASSUME NEW j \in Ids, NEW f \in Handlers, NEW g \in Handlers,
               IsToggling(f, j)', IsToggling(g, j)', f # g
        PROVE  j \in raced'
    <3>1. CASE f # h /\ g # h
      BY <1>0, <2>3, <2>4, <2>6, <3>1 DEF TogglesFit
    <3>2. CASE f = h \/ g = h
      <4>1. j = i /\ \E e \in Handlers : IsToggling(e, i)
        BY <2>2, <2>3, <2>6, <3>2 DEF IsToggling
      <4>. QED
        BY <2>1, <4>1
    <3>. QED
      BY <3>1, <3>2
  <2>. QED
    BY <1>0, <2>1, <2>4, <2>5, <2>6 DEF TogglesFit, Stored
<1>7. CASE WriteActivity(h)
  <2>. DEFINE i == call[h].id
  <2>1. i \in Ids /\ keys[i].status # "unused" /\ IsToggling(h, i)
    BY <1>7 DEF WriteActivity, IInv, CallFits, AdminFits, IsToggling
  <2>2. expected' = [expected EXCEPT ![i] = ~@] /\ raced' = raced /\ call'[h] = Idle
    BY <1>0, <1>7 DEF WriteActivity, Toggled, Goto
  <2>3. keys' = IF Stored(i) THEN [keys EXCEPT ![i].isActive = ~call[h].isActive] ELSE keys
    BY <1>7 DEF WriteActivity
  <2>4. /\ \A j \in Ids : keys'[j].status = keys[j].status
        /\ \A j \in Ids \ {i} : keys'[j] = keys[j] /\ expected'[j] = expected[j]
        /\ expected'[i] = ~expected[i]
        /\ Stored(i) => keys'[i].isActive = ~call[h].isActive
    BY <1>0, <2>1, <2>2, <2>3 DEF Row
  <2>. HIDE DEF i
  <2>5. ASSUME NEW g \in Handlers, NEW j \in Ids, IsToggling(g, j)'
        PROVE  g # h /\ IsToggling(g, j) /\ call'[g].isActive = call[g].isActive
                /\ (j = i => i \in raced)
    <3>1. g # h
      BY <2>2, <2>5 DEF IsToggling, Idle
    <3>2. IsToggling(g, j) /\ call'[g].isActive = call[g].isActive
      BY <1>1, <2>5, <3>1 DEF IsToggling
    <3>3. j = i => i \in raced
      BY <1>0, <2>1, <3>1, <3>2 DEF TogglesFit
    <3>. QED
      BY <3>1, <3>2, <3>3
  <2>6. ASSUME Stored(i), i \notin raced PROVE keys'[i].isActive = expected'[i]
    <3>1. call[h].isActive = keys[i].isActive /\ keys[i].isActive = expected[i]
      BY <1>0, <2>1, <2>6 DEF TogglesFit
    <3>. QED
      BY <2>4, <2>6, <3>1
  <2>7. ASSUME NEW j \in Ids, Stored(j)', j \notin raced
        PROVE  /\ keys'[j].isActive = expected'[j]
               /\ \A g \in Handlers : IsToggling(g, j)' => call'[g].isActive = keys'[j].isActive
    <3>1. Stored(j)
      BY <2>4, <2>7 DEF Stored
    <3>2. CASE j = i
      BY <2>5, <2>6, <2>7, <3>1, <3>2
    <3>3. CASE j # i
      <4>1. keys'[j] = keys[j] /\ expected'[j] = expected[j]
        BY <2>4, <3>3
      <4>. QED
        BY <1>0, <2>5, <2>7, <3>1, <4>1 DEF TogglesFit
    <3>. QED
      BY <3>2, <3>3
  <2>8. \A j \in Ids : keys'[j].status = "unused" => expected'[j]
    BY <1>0, <2>1, <2>4 DEF TogglesFit
  <2>9. ASSUME NEW j \in Ids, NEW f \in Handlers, NEW g \in Handlers,
               IsToggling(f, j)', IsToggling(g, j)', f # g
        PROVE  j \in raced'
    BY <1>0, <2>2, <2>5, <2>9 DEF TogglesFit
  <2>10. expected' \in [Ids -> BOOLEAN]
    BY <1>0, <2>2
  <2>. QED
    BY <1>0, <2>2, <2>7, <2>8, <2>9, <2>10 DEF TogglesFit
<1>. QED
  BY <1>3, <1>4, <1>5, <1>6, <1>7 DEF Creation, Toggle

LEMMA TogglesNext ==
    ASSUME IInv, [Next]_vars
    PROVE  TogglesFit' /\ expected' \in [Ids -> BOOLEAN] /\ raced' \subseteq Ids
<1>0. /\ TogglesFit /\ expected \in [Ids -> BOOLEAN] /\ raced \subseteq Ids
      /\ keys \in [Ids -> Row]
  BY DEF IInv, TypeOK
<1>1. ASSUME UNCHANGED <<call, history>>, NEW gone, keys' = WithoutKeys(gone)
      PROVE  TogglesFit' /\ expected' \in [Ids -> BOOLEAN] /\ raced' \subseteq Ids
  <2>1. \A i \in Ids : keys'[i] = Deleted \/ keys'[i] = keys[i]
    BY <1>1 DEF WithoutKeys
  <2>2. Deleted.status = "deleted"
    BY DEF Deleted, Unused
  <2>. QED
    BY <1>0, <1>1, <2>1, <2>2 DEF TogglesFit, IsToggling, Stored, history
<1>2. CASE UNCHANGED <<call, keys, history>>
  BY <1>0, <1>2 DEF TogglesFit, IsToggling, Stored, history
<1>3. CASE Admin
  BY <1>1, <1>2, <1>3
  DEF Admin, DeleteKey, DeleteApplication, DeleteWallet, CreateApplication, Unchanged
<1>4. CASE Crash
  <2>1. call' = [h \in Handlers |-> Idle] /\ UNCHANGED <<keys, history>>
    BY <1>4 DEF Crash, tables
  <2>2. \A h \in Handlers, i \in Ids : ~IsToggling(h, i)'
    BY <2>1 DEF IsToggling, Idle
  <2>. QED
    BY <1>0, <2>1, <2>2 DEF TogglesFit, Stored, history
<1>5. CASE Tick \/ UNCHANGED vars
  BY <1>2, <1>5 DEF Tick, vars, tables, history
<1>. QED
  BY <1>3, <1>4, <1>5, TogglesServed DEF Next

LEMMA CountersNext ==
    ASSUME IInv, [Next]_vars
    PROVE  drawn' \in Nat /\ calls' \in Nat /\ failures' \in Nat
<1>0. drawn \in Nat /\ calls \in Nat /\ failures \in Nat
  BY DEF IInv, TypeOK
<1>1. /\ drawn' \in {drawn, drawn + 1} /\ calls' \in {calls, calls + 1}
      /\ failures' \in {failures, failures + 1}
  <2>1. ASSUME NEW h \in Handlers, \E t \in Presentable : Present(h, t)
        PROVE  drawn' = drawn /\ calls' = calls + 1 /\ failures' = failures
    BY <2>1 DEF Present, Arrives
  <2>2. ASSUME NEW h \in Handlers, Guard(h), ~\E t \in Presentable : Present(h, t)
        PROVE  drawn' = drawn /\ calls' = calls /\ failures' = failures
    BY <2>2
    DEF Guard, IsActiveKey, Refused, FindOneByKey, HandledWithoutLookup,
        FindApplicationByApiKey, FindWalletByApiKey, LookupThrows, ReadChain, Handled
  <2>3. ASSUME NEW h \in Handlers, Creation(h)
        PROVE  drawn' \in {drawn, drawn + 1} /\ calls' \in {calls, calls + 1} /\ failures' = failures
    BY <2>3 DEF Creation, CreateApiKey, SaveKey, SaveFails, FormatKey, ReloadKey, Arrives
  <2>4. ASSUME NEW h \in Handlers, Toggle(h) \/ Fails(h)
        PROVE  /\ drawn' = drawn /\ calls' \in {calls, calls + 1}
               /\ failures' \in {failures, failures + 1}
    BY <2>4 DEF Toggle, ReadActivity, WriteActivity, Fails, Arrives, FailureLeft
  <2>5. CASE Admin
    BY <2>5
    DEF Admin, DeleteKey, DeleteApplication, DeleteWallet, CreateApplication, Arrives
  <2>6. CASE Tick \/ Crash \/ UNCHANGED vars
    BY <2>6 DEF Tick, Crash, vars, FailureLeft
  <2>. QED
    BY <2>1, <2>2, <2>3, <2>4, <2>5, <2>6 DEF Next
<1>. QED
  BY <1>0, <1>1

LEMMA InvNext == IInv /\ [Next]_vars => IInv'
<1>. SUFFICES ASSUME IInv, [Next]_vars PROVE IInv'
  OBVIOUS
<1>1. keys' \in [Ids -> Row]
  BY NextKeepsRows DEF RowsKept
<1>. QED
  BY <1>1, CallsNext, IssuedNext, KeysNext, TogglesNext, TimeGoesOn, CountersNext
  DEF IInv, TypeOK

-----------------------------------------------------------------------------
(* Theorems.                                                                *)

\* The invariant that all of the others follow from: what a call has read of a
\* key is what was issued, and the row holds it as long as it is there.
THEOREM IInvHolds == Spec => []IInv
BY TypeInit, InvNext, PTL DEF Spec

\* Keys, applications, wallets and calls are well typed, and an application
\* never refers to a wallet that is gone.
THEOREM TypeCorrect == Spec => []TypeOK
BY IInvHolds, PTL DEF IInv

\* A stored key holds the text its administrator was given, whatever writes its
\* row later.
THEOREM IssuedIsStoredHolds == Spec => []IssuedIsStored
<1>1. IInv => IssuedIsStored
  BY DEF IInv, IssuedFit, IssuedIsStored
<1>. QED
  BY <1>1, IInvHolds, PTL

\* The three reads of ApiKeyGuard and of the route find the same key and its
\* application, or nothing, whatever is deleted and created in between.
THEOREM AttachedIsPresentedHolds == Spec => []AttachedIsPresented
<1>1. IInv => AttachedIsPresented
  BY DEF IInv, CallFits, ClientFits, ClientPcs, AttachedIsPresented, Admitted
<1>. QED
  BY <1>1, IInvHolds, PTL

\* A call that passed the guard with a key that expires came before it did.
THEOREM ExpiredIsRefusedHolds == Spec => []ExpiredIsRefused
<1>1. IInv => ExpiredIsRefused
  BY DEF IInv, CallFits, InTime, ClientPcs, ExpiredIsRefused, Admitted
<1>. QED
  BY <1>1, IInvHolds, PTL

\* No key outlives its application.
THEOREM KeyHasApplicationHolds == Spec => []KeyHasApplication
<1>1. IInv => KeyHasApplication
  BY DEF IInv, KeysFit, KeyHasApplication
<1>. QED
  BY <1>1, IInvHolds, PTL

\* Of toggles that do not overlap none is lost, and nothing else changes what
\* they leave.
THEOREM TogglesAlternateHolds == Spec => []TogglesAlternate
<1>1. IInv => TogglesAlternate
  BY DEF IInv, TogglesFit, TogglesAlternate
<1>. QED
  BY <1>1, IInvHolds, PTL

\* No step brings a deleted key back: not the update of createKey, nor the
\* write of a toggle.
THEOREM DeletedKeyStaysDeletedHolds == Spec => DeletedKeyStaysDeleted
<1>1. IInv /\ [Next]_vars =>
        [\A i \in Ids : keys[i].status = "deleted" => keys'[i].status = "deleted"]_vars
  BY NextKeepsRows DEF RowsKept, Evolves
<1>. QED
  BY <1>1, IInvHolds, PTL DEF Spec, DeletedKeyStaysDeleted
=============================================================================
