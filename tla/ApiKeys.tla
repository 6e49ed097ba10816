------------------------------- MODULE ApiKeys -------------------------------
(***************************************************************************)
(* API keys: the administrator creates, toggles and deletes them, deletes  *)
(* and re-creates the applications and the wallets they belong to, while   *)
(* clients present them to ApiKeyGuard on /api.  Every access of the       *)
(* tables is an await: one call is a row of steps, which interleave with   *)
(* those of the other calls.                                               *)
(***************************************************************************)
EXTENDS Naturals

CONSTANTS
    Ids,        \* the ids the primary key sequence of "api-key" can give
    Apps,       \* the vbIds an administrator registers
    Wallets,    \* the wallets (walletId)
    Handlers,   \* slots for calls being served at the same time
    NoId, NoApp, NoWallet,  \* null
    NoLimit,    \* activeUntil left out: the column is NULL
    Limits,     \* the expiry times an administrator gives, and NoLimit
    MaxTime,    \* bound on the clock
    MaxCalls,   \* bound on the calls that arrive
    MaxFailures \* bound on the calls given up and the crashes

ASSUME NullAssumption ==
    NoId \notin Ids /\ NoApp \notin Apps /\ NoWallet \notin Wallets
ASSUME LimitsAssumption == Limits \subseteq Nat \cup {NoLimit} /\ NoLimit \notin Nat
ASSUME BoundAssumption == MaxTime \in Nat

VARIABLES
    keys,     \* keys[i]: the row of id i in "api-key"
    owner,    \* owner[a]: the wallet of application a; NoWallet if there is no such row
    wallets,  \* the rows of "wallet"
    issued,   \* the key texts an administrator was given
    call,     \* call[h]: the call slot h is serving
    now,      \* the clock
    drawn,    \* how many secrets were drawn
    calls,    \* how many calls arrived
    failures, \* how many calls were given up, and crashes
    expected, \* history: expected[i] is isActive as the toggles of key i leave it
    raced     \* history: the keys of which two toggles overlapped

tables == <<keys, owner, wallets>>
history == <<expected, raced>>
vars == <<keys, owner, wallets, issued, call, now, drawn, calls, failures, expected, raced>>

-----------------------------------------------------------------------------
(* Data.  A key text is cmts:<id>:<vbId>:<secret>.  While a key is being    *)
(* created its row holds the secret alone.                                  *)

Text == [id : Ids, app : Apps, secret : Nat]
NoText == [id |-> NoId, app |-> NoApp, secret |-> 0]

\* What a client can present: a key an administrator was given, a text of that
\* format with a secret that was never drawn (0), and none, or one of which
\* parseKey makes no id.
Guesses == [id : Ids, app : Apps, secret : {0}]
Presentable == issued \cup Guesses \cup {NoText}

Row == [status : {"unused", "stored", "deleted"}, app : Apps \cup {NoApp}, secret : Nat,
        formatted : BOOLEAN, isActive : BOOLEAN, activeUntil : Limits \cup {NoLimit}]
Unused == [status |-> "unused", app |-> NoApp, secret |-> 0,
           formatted |-> FALSE, isActive |-> FALSE, activeUntil |-> NoLimit]
Deleted == [Unused EXCEPT !.status = "deleted"]

\* since: when the call arrived; attached: the entity ApiKeyGuard put on the request
Call == [pc : {"idle", "isActiveKey", "findOneByKey", "admitted", "handle", "readChain",
               "save", "format", "reload", "toggle"},
         id : Ids \cup {NoId}, text : Text \cup {NoText}, attached : Text \cup {NoText},
         app : Apps \cup {NoApp}, wallet : Wallets \cup {NoWallet},
         until : Limits \cup {NoLimit}, isActive : BOOLEAN, since : Nat]
Idle == [pc |-> "idle", id |-> NoId, text |-> NoText, attached |-> NoText, app |-> NoApp,
         wallet |-> NoWallet, until |-> NoLimit, isActive |-> FALSE, since |-> 0]

Stored(i) == keys[i].status = "stored"
IsApplication(a) == owner[a] # NoWallet
TextOf(i) == [id |-> i, app |-> keys[i].app, secret |-> keys[i].secret]

TypeOK ==
    /\ keys \in [Ids -> Row]
    /\ owner \in [Apps -> wallets \cup {NoWallet}]
    /\ wallets \subseteq Wallets
    /\ issued \subseteq Text
    /\ call \in [Handlers -> Call]
    /\ now \in 0..MaxTime
    /\ drawn \in Nat /\ calls \in Nat /\ failures \in Nat
    /\ expected \in [Ids -> BOOLEAN] /\ raced \subseteq Ids

Init ==
    /\ keys = [i \in Ids |-> Unused]
    /\ wallets = Wallets
    /\ owner \in [Apps -> Wallets]
    /\ issued = {}
    /\ call = [h \in Handlers |-> Idle]
    /\ now = 0 /\ drawn = 0 /\ calls = 0 /\ failures = 0
    /\ expected = [i \in Ids |-> TRUE] /\ raced = {}

\* Bounds of the model.
Arrives == calls < MaxCalls /\ calls' = calls + 1
FailureLeft == failures < MaxFailures /\ failures' = failures + 1

Goto(h, c) == call' = [call EXCEPT ![h] = c]
Unchanged == UNCHANGED <<wallets, owner, now, history>>

-----------------------------------------------------------------------------
(* A client presents a text.                                                *)

Present(h, t) ==
    /\ call[h].pc = "idle" /\ Arrives
    /\ t \in Presentable
    /\ Goto(h, [Idle EXCEPT !.pc = "isActiveKey", !.id = t.id, !.text = t, !.since = now])
    /\ Unchanged /\ UNCHANGED <<keys, issued, drawn, failures>>

\* Mutants: the expiry, or the text, is not looked at.
IsActiveForever(t) ==
    /\ t # NoText /\ Stored(t.id) /\ keys[t.id].isActive
    /\ keys[t.id].formatted /\ TextOf(t.id) = t

IsActiveOfId(t) ==
    /\ t # NoText /\ Stored(t.id) /\ keys[t.id].isActive
    /\ keys[t.id].activeUntil # NoLimit /\ keys[t.id].activeUntil > now

\* The row of the id in the text must be active and hold the text.  A NULL
\* activeUntil is not undefined, and null > new Date() is false.
IsActive(t) ==
    /\ t # NoText /\ Stored(t.id) /\ keys[t.id].isActive
    /\ keys[t.id].formatted /\ TextOf(t.id) = t
    /\ keys[t.id].activeUntil # NoLimit /\ keys[t.id].activeUntil > now

IsActiveKey(h) ==
    /\ call[h].pc = "isActiveKey"
    /\ IsActive(call[h].text)
    /\ Goto(h, [call[h] EXCEPT !.pc = "findOneByKey"])
    /\ Unchanged /\ UNCHANGED <<keys, issued, drawn, calls, failures>>

\* 403: the guard returns false; parseKey throws.
Refused(h) ==
    /\ call[h].pc = "isActiveKey"
    /\ ~IsActive(call[h].text)
    /\ Goto(h, Idle)
    /\ Unchanged /\ UNCHANGED <<keys, issued, drawn, calls, failures>>

\* The row is read again, by its id alone; it may be gone.
FindOneByKey(h) ==
    /\ call[h].pc = "findOneByKey"
    /\ Goto(h, [call[h] EXCEPT
         !.pc = "admitted",
         !.attached = IF Stored(call[h].id) THEN TextOf(call[h].id) ELSE NoText])
    /\ Unchanged /\ UNCHANGED <<keys, issued, drawn, calls, failures>>

\* What the route then looks up, by the id of the attached key: nothing, the
\* application, or the wallet of the application.
HandledWithoutLookup(h) ==
    /\ call[h].pc = "admitted"
    /\ Goto(h, Idle)
    /\ Unchanged /\ UNCHANGED <<keys, issued, drawn, calls, failures>>

FindApplicationByApiKey(h) ==
    /\ call[h].pc = "admitted"
    /\ call[h].attached # NoText
    /\ Goto(h, [call[h] EXCEPT
         !.pc = "handle",
         !.app = IF Stored(call[h].id) THEN keys[call[h].id].app ELSE NoApp])
    /\ Unchanged /\ UNCHANGED <<keys, issued, drawn, calls, failures>>

FindWalletByApiKey(h) ==
    /\ call[h].pc = "admitted"
    /\ call[h].attached # NoText
    /\ Stored(call[h].id)
    /\ Goto(h, [call[h] EXCEPT !.pc = "readChain", !.wallet = owner[keys[call[h].id].app]])
    /\ Unchanged /\ UNCHANGED <<keys, issued, drawn, calls, failures>>

\* apiKey.id of a key that is gone, and the provider of no wallet, are errors.
LookupThrows(h) ==
    /\ call[h].pc = "admitted"
    /\ call[h].attached = NoText \/ ~Stored(call[h].id)
    /\ Goto(h, Idle)
    /\ Unchanged /\ UNCHANGED <<keys, issued, drawn, calls, failures>>

\* One read of the chain through the endpoint of the wallet; nothing is kept.
ReadChain(h) ==
    /\ call[h].pc = "readChain"
    /\ Goto(h, Idle)
    /\ Unchanged /\ UNCHANGED <<keys, issued, drawn, calls, failures>>

Handled(h) ==
    /\ call[h].pc = "handle"
    /\ Goto(h, Idle)
    /\ Unchanged /\ UNCHANGED <<keys, issued, drawn, calls, failures>>

-----------------------------------------------------------------------------
(* The administrator creates a key: the row is inserted with the secret,    *)
(* updated with the text that holds its id, and read back.                  *)

CreateApiKey(h, a, until) ==
    /\ call[h].pc = "idle" /\ Arrives
    /\ IsApplication(a)
    /\ Goto(h, [Idle EXCEPT !.pc = "save", !.app = a, !.until = until])
    /\ Unchanged /\ UNCHANGED <<keys, issued, drawn, failures>>

\* The insert fails, by the foreign key, if the application is gone.
SaveKey(h, i) ==
    /\ call[h].pc = "save"
    /\ IsApplication(call[h].app)
    /\ keys[i].status = "unused"
    /\ keys' = [keys EXCEPT ![i] =
         [status |-> "stored", app |-> call[h].app, secret |-> drawn + 1,
          formatted |-> FALSE, isActive |-> TRUE, activeUntil |-> call[h].until]]
    /\ drawn' = drawn + 1
    /\ Goto(h, [call[h] EXCEPT !.pc = "format", !.id = i])
    /\ Unchanged /\ UNCHANGED <<issued, calls, failures>>

SaveFails(h) ==
    /\ call[h].pc = "save"
    /\ ~IsApplication(call[h].app)
    /\ Goto(h, Idle)
    /\ Unchanged /\ UNCHANGED <<keys, issued, drawn, calls, failures>>

FormatKeySaved(h) ==  \* Mutant: save() of the entity, which inserts it if it is gone.
    /\ call[h].pc = "format"
    /\ keys' = [keys EXCEPT ![call[h].id] =
         [@ EXCEPT !.status = "stored", !.formatted = TRUE]]
    /\ Goto(h, [call[h] EXCEPT !.pc = "reload"])
    /\ Unchanged /\ UNCHANGED <<issued, drawn, calls, failures>>

FormatKeyOfEntity(h) ==  \* Mutant: the columns of the new entity are written again.
    /\ call[h].pc = "format"
    /\ keys' = [keys EXCEPT ![call[h].id].formatted = Stored(call[h].id),
                            ![call[h].id].isActive = Stored(call[h].id)]
    /\ Goto(h, [call[h] EXCEPT !.pc = "reload"])
    /\ Unchanged /\ UNCHANGED <<issued, drawn, calls, failures>>

\* update() of the column apiKey, and of no row if the key is deleted.
FormatKey(h) ==
    /\ call[h].pc = "format"
    /\ keys' = [keys EXCEPT ![call[h].id].formatted = Stored(call[h].id)]
    /\ Goto(h, [call[h] EXCEPT !.pc = "reload"])
    /\ Unchanged /\ UNCHANGED <<issued, drawn, calls, failures>>

\* The administrator is answered the row, or nothing.
ReloadKey(h) ==
    /\ call[h].pc = "reload"
    /\ issued' = IF Stored(call[h].id) THEN issued \cup {TextOf(call[h].id)} ELSE issued
    /\ Goto(h, Idle)
    /\ Unchanged /\ UNCHANGED <<keys, drawn, calls, failures>>

-----------------------------------------------------------------------------
(* PATCH /:id/toggle reads the state and writes its negation.               *)

ReadActivity(h, i) ==
    /\ call[h].pc = "idle" /\ Arrives
    /\ Stored(i)
    /\ Goto(h, [Idle EXCEPT !.pc = "toggle", !.id = i, !.isActive = keys[i].isActive,
                            !.text = IF keys[i].formatted THEN TextOf(i) ELSE NoText])
    /\ raced' = IF \E g \in Handlers : call[g].pc = "toggle" /\ call[g].id = i
                THEN raced \cup {i} ELSE raced
    /\ UNCHANGED <<tables, issued, now, drawn, failures, expected>>

Toggled(h) == expected' = [expected EXCEPT ![call[h].id] = ~@]

WriteActivityOfEntity(h) ==  \* Mutant: the entity that was read is saved, as updateKey does.
    /\ call[h].pc = "toggle"
    /\ keys' = IF Stored(call[h].id)
               THEN [keys EXCEPT ![call[h].id].isActive = ~call[h].isActive,
                                 ![call[h].id].formatted = call[h].text # NoText]
               ELSE keys
    /\ Goto(h, Idle) /\ Toggled(h)
    /\ UNCHANGED <<owner, wallets, issued, now, drawn, calls, failures, raced>>

WriteActivity(h) ==
    /\ call[h].pc = "toggle"
    /\ keys' = IF Stored(call[h].id)
               THEN [keys EXCEPT ![call[h].id].isActive = ~call[h].isActive]
               ELSE keys
    /\ Goto(h, Idle) /\ Toggled(h)
    /\ UNCHANGED <<owner, wallets, issued, now, drawn, calls, failures, raced>>

-----------------------------------------------------------------------------
(* The administrator deletes keys, and what they belong to.                 *)

KeysOf(A) == {i \in Ids : Stored(i) /\ keys[i].app \in A}
WithoutKeys(gone) == [i \in Ids |-> IF i \in gone THEN Deleted ELSE keys[i]]

DeleteKey(i) ==
    /\ Stored(i) /\ Arrives
    /\ keys' = WithoutKeys({i})
    /\ Unchanged /\ UNCHANGED <<issued, call, drawn, failures>>

DeleteApplicationOnly(a) ==  \* Mutant: the keys of the application are not deleted with it.
    /\ IsApplication(a) /\ Arrives
    /\ owner' = [owner EXCEPT ![a] = NoWallet]
    /\ UNCHANGED <<keys, wallets, issued, call, now, drawn, failures, history>>

DeleteApplication(a) ==
    /\ IsApplication(a) /\ Arrives
    /\ owner' = [owner EXCEPT ![a] = NoWallet]
    /\ keys' = WithoutKeys(KeysOf({a}))
    /\ UNCHANGED <<wallets, issued, call, now, drawn, failures, history>>

DeleteWalletOnly(w) ==  \* Mutant: its applications are not deleted with it.
    /\ w \in wallets /\ Arrives
    /\ wallets' = wallets \ {w}
    /\ UNCHANGED <<keys, owner, issued, call, now, drawn, failures, history>>

DeleteWallet(w) ==
    /\ w \in wallets /\ Arrives
    /\ LET gone == {a \in Apps : owner[a] = w} IN
         /\ owner' = [a \in Apps |-> IF a \in gone THEN NoWallet ELSE owner[a]]
         /\ keys' = WithoutKeys(KeysOf(gone))
    /\ wallets' = wallets \ {w}
    /\ UNCHANGED <<issued, call, now, drawn, failures, history>>

\* save() inserts the application, or gives the one of that vbId another
\* wallet; the foreign key holds that the wallet found is still there.
CreateApplication(a, w) ==
    /\ w \in wallets /\ Arrives
    /\ owner' = [owner EXCEPT ![a] = w]
    /\ UNCHANGED <<keys, wallets, issued, call, now, drawn, failures, history>>

\* The clock, up to the bound of the model.
Tick ==
    /\ now < MaxTime
    /\ now' = now + 1
    /\ UNCHANGED <<tables, issued, call, drawn, calls, failures, history>>

\* A database operation fails, or the answer is lost.
Fails(h) ==
    /\ call[h].pc # "idle" /\ FailureLeft
    /\ Goto(h, Idle)
    /\ UNCHANGED <<tables, issued, now, drawn, calls, history>>

\* The process dies and restarts: the calls are lost.
Crash ==
    /\ FailureLeft
    /\ call' = [h \in Handlers |-> Idle]
    /\ UNCHANGED <<tables, issued, now, drawn, calls, history>>

-----------------------------------------------------------------------------
Guard(h) ==
    \/ \E t \in Presentable : Present(h, t)
    \/ IsActiveKey(h) \/ Refused(h) \/ FindOneByKey(h)
    \/ HandledWithoutLookup(h) \/ FindApplicationByApiKey(h) \/ FindWalletByApiKey(h)
    \/ LookupThrows(h) \/ ReadChain(h) \/ Handled(h)

Creation(h) ==
    \/ \E a \in Apps, until \in Limits : CreateApiKey(h, a, until)
    \/ \E i \in Ids : SaveKey(h, i)
    \/ SaveFails(h) \/ FormatKey(h) \/ ReloadKey(h)

Toggle(h) == (\E i \in Ids : ReadActivity(h, i)) \/ WriteActivity(h)

Admin ==
    \/ \E i \in Ids : DeleteKey(i)
    \/ \E a \in Apps : DeleteApplication(a) \/ \E w \in Wallets : CreateApplication(a, w)
    \/ \E w \in Wallets : DeleteWallet(w)

Next ==
    \/ \E h \in Handlers : Guard(h) \/ Creation(h) \/ Toggle(h) \/ Fails(h)
    \/ Admin
    \/ Tick
    \/ Crash

Spec == Init /\ [][Next]_vars

-----------------------------------------------------------------------------
(* Properties.                                                              *)

Admitted(h) == call[h].pc \in {"admitted", "handle", "readChain"}

\* As long as the row of a key exists, it holds the text its administrator was
\* given: neither a toggle that read the row before createKey formatted it, nor
\* another key, overwrites it.
IssuedIsStored ==
    \A t \in issued : Stored(t.id) => TextOf(t.id) = t /\ keys[t.id].formatted

\* ApiKeyGuard checks one read of the row and attaches a second one, found by
\* the id alone; findApplicationByApiKey is a third.  What they find is the key
\* the client presented and the application it was issued for, or nothing; and
\* whatever text clients make up, what passed is one an administrator was given.
AttachedIsPresented ==
    \A h \in Handlers : Admitted(h) =>
        /\ call[h].text \in issued
        /\ call[h].attached \in {call[h].text, NoText}
        /\ call[h].app \in {call[h].text.app, NoApp}

\* A call that passed the guard with a key that expires came before it did,
\* however long the call lasts.
ExpiredIsRefused ==
    \A h \in Handlers :
        /\ Admitted(h) \/ call[h].pc = "findOneByKey"
        /\ Stored(call[h].id) /\ keys[call[h].id].activeUntil # NoLimit
        => call[h].since < keys[call[h].id].activeUntil

\* No key outlives its application, so that none opens a later application of
\* the same vbId: also not one inserted while the application is deleted.
KeyHasApplication ==
    \A i \in Ids : Stored(i) => IsApplication(keys[i].app)

\* Toggles of a key alternate: whatever else writes its row between the read
\* and the write of a toggle (createKey formats it), the key is as active as the
\* number of toggles says, unless two of them overlapped, which loses one.
TogglesAlternate ==
    \A i \in Ids : Stored(i) /\ i \notin raced => keys[i].isActive = expected[i]

\* A deleted key does not come back, though createKey updates it and a toggle
\* writes it after a read.
DeletedKeyStaysDeleted ==
    [][\A i \in Ids : keys[i].status = "deleted" => keys'[i].status = "deleted"]_vars

\* A key without an expiry date, which is issued and active, lets its client in.
UnlimitedKeyIsActive ==
    [][\A h \in Handlers :
          /\ call[h].pc = "isActiveKey" /\ call[h].text # NoText /\ failures' = failures
          /\ Stored(call[h].id) /\ keys[call[h].id].isActive
          /\ TextOf(call[h].id) = call[h].text /\ keys[call[h].id].formatted
          /\ keys[call[h].id].activeUntil = NoLimit
          => call'[h].pc \in {"isActiveKey", "findOneByKey"}]_vars
=============================================================================
