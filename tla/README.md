# Verification of the Carmentis operator

This directory holds TLA+ models of the Carmentis operator, a NestJS server that anchors data of client applications
on the Carmentis chain, alone or with the approval of a wallet. TLC checks the models on small instances; TLAPS proves
the main theorems for every value of the constants. `PROJECT.json` is the index: components, runs, mutants, the source
lines of every definition, findings, hazards, theorems.

Paths below are relative to the root of the repository, which `PROJECT.json` calls `src/`.

## 1. Inventory

| Component | State | Operations | Hard behaviours |
|---|---|---|---|
| Anchoring with a wallet (`WalletAnchoringRequestService`, `AnchorRequestService`, `OperatorApiController`) | a row per anchor request: status, request, genesis seed, built microblock, published hash | `POST /api/anchorWithWallet`; wallet messages APPROVAL_HANDSHAKE, ACTOR_KEY, APPROVAL_SIGNATURE; deletion | every database, chain and SDK access is an `await`; wallets retry; one update is not awaited; crash between publication and record |
| Direct anchoring (same services) | the same rows | `POST /api/anchor` | publishes first, inserts the row later |
| API keys (`ApiKeyService`, `ApiKeyGuard`, admin controller) | a row per key | create (insert, update, read back), toggle (read, write), delete; guard on `/api/*` | check and use are different reads; cascades from application and wallet |
| Applications and wallets (CRUD controllers, entities) | tables `application`, `wallet` | create or overwrite, delete with cascades | deletion under calls in flight; re-creation of the same vbId |
| Administrators (`Setup`, `Login`, `User` controllers, `ChallengeService`, `JwtTokenBearerGuard`) | table `user`; the MAC secret in memory | first setup, challenge, verification, guard, CRUD, cron job at midnight | stateless challenges and tokens; setup counts, then creates; restart |
| Secrets at start-up (`EnvService`, `EncryptionService`, `OperatorApiModule`) | a key file and a token secret file, each named by the configuration | take from the configuration, read or draw; write | two instances of `EnvService`; several processes; `writeFile` is not atomic; configured keys replace stored ones |
| Chain reads (`ChainService`, GET routes) | none | find the wallet of the key, forward one read to the SDK | the key or its wallet is deleted before the lookup |
| WebSocket gateway | none of its own | forwards to `wiServer` of the SDK | inside the SDK |
| Configuration and choice of the database (`OperatorConfigService`, `ConfigSchema`, `getDatabaseConfig`) | the configuration files; the database | first readable candidate, defaults, driver | read twice per start; edited between and during starts |
| Migrations, HTTP plumbing | none | sequential | none |

How they interact: a client presents an API key, `ApiKeyGuard` attaches its row to the HTTP request,
`findApplicationByApiKey` turns it into an application and its wallet, and `WalletAnchoringRequestService` uses the
wallet's seed (an encrypted column) to sign for the organisation. A wallet refers to a request by its random id only.
Administrators change the tables that all of them read. Each component has a module of its own; `Anchoring` and
`ApiKeys` both contain the deletion of applications, as each sees a different cascade of it, and `Operator` puts the two
together: one slot serves a call first in the guard and then in the route, one deletion has both cascades, and one
table of applications, which is the set `apps` of `Anchoring` and the function `owner` of `ApiKeys`.

What makes each correct:

* Anchoring: a completed request names a microblock that is on chain for it, and no other request does; completion and
  deletion are final; an endorser is subscribed before it endorses; what is published is what the wallet signed.
* API keys: a key works while its row holds the text that was issued, and for its application only; never after its
  expiry or deletion, or after the deletion of its application. An anchor request is created with the application of
  the key that was presented, or none, and every application it names exists and has a wallet that exists.
* Administrators: tokens go to users only, challenges expire, there is one first setup.
* Secrets: what was encrypted or signed can be read after a restart; section 3 says after which ones it cannot.

## 2. Modules

| Module | What it is |
|---|---|
| `AnchorLifecycle` | abstract: what the status route promises about a request |
| `Anchoring` | the anchoring component, one action per step between two awaits |
| `AnchoringProperties` | its properties, and the refinement mapping to `AnchorLifecycle` |
| `AnchoringProofs` | type correctness, the inductive invariant `IInv`, three safety theorems |
| `LifecycleProofs` | the refinement, finality of completion and deletion |
| `EndorserProofs` | `EndorserIsSubscribed` |
| `WalletProofs` | seed, built microblock and publication of a request, for wallets that wait |
| `ApiKeys`, `AdminAccess` | the keys and the administrators, each with its properties at the end |
| `ApiKeysProofs`, `AdminAccessProofs` | type correctness and all their safety properties |
| `Configuration` | pure operators: from candidate files to a configuration and a database |
| `StartupKeys` | the secrets at start-up, over `Configuration` |
| `StartupKeysProofs` | type correctness and all its safety properties |
| `Operator` | the composition of `ApiKeys` and `Anchoring` |
| `OperatorProofs` | `Operator` implements `Anchoring`; its two properties of requests |
| `MC*` | symmetry for TLC, and the configuration files of `startup_keys` |

### Anchoring

`call[h]` is the HTTP call that slot `h` serves; its `pc` names the await at which it waits.

| Step | Code |
|---|---|
| `ClientSends`, `StoreAnchorRequest` | `anchorWithWallet` and `anchor` of the controller; `storeAnchorRequest` |
| `WalletSends` | `handleWalletMessage`: the wallet's message arrives |
| `FindRequest` | `loadAnchorRequestFromDataId`, the test of the status, the joined application |
| `FindApplicationByVbId`, `LoadApplicationLedger` | the two lookups that follow |
| `ReadGenesisSeed`, `SaveGeneratedSeed` | `getWalletRequestBasedApplicationLedgerMicroblockBuilder`, for a new ledger |
| `BuildMicroblock` | `createMicroblockFromStateUpdateRequest` and `saveMicroblock`, of a handshake or of actor keys |
| `AskActorKey` | the `ActorNotSubscribedError` branch of the handshake |
| `SealAndPublish`, `MarkAsPublished`, `ApplyMark` | `approvalSignature`; `markAnchorRequestAsPublished` adds to `marks`, and the database applies it at some later time, for nobody awaits it |
| `BuildAndPublish`, `SaveCompletedAnchorRequest` | `anchor`; `createAndSaveCompletedAnchorRequest` |
| `Answer`, `Throws` | the end of `handleWalletMessage` |
| `DeleteAnchorRequest`, `DeleteApplications`, `CreateApplication` | the routes of those names; deleting a wallet deletes all of its applications at once |
| `Fails`, `Crash` | a rejected promise or lost answer; the death of the process |

The chain node and the wallet are external: `NodeAccepts` and `NodeRefuses` say that the node takes a microblock only at
the head of its ledger and only once. The wallet signs the microblock of the last response that showed it one, or
nothing. Hashes, seeds and contents are numbers drawn from `nonce`; two builds never give the same microblock, because
the SDK draws fresh channel keys. The same microblock may be sealed and published twice, though, so that each publication
has a number of its own (`sent`): `publishMicroblock` returns if the node took what this call sent, and throws if not.
Consecutive awaits that read and write nothing shared (decoding keys, computing the gas, signing) are one step, and so
are a build and the database update that directly follows it: the update is the only effect of the two.

Two flags select what the surroundings do.

* `RelationsLoaded`: does `findOneByOrFail` join the application and its wallet? With the TypeORM API the code calls, and
  relations that are not declared eager, it does not, and then no wallet message can be served at all (run `relations`,
  first finding). The passing runs of the wallet protocol therefore describe the operator with that join added, as the
  changelog of 1.5.6 did for `findApplicationByApiKey`: without it there is no protocol to check. All that they say of
  `POST /anchor`, deletions and crashes does not depend on it, and the theorems hold for both values.
* `WalletWaits`: if it is FALSE, any message for a request arrives at any time, a signature before there is a microblock
  included, as the route is public and keeps no session. If it is TRUE, the wallet waits for each answer, sends the
  message that this asks for or starts again with a handshake, and stops when it is told of the publication
  (`FollowsProtocol`).

### ApiKeys, AdminAccess, Configuration and StartupKeys

`ApiKeys` has the two reads of the guard (`IsActiveKey`, `FindOneByKey`) and what each kind of route does after it:
nothing (`HandledWithoutLookup`: status, listing, deletion of requests), the lookup of the application
(`FindApplicationByApiKey`), or that of the wallet and a read of the chain (`FindWalletByApiKey`, `ReadChain`);
`LookupThrows` is the route of a key that is gone. Clients present what was issued, texts they make up with the id and
application of some key (`Guesses`), or none that `parseKey` accepts. It also has the three awaits of `createKey`
(`SaveKey`, `FormatKey`, `ReloadKey`), the two of the toggle, and the deletions with their cascades. A key text is a
record of id, application and secret, which is what `parseKey` tells apart. `expected` and `raced` are history: what
the toggles of a key add up to, and the keys of which two toggles overlapped.

`AdminAccess` has setup (`CountUsers`, `CreateFirstUser`), login (`VerifyChallenge`, `FindUserByPublicKey`,
`SignToken`), the guard (`CanActivate`) and the operations behind it, with a clock, the cron job (`RenewHmacSecret`) and
restarts. MACs and token signatures are taken to be unforgeable: a challenge carries the secret it was made with, a
token exists only if it was signed.

`Configuration` says what a start makes of its files: `LoadConfigFile` takes the first candidate that can be read and
that the schema accepts, `Parse` gives the defaults (a database section left out is one with SQLite, but a section that
names no driver stays without one; the home and the names of the two files of secrets are entries with a default each),
`DatabaseOf` is `getDatabaseConfig`, with PostgreSQL before MySQL before SQLite.

`StartupKeys` starts processes that share their configuration files. A start reads them once for the database
(`Start`, which fails without a driver) and once for everything else (`ReadConfig`), and `Edit` may change them at any
time. Then come the token secret when `JwtModule` is built, and the
database key once per instance of `EnvService` (`OperatorConfigModule` and `OperatorApiModule` each provide one, and
Nest initialises the modules one after the other). `writeFile` is two steps, since it truncates first. The key that
`EncryptionService` uses is that of either instance (`uses`), so that nothing depends on which one is injected.
A secret is a text of the configuration, of which there are any number, or a number that was drawn; its file is named by
a home and a name (`KeyPathOf`, `JwtPathOf`). `FromHex` is `Buffer.from(key, 'hex')`: of a text in `MalformedKeys` it
makes a buffer that no cipher takes, which the model does not tell from the empty one.

### Operator

`guard[h]` and `serving[h]` are the calls of slot `h` in `ApiKeys` and in `Anchoring`. Every action of `Operator` is a
conjunction of an action of the one and an action, or nothing, of the other: `ServeKeys` is the guard and the routes
that only read, `ServeAnchoring` the route that looks the application up and goes on to anchor, `ServeNoApplication` the
same lookup when `anchor` throws on a null, `ServeDeletion` the deletion of a request, and `ServeWallet` the public
route of the wallets, which the guard lets through. `DeleteWallet` cascades to applications, and from each to its keys
and requests; `Crash` ends the calls of both.

## 3. Runs

| Run | Instance | Shows |
|---|---|---|
| `concurrent` | 2 requests, 1 ledger, 2 handlers, 5 calls, 1 failure, any message at any time | the properties of every interleaving, and the refinement of the life cycle |
| `wallet_waits` | the same with 6 calls, a wallet that waits | seed, microblock and publication agree with what the wallet saw |
| `liveness` | 2 requests, 4 calls, any message at any time, no failure, `FairSpec` | every call ends; every publication is recorded |
| `api_keys` | 2 ids, 2 applications, 1 wallet, 2 handlers, 6 calls, 1 failure, issued and made-up texts | the invariants of keys, deletion is final |
| `admin_access` | 2 users, 2 handlers, 7 calls, time 0..2, midnight at 1, 1 failure | who gets tokens, and when |
| `startup_keys` | 2 processes, 2 candidate files with 7 contents, 2 homes, 2 names of each file, 2 keys and secrets, 1 malformed key, 3 starts, 1 edit, any mishap | which secrets survive which restarts and edits |
| `operator` | 1 key, 2 applications, 1 wallet, 1 request, no ledger but those requests create, 2 handlers, 4 calls to the guard or the administrator, 3 to the routes, 1 failure each | the composition implements `Anchoring`; requests belong to their key, and have a wallet |
| `relations`, `answered`, `seed_race`, `unlimited_key`, `setup_race` | smallest instance with the behaviour | the findings below |

Bounds and why they suffice. Each hazard of anchoring needs two calls at the same time on one request, and the longest
interesting history (create, handshake, actor key, signature, and a second message racing one of them) is five calls;
the sixth of `wallet_waits` leaves one for a repeated handshake or a direct anchoring. Two requests are needed for
`OneRequestPerMicroblock` and for a microblock that takes the head of the ledger from another. One failure or crash is
one too many already; a second one meets the same states, as a crash forgets all but the database. For keys, two ids
let one key be deleted and another be created, and two applications let a key of one be confused with that of another;
two handlers and six calls allow a creation, a toggle and a deletion to race. Times 0..2 with validities of 1 give
every challenge and token a moment before, at and after its end, with a midnight between. In `operator` four calls at
the guard are a key created, presented, and its application or wallet deleted and created again; the details of each
component have larger instances of their own, and the composition is proved to implement `Anchoring` for all. In
`startup_keys` three starts let a secret be drawn, used, and met by a start after an edit; the seven files of
`MCContents` are ones that differ in a decision of the code: two with a key and a secret each, two of another home
with a server, of which one has a malformed key, one with other names for the files, one that allows no key to be
drawn, and one without a driver. `CHECK_DEADLOCK FALSE` is set in all runs because the bounds stop every behaviour in
the end, and because an operator that nobody calls really stops.

Fairness. `FairSpec` is weakly fair to the steps of each handler (the event loop resumes a call whose await has settled),
to `ApplyMark` (the database settles an update) and to the node. Clients, wallets, administrators and failures get no
fairness. There is no failure in that run: a lost update or a crash is never repaired by the code, so that
`PublicationIsRecorded` is false with one, and `EveryCallIsAnswered` is then weaker.

Symmetry is used in the runs that check safety only, over requests or ids, handlers, users or processes, never with
liveness.

After a crash between publication and record, or when an answer is lost, the wallet may sign and the operator may publish
again. `PublishedIsSigned` therefore begins with `failures = 0`, and `PublishedOnce` allows one publication more for each
failure. That bound is exact: with the one failure of the run, TLC reaches two microblocks of a request on chain.

Six things can happen to the secrets that the code does not provide for: two processes start at the same time
(`overlap`), one dies inside `writeFile` (`tornWrite`), a file that exists cannot be read (`readError`), the configuration
is edited between the two reads of a start (`editDuringStart`), a configured key is written over another key, be that a
drawn or a configured one (`keyReplaced`), or a configured key is not hexadecimal (`malformedKey`). `StartupKeys` has them
all, records them in `mishaps`, and each property names those it does not survive:

| Property | Does not survive | Survives |
|---|---|---|
| `RunningHasSecrets` | `tornWrite`, `overlap`, `malformedKey` | `readError` (a new secret is drawn), `keyReplaced`, `editDuringStart` |
| `StoredIsReadable` | all but `malformedKey` | a key that is configured where there was none, taken out again, changes of home and back |
| `TokensSurvive` | `readError`, `overlap` | `tornWrite` (the file is written once, by its first process), all that happens to keys; speaks of operators whose secret is configured alike, or unconfigured with the same file |
| `RunningKeyIsStored` | `readError`, `tornWrite`, `overlap`, `keyReplaced` | `editDuringStart`, `malformedKey` |

The first column of mishaps is exact: with any one of them taken out of its condition, TLC finds the property violated.
So what a truncated file, an unreadable file, a second process or a replaced key does to columns and tokens is known and
reachable in the model, and it is a loss: a truncated file is read as an empty secret; a file that cannot be read is
replaced by a new secret; of two processes, one reads what the other has just truncated, or each draws its own; a start
that reads two configurations opens the database of the one with the key of the other. No comment of the code promises
more, so that none of this is a finding; it is among the hazards. Likewise an operator that gets another name for its key
file begins with a new key there: `StoredIsReadable` speaks of columns whose key lies under the same name, and, for the
database of a server, in the same home. The constraint `StillClaimed` cuts the run at `overlap` and where every property
has become silent, starts it with one configuration file or none, the lower candidate, and lets the higher candidate be
absent, invalid, or the file of the other home. It also follows one column or one token at a time, and only while the
property about it still says something: no property compares two of them, and no action reads them, so that nothing is
missed.

## 4. Findings

1. No wallet message can be served: the application of a stored request is not joined (run `relations`).
2. The wallet is told of a publication before the request is marked (run `answered`).
3. Two handshakes of one request can store a microblock and a seed that do not fit (run `seed_race`).
4. An API key without an expiry date never works: `null` is not `undefined` (run `unlimited_key`).
5. Two setups can both create a first user (run `setup_race`).

Other differences met while reading, which need no model to see: the status of a request is read once, many awaits
before its microblock is published, so that a second signature call may publish after the first completed it;
`markAnchorRequestAsPublished` ignores its `vbId`; the answer to a signature swaps the two hashes; the status route
answers the ledger that was asked for, also before publication; an invalid endorser signature is only logged; the status
`failed` is never set; a token is announced to last 8 hours and lasts `tokenValidity` seconds; the comment of
`generateMAC` speaks of the JWT secret; `findUserByPublicKey` never throws `NotFoundException`.

## 5. Proofs

All theorems are about the `Spec` of their module, for every finite or infinite set of requests, applications, keys,
users, ledgers and handlers, every value of the flags and of the bounds, from the assumptions that the modules declare
(null values are outside of their sets, ledgers are not numbers, the flags are Boolean, the bounds are numbers).

Anchoring:

* `TypeCorrect`. `TypeOK` is not inductive, since `head` and `nonce` must be numbers for what is drawn from them;
  the proof goes by one lemma per action.
* `CompletedIsAnchoredHolds`, `OneRequestPerMicroblockHolds`. Neither is inductive. A row becomes completed by an update
  that was issued some time ago, by a call that saw the chain some time before, for a microblock that was built by another
  call. `IInv` therefore says of every place that knows a microblock what it knows: the row (`RowFits`), the call
  (`CallFits`), the update (`MarkFits`) hold microblocks of their own request and ledger; every id in use has been drawn
  and belongs to one request (`KnownInv`); a pending update and a completed row name a microblock on chain (`MarkFits`,
  `RowFits`); the microblock of a `POST /anchor` that awaits the node is named by no row (`AnchorInv`).
* `RequestHasApplicationHolds`. Inductive with the types: `StoreAnchorRequest` and `SaveCompletedAnchorRequest` insert
  only under an application that exists (the foreign key), and a deletion takes the requests with it.
* `LifecycleImplemented`. Under `IInv` and `LInv` (a row that is not completed has no published hash) every step of
  `Anchoring` maps to one of `AnchorLifecycle` or to a stutter: `ApplyMark` to `Complete`, which needs `MarkFits` for the
  microblock; `SaveCompletedAnchorRequest` to `OpenCompleted`, which needs `AnchorInv`: no other request names it.
  `CompletionIsFinalHolds` and `DeletedStaysDeletedHolds` use the same case split.
* `EndorserIsSubscribedHolds`. `EndorserInv`: a handshake that went on to build saw the endorser on its ledger, and
  subscriptions are never undone, so that every microblock in a row, a call or on the wire either subscribes the endorser
  or belongs to a ledger that has it.

Wallets that wait (`WalletProofs`). These theorems have the hypothesis `WalletWaits`, as the run `wallet_waits` has it as
a constant; without it the run `seed_race` refutes one of them. None of the five properties is inductive: each compares
what is in the row with what some call read from it, or drew for it, several awaits before. `WaitInv` adds two parts to `IInv`.

* `SeedInv`, for every crash and failure: at most one call serves a request (`OneCall`, the reason why waiting helps); a
  request of an existing ledger has the seed of that ledger or none, and the stored microblock of a new ledger, and a
  wallet that was asked for its actor key, have the stored seed (`RowSeed`); the call that is about to save a seed still
  finds none in the row, and the one that is about to build or to answer has the stored one (`CallSeed`). `SeedIsStable`
  is a property of steps: of the two updates of the seed one finds none, and the other writes what is there or finds none.
* `SignedInv`, as long as nothing fails: a wallet that was shown a microblock was shown the stored one, unless a call is
  about to answer it with another (`RowSigned`); the call that carries a signature seals the microblock it was made for
  (`CallSigned`); and what was sent for a request is one microblock, with the signature made for it, of which a call is
  still to tell the wallet, or the wallet knows (`RequestSent`). A wallet that knows stops, so that there is no second
  one: it is the answer and not the status column that prevents it.
* `CountInv`, across failures, on which `PublishedOnceHolds` rests: the microblocks sent for a request are finitely many,
  at most one per failure and one more, and this one more only if the wallet knows of a publication or a call is still to
  tell it of one that was sent (`Told`). A failure may make `Told` false, which its own count pays for; sealing happens
  only when `Told` is false, and makes it true; a call that gives up because the node refused its microblock was telling
  of none that is still sent.

The proof that a step keeps these goes by two frame lemmas. `ServingKeeps` is for the one call that serves a request:
only its own slot, row and wallet can be disturbed. `QuietKeeps` is for everything else, which changes neither the seed
nor the microblock of a row that stays.

Keys (`ApiKeysProofs`). The proof goes through what every step does to the table: `Evolves(i)` says that row `i` is
inserted, deleted, or kept but for `isActive` and its text being formatted, so that a call which read a row, or was
issued its text, knows what it holds as long as it is stored. `IInv` is the types with `KeysFit` (a stored key has a live
application), `IssuedFit` (an issued text is that of its row, formatted), `CallFits` (what the guard, `createKey` and a
toggle carry from one await to the next) and `TogglesFit` (a toggle in flight of a key that did not race has read the
activity that the toggles before it add up to). All six properties of the run `api_keys` and `TypeOK` follow.

Administrators (`AdminAccessProofs`). `IInv` adds to the types what a login carries: a challenge that had not expired
when it was verified, and a user who has been in the table since (`WasUser`) or was deleted later; what the guard
carries: a token that was signed; and of every token that its user was one when it was asked for. `LoginIsTimely`,
`TokensAreOfUsers` and `AdmittedHasToken` follow.

Secrets at start-up (`StartupKeysProofs`), for any number of homes, file names, configured keys and secrets. The properties
compare files, running processes and what was encrypted or signed long before, each under the mishaps it excepts, and so
does each part of `IInv`: unless two starts overlapped one process at most is starting (`OneStarts`); an empty file is one
that this process is about to fill (`EmptyIsBeingWritten`), and unless a malformed key was configured none is in a file or
on its way there (`MalformedIsConfigured`), so that no secret in use is empty (`SecretsAreNotEmpty`); the token secret of
every process and token is the one its configuration gave, or else the content of the file it names (`JwtFileIsKept`); every
database key in use or in a column is made of the text in its file, or in the hands of the process that is writing it back
(`KeyFileIsKept`), which the unconditional rewrite of the file by the second `EnvService` makes necessary; and a SQLite
file lies in the home its key is kept in (`DatabaseIsOfConfig`). That `LoadConfigFile` finds a first candidate rests on
`SmallestExists`, from the well-foundedness of the numbers.

Composition (`OperatorProofs`).

* `AnchoringImplemented`: every step of `Operator` is a step of `Anchoring` on the tables it shares, or leaves them alone;
  it needs that `owner` is typed, so that giving an application a wallet adds it to `Applications`.
* `RequestHasWalletHolds`: inductive with the types and `RequestHasApplication` (`TablesInv`).
* `RequestIsOfItsKeyHolds`: the call that inserts a row has carried the application since its lookup, and the key since
  the guard. `KeysInv` says that an issued text names a row that is gone or is of the application in the text, and that a
  guarded call presents an issued text; `ServingInv` that a route which is going to insert has the application of the
  guard's slot, which is still in the route.

This prover cannot cite a theorem through INSTANCE, so that the theorems of `AnchoringProofs` carry over to `Operator`
by the statement of the refinement and not by a machine-checked step. That `Operator` also implements `ApiKeys` needs no
check: each of its actions has an action of `ApiKeys` as a conjunct, or leaves the variables of the keys unchanged.

Every safety and action property of the passing runs is the subject of a theorem. Only model-checked: the two liveness
properties, which are out of the reach of the prover. TLC checked the invariants of the proofs before they were proved.

## 6. What is not modelled

The WebSocket gateway forwards each message to the SDK, where its sessions are; the migration is generated SQL; ports,
CORS, Swagger, error formatting and a throttler that no guard uses are plumbing without state (a port that cannot be
bound is a `Crash`). What the status and listing routes format, and what the node answers to a read of the chain, are
left out. The SDK is a black box: signatures, encryption, fees and the content of a microblock. Creation and edits of
a wallet (its seed and its endpoint, which only the SDK uses), and names of all kinds, are left out: no property
depends on them. The life of the encrypted columns ends at the key they were written with: the cipher and the length
of its initialisation vector, which are configured too, are fixed. The two files of secrets are different files, two
pairs of a home and a name never denote the same one, and nobody copies a drawn text into the configuration.

## 7. Plan

Order: anchoring first (it is what the operator is for, and has the most concurrency), then keys, administrators and
secrets, the composition of the first two, each model-checked before it is proved. Done: everything above, and the
proofs of all safety properties. Left:

1. edits of wallets while a request is being served, which change the key that signs for the organisation;
2. the composition with administrators (the routes of `ApiKeys` that only a token admits), and its refinement of
   `AdminAccess`.
