CONSTANTS
    Requests = {r1, r2}
    Apps = {a1}
    Ledgers = {l1}
    Handlers = {h1, h2}
    NoRequest = NoRequest
    NoApp = NoApp
    NoLedger = NoLedger
    RelationsLoaded = TRUE
    WalletWaits = FALSE
    MaxCalls = 5
    MaxFailures = 1
SPECIFICATION Spec
SYMMETRY Symmetry
INVARIANTS TypeOK CompletedIsAnchored OneRequestPerMicroblock RequestHasApplication
PROPERTIES CompletionIsFinal DeletedStaysDeleted EndorserIsSubscribed ImplementsLifecycle
CHECK_DEADLOCK FALSE
