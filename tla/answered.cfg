CONSTANTS
    Requests = {r1}
    Apps = {a1}
    Ledgers = {l1}
    Handlers = {h1, h2}
    NoRequest = NoRequest
    NoApp = NoApp
    NoLedger = NoLedger
    RelationsLoaded = TRUE
    WalletWaits = TRUE
    MaxCalls = 4
    MaxFailures = 0
SPECIFICATION Spec
INVARIANT AnsweredIsMarked
CHECK_DEADLOCK FALSE
