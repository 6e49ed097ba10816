CONSTANTS
    Requests = {r1}
    Apps = {a1}
    Ledgers = {l1}
    Handlers = {h1, h2}
    NoRequest = NoRequest
    NoApp = NoApp
    NoLedger = NoLedger
    RelationsLoaded = FALSE
    WalletWaits = TRUE
    MaxCalls = 3
    MaxFailures = 0
SPECIFICATION Spec
PROPERTY PendingIsServed
CHECK_DEADLOCK FALSE
