CONSTANTS
    Requests = {r1}
    Apps = {a1}
    Ledgers = {}
    Handlers = {h1, h2}
    NoRequest = NoRequest
    NoApp = NoApp
    NoLedger = NoLedger
    RelationsLoaded = TRUE
    WalletWaits = FALSE
    MaxCalls = 6
    MaxFailures = 0
SPECIFICATION Spec
INVARIANT BuiltFromStoredSeed
CHECK_DEADLOCK FALSE
