CONSTANTS
    Requests = {r1, r2}
    Apps = {a1}
    Ledgers = {l1}
    Handlers = {h1, h2}
    NoRequest = NoRequest
    NoApp = NoApp
    NoLedger = NoLedger
    RelationsLoaded = TRUE
    WalletWaits = TRUE
    MaxCalls = 6
    MaxFailures = 1
SPECIFICATION Spec
SYMMETRY Symmetry
INVARIANTS BuiltFromStoredSeed WalletKnowsSeed PublishedIsSigned PublishedOnce
PROPERTY SeedIsStable
CHECK_DEADLOCK FALSE
