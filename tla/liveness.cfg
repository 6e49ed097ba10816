CONSTANTS
    Requests = {r1, r2}
    Apps = {a1}
    Ledgers = {l1}
    Handlers = {h1, h2}
    NoRequest = NoRequest
    NoApp = NoApp
    NoLedger = NoLedger
    RelationsLoaded = TRUE
    WalletWaits = FALSE
    MaxCalls = 4
    MaxFailures = 0
SPECIFICATION FairSpec
PROPERTIES EveryCallIsAnswered PublicationIsRecorded
CHECK_DEADLOCK FALSE
