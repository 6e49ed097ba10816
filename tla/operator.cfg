CONSTANTS
    Ids = {k1}
    Apps = {a1, a2}
    Wallets = {w1}
    Handlers = {h1, h2}
    NoId = NoId
    NoApp = NoApp
    NoWallet = NoWallet
    NoLimit = NoLimit
    Limits = {1}
    MaxTime = 1
    MaxKeyCalls = 4
    MaxKeyFailures = 1
    Requests = {r1}
    Ledgers = {}
    NoRequest = NoRequest
    NoLedger = NoLedger
    RelationsLoaded = TRUE
    WalletWaits = FALSE
    MaxCalls = 3
    MaxFailures = 1
SPECIFICATION Spec
SYMMETRY Symmetry
INVARIANTS RequestHasWallet
PROPERTIES ImplementsAnchoring RequestIsOfItsKey
CHECK_DEADLOCK FALSE
