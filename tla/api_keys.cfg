CONSTANTS
    Ids = {k1, k2}
    Apps = {a1, a2}
    Wallets = {w1}
    Handlers = {h1, h2}
    NoId = NoId
    NoApp = NoApp
    NoWallet = NoWallet
    NoLimit = NoLimit
    Limits = {1, NoLimit}
    MaxTime = 1
    MaxCalls = 6
    MaxFailures = 1
SPECIFICATION Spec
SYMMETRY Symmetry
INVARIANTS TypeOK IssuedIsStored AttachedIsPresented ExpiredIsRefused KeyHasApplication TogglesAlternate
PROPERTY DeletedKeyStaysDeleted
CHECK_DEADLOCK FALSE
