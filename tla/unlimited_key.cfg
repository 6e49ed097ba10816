CONSTANTS
    Ids = {k1}
    Apps = {a1}
    Wallets = {w1}
    Handlers = {h1, h2}
    NoId = NoId
    NoApp = NoApp
    NoWallet = NoWallet
    NoLimit = NoLimit
    Limits = {1, NoLimit}
    MaxTime = 2
    MaxCalls = 4
    MaxFailures = 1
SPECIFICATION Spec
PROPERTY UnlimitedKeyIsActive
CHECK_DEADLOCK FALSE
