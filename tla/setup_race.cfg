CONSTANTS
    Users = {u1, u2}
    Handlers = {h1, h2}
    NoUser = NoUser
    NoToken = NoToken
    ChallengeValidity = 1
    TokenValidity = 1
    Midnight = {1}
    MaxTime = 1
    MaxCalls = 2
    MaxFailures = 0
SPECIFICATION Spec
PROPERTY SetupIsFirst
CHECK_DEADLOCK FALSE
