CONSTANTS
    Users = {u1, u2}
    Handlers = {h1, h2}
    NoUser = NoUser
    NoToken = NoToken
    ChallengeValidity = 1
    TokenValidity = 1
    Midnight = {1}
    MaxTime = 2
    MaxCalls = 7
    MaxFailures = 1
SPECIFICATION Spec
SYMMETRY Symmetry
INVARIANTS TypeOK LoginIsTimely TokensAreOfUsers 
CHECK_DEADLOCK FALSE
