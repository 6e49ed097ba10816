CONSTANTS
    Homes = {home, other}
    DefaultHome = home
    OtherHome = other
    Servers = {server}
    Server = server
    DatabaseNames = {database}
    DefaultDatabase = database
    KeyNames = {keyfile, otherkeyfile}
    DefaultKeyName = keyfile
    OtherKeyName = otherkeyfile
    JwtNames = {jwtfile, otherjwtfile}
    DefaultJwtName = jwtfile
    OtherJwtName = otherjwtfile
    GivenKeys = {key1, key2, nohex}
    Key1 = key1
    Key2 = key2
    NoHex = nohex
    MalformedKeys = {nohex}
    GivenSecrets = {secret1, secret2}
    Secret1 = secret1
    Secret2 = secret2
    Omitted = Omitted
    Absent = Absent
    Invalid = Invalid
    Processes = {p1, p2}
    Candidates = 2
    Contents <- MCContents
    MaxStarts = 3
    MaxEdits = 1
SPECIFICATION Spec
SYMMETRY Symmetry
CONSTRAINT StillClaimed
INVARIANTS TypeOK RunningHasSecrets StoredIsReadable TokensSurvive RunningKeyIsStored
CHECK_DEADLOCK FALSE
