SPECIFICATION IdentitySpec
CONSTANTS
    Threads = {t1, t2}
    Users = {u1, u2}
    Bootstrap <- BothAdmins
    Callers = {u1}
    MaxPending = 1
    MaxTokens = 2
    MaxRestarts = 1
    Emails = {"e1", "e2"}
    Addresses = {"a1"}
    AccountMax = 2
    AddressMax = 3
    LocalMaxKeys = 2
    RedisModes = {"up", "down"}
    MaxSwitches = 1
    Owners = {"o1", "o2"}
    MaxKeys = 2
    Keys = {k1, k2}
    JwksTtl = 2
    RefreshFloor = 1
    FetchTime = 1
    MaxOidcTime = 3
    MaxCallbacks = 2
    Headers <- MCHeaders
SYMMETRY Perms
INVARIANTS
    IdentityTypeOK
    SignInHolds
    CredentialsOpenWhatTheyGrant
CHECK_DEADLOCK FALSE
