SPECIFICATION ServicesSpec
CONSTANTS
    Keys = {m1, art17}
    FilterIds = {art17}
    Workers = {w1, w2}
    Resolutions = {"ActionTaken", "Appealed"}
    Absent = absent
    NoText = notext
    StorageFails = TRUE
    MaxUploads = 2
    Threads = {w1, w2}
    Buckets = {"general"}
    Clients = {ip1}
    Unknown = unknown
    BaseLimit <- MCBaseLimit
    Divisor = 10
    Window = 2
    MaxEntries = 1
    MaxTime = 4
    MaxRequests = 5
    Ids = {c1, c2}
    AuthHandlers = {w1, w2}
    Wallets = {alice, bob}
    Nobody = nobody
    Ttl = 2
    SessionTtl = 1
    MaxClock = 3
INVARIANTS
    OverrunIsBounded
    OnlyFailedWritesLoseReports
    OneTokenPerChallenge
    ServedMeansLoggedIn
PROPERTIES
    UserReportsResolveAtomically
CHECK_DEADLOCK FALSE
