SPECIFICATION Spec
CONSTANTS
    alice = alice
    bob = bob
    host = host
    Accounts = {alice, bob, host, admin}
    Admin = admin
    Self = self
    ZeroAddress = zero
    Tracks = {track}
    TxIds = {t1}
    CashoutIds = {k1, k2}
    SeedingIds = {s1}
    Splits <- MCSplits
    HostLists <- MCHostLists
    StreamValues = {999, 1100}
    CashoutAmounts = {300}
    ExternalAmounts = {40, 60}
    PoolAmounts = {3}
    Artists = {alice}
    Nodes = {host}
    SeedDays = {1}
    Tiers = {0}
    Uptimes = {9950}
    MIN_STREAM_VALUE = 1000
    BASE_REWARD = 3
    Day = 2
    Funding = 400
    MaxFunds = 800
    MaxTime = 4
SYMMETRY Symmetry
INVARIANTS
    BooksBalance
PROPERTIES
    PauseStopsPayouts
CHECK_DEADLOCK FALSE
