SPECIFICATION MCSpec
CONSTANTS
    u1 = u1
    u2 = u2
    Users = {u1, u2}
    Countries = {"FR", "CU"}
    Purposes = {"Analytics", "Marketing"}
    NoRecord = norecord
    StoreFails = TRUE
    MaxConsents = 3
    Workers = {w1, w2}
    Isrcs = {isrc1}
    Files <- MCFiles
    FileRoot <- MCFileRoot
    ClaimRoot <- MCClaimRoot
    PartyLists <- MCPartyLists
    ClaimedBands = {1}
    MaxRequests = 2
SYMMETRY Symmetry
INVARIANTS
    LastWordCounts
    AnsweredUploadsAreWhole
    RegistrantsWereCleared
    CountsAgreeWithTheAudit
CHECK_DEADLOCK FALSE
