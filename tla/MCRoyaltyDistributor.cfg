SPECIFICATION Spec
CONSTANTS
    CIDs = {c1, c2}
    Accounts <- MCAccounts
    Admin <- MCAdmin
    Self <- MCSelf
    Requests <- MCRequests
    Cap = 10
    Delay = 2
    MaxArtists = 3
    Funding = 15
    MaxFunds = 30
    MaxTime = 4
    VerifyProof <- MCVerifyProof
INVARIANTS
    OneCallAtATime
    PaidMatchesRecord
    AccountsHoldTheirShares
    LargePaymentsWereQueued
PROPERTIES
    PauseHaltsDistributions
    LockIsReleased
    SettlesAsPromised
