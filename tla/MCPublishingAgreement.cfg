SPECIFICATION Spec
CONSTANTS
    w1 = w1
    w2 = w2
    w3 = w3
    Wallets = {w1, w2, w3}
    ZeroAddress = zero
    NoId = noid
    ISRCs = {isrc1, isrc2}
    Proposals <- MCProposals
    MaxBlock = 2
INVARIANTS
    OneLiveAgreement
    SignaturesAreCounted
    MintedIffAllSigned
PROPERTIES
    AttributionIsPermanent
CHECK_DEADLOCK FALSE
