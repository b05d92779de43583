SPECIFICATION GatewaySpec
CONSTANTS
    good = good
    small = small
    badname = badname
    nontext = nontext
    kept = kept
    p1 = p1
    p2 = p2
    Handlers = {c1, c2}
    DspOrder <- MCDspOrder
    Files = {good, small, badname, nontext, kept}
    At <- MCAt
    Kind <- MCKind
    Deletes <- MCDeletes
    MaxCycles = 2
    Pushers = {p1, p2}
    Isrcs <- MCIsrcs
    ErnStores <- MCErnStores
    OtherStores <- MCOtherStores
    MaxPushes = 2
    MaxRestarts = 1
    MaxSeq = 8
INVARIANTS
    CountsAddUp
    
    AnswersCoverTheTargets
PROPERTIES
    OnlyCrossedReportsAreLost
    EveryCycleEndsOrHangs
CHECK_DEADLOCK FALSE
