SPECIFICATION GatewaySpec
CONSTANTS
    good = good
    small = small
    badname = badname
    nontext = nontext
    kept = kept
    p1 = p1
    p2 = p2
    Handlers = {c1}
    DspOrder <- MCDspOrder
    Files = {good, small, badname, nontext, kept}
    At <- MCAt
    Kind <- MCKind
    Deletes <- MCDeletes
    MaxCycles = 2
    Pushers = {p1, p2}
    Isrcs <- MCIsrcs
    ErnStores <- MCErnStores
    OtherStores <- MCOtherStores
    MaxPushes = 2
    MaxRestarts = 1
    MaxSeq = 8
PROPERTY
    DeletedMeansReadWhole
CHECK_DEADLOCK FALSE
