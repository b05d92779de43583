SPECIFICATION Spec
CONSTANTS
    Keys = {n1, n2}
    Workers = {w1, w2, w3}
    Uploaders = {u1, u2}
    Absent = absent
    Nobody = nobody
    StorageFails = TRUE
INVARIANTS
    AnsweredNoticesAreStored
PROPERTIES
    CounterNoticesStay
