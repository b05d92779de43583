SPECIFICATION Spec
CONSTANTS
    Commitments = {c1, c2}
    NoAnswer = none
INVARIANT ValidProofsAreAccepted
