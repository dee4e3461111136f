SPECIFICATION Spec
SYMMETRY Symmetry
CONSTANTS
    None = None
    Session = {s1, s2, s3}
    Slot = {x1, x2}
    Capacity = 2
    Ttl = 1
    DecayRequests = 2
    ClockBound = 3
    FailureBound = 2
INVARIANTS
    LruOrder
PROPERTIES
    ForgottenInTurn
    NoLostFailure
    ExpiredForgotten
