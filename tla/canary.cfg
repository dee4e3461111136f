SPECIFICATION Spec
CONSTANTS
    r1 = r1
    r2 = r2
    r3 = r3
    None = None
    Config <- MCConfig
    Request <- MCRequest
    Asked <- MCAsked
    Default <- MCDefault
    Bucket <- MCBucket
    Minimum = 1
    Lookback = 1
    MaxTime = 2
    MaxStarts = 3
INVARIANTS
    CanaryEvidenced
    PoliciesDurable
    StickyAffinity
CHECK_DEADLOCK FALSE
