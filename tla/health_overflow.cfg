SPECIFICATION Spec
CONSTANTS
    p1 = p1
    t1 = t1
    t2 = t2
    None = None
    Provider <- MCProvider
    Target <- MCTarget
    ProviderOf <- MCProviderOf
    FailureThreshold = 1
    FailureWindow = 1
    BaseCooldown = 1
    MaxCooldown = 2
    BackoffMultiplier = 2
    OverflowLevel = 1
    RetryAfterValues = {0}
    OutcomeClasses = {"success", "provider_transient", "target_transient"}
    ClockBound = 3
    LeaseBound = 4
    InFlightBound = 3
PROPERTIES
    FailedProbeCoolsDown
