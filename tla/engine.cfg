SPECIFICATION FairSpec
CONSTANTS
    p1 = p1
    p2 = p2
    t1 = t1
    t2 = t2
    t3 = t3
    r1 = r1
    r2 = r2
    None = None
    Provider <- MCProvider
    Target <- MCTarget
    ProviderOf <- MCProviderOf
    FailureThreshold = 1
    FailureWindow = 1
    BaseCooldown = 1
    MaxCooldown = 2
    BackoffMultiplier = 2
    OverflowLevel = 20
    RetryAfterValues = {0}
    OutcomeClasses = {}
    ClockBound = 2
    LeaseBound = 5
    InFlightBound = 3
    Request <- MCRequest
    QueryOf <- MCQueryOf
    SessionFailures = {0, 2}
    Catalog <- MCCatalog
    TierOf <- MCTierOf
    ScopeOf <- MCScopeOf
    EscalationRequests = 2
    AttemptLimit = 3
    Streams <- MCStreams
    MaxConcurrency = 1
    HttpFailures = {"target_transient", "provider_permanent"}
INVARIANTS
    LiveLeasesActive
    PermitsCover
    LeasesReported
    PermitsReturned
    FirstTargetServes
PROPERTIES
    EveryRequestEnds
    CompletionResolved
    RefusalsHonest
