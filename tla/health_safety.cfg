SPECIFICATION Spec
CONSTANTS
    p1 = p1
    t1 = t1
    t2 = t2
    None = None
    Provider <- MCProvider
    Target <- MCTarget
    ProviderOf <- MCProviderOf
    FailureThreshold = 2
    FailureWindow = 1
    BaseCooldown = 1
    MaxCooldown = 2
    BackoffMultiplier = 2
    OverflowLevel = 20
    RetryAfterValues = {0, 1, 3}
    OutcomeClasses = {"success", "client_cancelled", "provider_transient", "target_transient", "provider_permanent", "target_permanent"}
    ClockBound = 3
    LeaseBound = 5
    InFlightBound = 3
INVARIANTS
    IInv
    SingleProbe
    SnapshotAgreesWithAdmission
PROPERTIES
    SuspensionServed
    ProbeDecides
    RevisionCoversSnapshot
    FailedProbeCoolsDown
