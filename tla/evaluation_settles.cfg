SPECIFICATION FairSpec
CONSTANTS
    r1 = r1
    r2 = r2
    h1 = h1
    None = None
    Boot = Boot
    Recorder = Recorder
    Shadow = Shadow
    Request <- MCRequest
    Handler <- MCNoHandler
    Event <- MCEvent
    Current <- MCCurrent
    Candidate <- MCCandidate
    Client <- MCClient
    Row <- MCRow
    Policies <- MCPolicies
    Unbindable <- MCUnbindable
    QueueCapacity = 1
    Verdict = {"evaluated"}
    CrashBound = 1
    ErrorBound = 1
CHECK_DEADLOCK FALSE
PROPERTIES
    EvidenceSettles
