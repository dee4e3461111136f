SPECIFICATION FairSpec
CONSTANTS
    r1 = r1
    r2 = r2
    r3 = r3
    None = None
    Request <- MCRequest
    Streams <- MCStreams
    Sampled <- MCSampled
    SpanCapacity = 2
    BatchSize = 2
    QueueCapacity = 1
    Overlap = TRUE
INVARIANTS
    GaugesMatch
    Accounted
    TraceGapShows
PROPERTIES
    ImplementsLedger
    BundlesSettle
