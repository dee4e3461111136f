SPECIFICATION Spec
CONSTANTS
    NL = NL
    None = None
    RouterError = RouterError
    Event <- MCEvent
    BodyBound = 8
    ChunkBound = 4
INVARIANTS
    RelayFaithful
    ParserMatches
    ReportHonest
PROPERTIES
    ImplementsStream
