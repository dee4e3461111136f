SPECIFICATION Spec
CONSTANTS
    NL = NL
    None = None
    RouterError = RouterError
    Event <- MCEvent
    BodyBound = 7
    ChunkBound = 4
INVARIANTS
    LeaseRecorded
