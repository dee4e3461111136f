SPECIFICATION FairSpec
CONSTANTS
    Request = {1, 2, 3}
    Stored = {2, 3}
    At <- MCAt
    Detail = {d1, d2}
    Fleeting = {d1}
    Asked = {2, None}
    Walker = walker
    PageLimit = 1
    Capacity = 2
    Threads = 1
    CutoffBound = 1
    BatchLimit = 1
    None = None
INVARIANTS
    WalkComplete
    AnswersWhole
PROPERTIES
    QueriesAnswered
CHECK_DEADLOCK FALSE
