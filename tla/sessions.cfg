SPECIFICATION FairSpec
CONSTANTS
    SessionIds = {s1}
    Objects = {o1, o2, o3}
    Handlers = {h1, h2}
    TTL = 3
    HttpTimeout = 1
    None = None
INVARIANTS
    MissingOnlyAfterLogout
    SessionInv
PROPERTIES
    SweepSparesQueries
    SlidingWindow
    ExpiredSessionsGo
