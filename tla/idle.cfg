SPECIFICATION FairSpec
CONSTANTS
    SessionIds = {s1, s2}
    QueryIds = {q1}
    Interval = 2
    IdleTimeout = 5
    None = None
CHECK_DEADLOCK FALSE
PROPERTIES
    StopsOnlyWhenQuiet
    EventuallyStops
