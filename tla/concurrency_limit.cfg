SPECIFICATION Spec
CONSTANTS
    Requests = {q1, q2}
    QueryRequests = {q1, q2}
    RetryRequests = {}
    AbortRequests = {}
    RequestIds = {r1, r2}
    max_concurrency_level = 1
    None = None
CHECK_DEADLOCK FALSE
INVARIANTS
    ConcurrencyLimit
