SPECIFICATION Spec
CONSTANTS
    Requests = {q1, t1}
    QueryRequests = {q1, t1}
    RetryRequests = {t1}
    AbortRequests = {}
    RequestIds = {r1}
    max_concurrency_level = 2
    None = None
CHECK_DEADLOCK FALSE
INVARIANTS
    RetryDoesNotReexecute
