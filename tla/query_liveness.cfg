SPECIFICATION FairSpec
CONSTANTS
    Requests = {q1, x1}
    QueryRequests = {q1, x1}
    RetryRequests = {x1}
    AbortRequests = {x1}
    RequestIds = {r1}
    max_concurrency_level = 1
    None = None
CHECK_DEADLOCK FALSE
PROPERTIES
    RegistryDrains
    EveryHandlerAnswers
    ImplementsFairPromise
