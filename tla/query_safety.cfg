SPECIFICATION Spec
CONSTANTS
    Requests = {q1, t1, a1}
    QueryRequests = {q1, t1}
    RetryRequests = {t1}
    AbortRequests = {a1}
    RequestIds = {r1, r2}
    max_concurrency_level = 1
    None = None
SYMMETRY Symmetry
CHECK_DEADLOCK FALSE
INVARIANTS
    NoBrokenStatusChannel
    ResultClaimedOnce
    AnswerMatchesExecution
    AbortWaitsForEnd
    LifecycleInv
PROPERTIES
    ImplementsPromise
