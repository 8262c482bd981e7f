SPECIFICATION Spec
CONSTANTS
    SessionIds = {s1}
    Objects = {o1, o2, o3}
    Handlers = {h1, h2}
    TTL = 3
    HttpTimeout = 1
    None = None
PROPERTIES
    NotReplacedUnderQuery
