SPECIFICATION FairSpec
CONSTANTS
    VolumeIdents = {v1, v2}
    DatabaseIdents <- MCDatabases
    SchemaNames <- MCSchemas
    TableNames <- MCTables
    Lower <- MCLower
    Tasks = {t1, t2}
    None = None
INVARIANTS
    NoSelfDeadlock
    CommitSafe
    HierarchyKept
PROPERTIES
    CallsReturn
