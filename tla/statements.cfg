\* Two concurrent statements of one session, one fault.
SPECIFICATION Spec
CHECK_DEADLOCK FALSE
SYMMETRY Symmetry
CONSTANTS
    Database = "embucket"
    SchemaNames = {"public", "s", "S"}
    TableNames = {"t", "T", "v"}
    Lower <- MCLower
    Upper <- MCUpper
    Workers = {w1, w2}
    Menus <- MCMenus
    Starts <- MCStarts
    Context = ""
    Columns = {"c"}
    Buckets = {"b1", "b2"}
    CatalogBucket = "b1"
    MaxStatements = 3
    MaxFaults = 1
    MaxWrites = 1
INVARIANTS
    TypeOK
    CachedTablesExist
    ReadsAreFresh
    ReplaceIsNew
    ListsAreFresh
    TupleSetsAreAtomic
PROPERTY
    CopyKeepsCatalogStore
