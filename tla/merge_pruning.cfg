SPECIFICATION Spec
CONSTANTS
    Writers = {w1, w2}
    w1 = w1
    w2 = w2
    Workloads <- MCTransformed
    Tables <- MCTables
    Columns <- MCColumns
    NULL = NULL
    MaxBatch = 2
    MaxRuns <- MCMaxRuns
INVARIANTS
    PrunedFilesMatchNothing
