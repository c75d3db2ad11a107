CONSTANTS
    Keys = {"k1", "k2"}
    Vals <- MCVals
    Blank = "blank"
    History <- TombstoneHistory
    Ingesters = {"i1", "i2"}
    Passers = {"p1"}
    Reprocessors = {}
    PageSize = 1
    BatchSize = 3
    CommitBatchSize = 2
    Bulk = TRUE
    MaxId = 3
    MaxAborts = 0
    NoRow = NoRow
    NoPass = NoPass
SPECIFICATION Spec
INVARIANT NoRowSkipped
