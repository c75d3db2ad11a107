CONSTANTS
    Keys = {"k1", "k2"}
    Vals <- MCVals
    Blank = "blank"
    History <- TombstoneHistory
    Ingesters = {"i1"}
    Passers = {"p1", "p2"}
    Reprocessors = {"p2"}
    PageSize = 2
    BatchSize = 3
    CommitBatchSize = 2
    Bulk = TRUE
    MaxId = 3
    MaxAborts = 1
    NoRow = NoRow
    NoPass = NoPass
SPECIFICATION Spec
INVARIANTS TypeOK NoRowSkipped StoreConsistent NewestWins
PROPERTIES AuditTrailKept ReplaysAreIdle ImplementsSequentialProjection
