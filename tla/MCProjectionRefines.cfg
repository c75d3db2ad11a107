CONSTANTS
    Keys = {"k1", "k2"}
    Vals <- MCVals
    Blank = "blank"
    History <- PoisonHistory
    Ingesters = {"i1"}
    Passers = {"p1"}
    Reprocessors = {}
    PageSize = 2
    BatchSize = 4
    CommitBatchSize = 3
    Bulk = TRUE
    MaxId = 4
    MaxAborts = 1
    NoRow = NoRow
    NoPass = NoPass
SPECIFICATION FairSpec
PROPERTIES ImplementsSequentialProjection SavedRowsGetProjected
