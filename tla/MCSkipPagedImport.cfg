CONSTANTS
    NumKeys = 2
    PageSize = 1
    Month = 1
    Importers = {"i1"}
    Daemons = {"d1"}
    MaxTime = 4
    MaxChanges = 3
    MaxFailures = 1
    Importer = "i1"
    FetchWorkers = {w1, w2}
    Quiet = TRUE
SYMMETRY AlikeWorkers
SPECIFICATION SkipSpec
INVARIANTS SkipTypeOK ImportIsWhole NoChangeLost
