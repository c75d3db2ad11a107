CONSTANTS
    NumKeys = 3
    PageSize = 1
    Month = 1
    Importers = {"i1"}
    Daemons = {"d1"}
    MaxTime = 4
    MaxChanges = 4
    MaxFailures = 1
    Importer = "i1"
    FetchWorkers = {w1, w2}
    Quiet = FALSE
SYMMETRY AlikeWorkers
SPECIFICATION SkipSpec
INVARIANT NoChangeLost
