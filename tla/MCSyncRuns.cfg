CONSTANTS
    NumKeys = 2
    PageSize = 1
    Month = 1
    Importers = {"i1"}
    Daemons = {"d1"}
    MaxTime = 4
    MaxChanges = 3
    MaxFailures = 1
SPECIFICATION FairSpec
INVARIANTS TypeOK NoChangeLost
PROPERTIES ChangesArrive
