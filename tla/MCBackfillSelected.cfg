CONSTANTS
    Media = {"m1", "m2"}
    Listings = {"l1"}
    ListingOf <- SameListing
    Contents = {"a", "b"}
    Revisions <- Replaced
    Untimed = {}
    Enqueuers = {"e1"}
    Workers = {"w1"}
    Daemons = {"w1"}
    BatchSize = 1
    MaxAttempts = 1
    MaxJobs = 2
    MaxSlow = 0
    MaxAborts = 0
    Requests = {}
    Exclusive = TRUE
    ScanSize = 1
    NoJob = NoJob
    NoContent = NoContent
    NoWorker = NoWorker
    NoMedia = NoMedia
SPECIFICATION BackfillSpec
PROPERTY ChosenListingsKept
