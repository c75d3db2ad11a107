CONSTANTS
    Media = {"m1"}
    Listings = {"l1"}
    ListingOf <- SameListing
    Contents = {"a"}
    Revisions <- OnePicture
    Untimed = {}
    Enqueuers = {"e1"}
    Workers = {"w1"}
    Daemons = {"w1"}
    BatchSize = 1
    MaxAttempts = 1
    MaxJobs = 3
    MaxSlow = 0
    MaxAborts = 1
    Requests = {"r1"}
    Exclusive = TRUE
    ScanSize = 1
    NoJob = NoJob
    NoContent = NoContent
    NoWorker = NoWorker
    NoMedia = NoMedia
SPECIFICATION BackfillSpec
INVARIANTS BackfillTypeOK BackfillAddsOnce
