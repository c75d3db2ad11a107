CONSTANTS
    Media = {"m1"}
    Listings = {"l1"}
    ListingOf <- SameListing
    Contents = {"a", "b"}
    Revisions <- OnePhoto
    Untimed = {}
    Enqueuers = {"e1"}
    Workers = {"w1", "w2"}
    Daemons = {"w2"}
    BatchSize = 1
    MaxAttempts = 2
    MaxJobs = 2
    MaxSlow = 1
    MaxAborts = 1
    NoJob = NoJob
    NoContent = NoContent
    NoWorker = NoWorker
SPECIFICATION Spec
INVARIANTS TypeOK LinksComeFromSuccess OneJobPerRevision SuccessIsCurrent AttemptsAreBounded LinkedObjectsExist
PROPERTIES FinishedIsFinal AttemptsCountFailures
