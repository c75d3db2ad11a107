CONSTANTS
    Media = {"m1"}
    Listings = {"l1"}
    ListingOf <- SameListing
    Contents = {"a", "b"}
    Revisions <- OnePicture
    Untimed = {}
    Enqueuers = {"e1"}
    Workers = {"w1", "w2"}
    Daemons = {"w2"}
    BatchSize = 2
    MaxAttempts = 2
    MaxJobs = 2
    MaxSlow = 1
    MaxAborts = 1
    NoJob = NoJob
    NoContent = NoContent
    NoWorker = NoWorker
SPECIFICATION FairSpec
PROPERTIES JobsFinish ImplementsJobQueue
