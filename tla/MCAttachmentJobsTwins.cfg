CONSTANTS
    Media = {"m1", "m2"}
    Listings = {"l1"}
    ListingOf <- SameListing
    Contents = {"a"}
    Revisions <- OnePicture
    Untimed = {}
    Enqueuers = {"e1"}
    Workers = {"w1"}
    Daemons = {"w1"}
    BatchSize = 2
    MaxAttempts = 3
    MaxJobs = 2
    MaxSlow = 0
    MaxAborts = 0
    NoJob = NoJob
    NoContent = NoContent
    NoWorker = NoWorker
SPECIFICATION Spec
INVARIANT LinkedObjectsExist
