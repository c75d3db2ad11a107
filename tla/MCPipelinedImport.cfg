CONSTANTS
    Keys <- MCKeys
    Vals <- MCVals
    Blank = "blank"
    Listings <- MCListings
    ResourceOf <- MCResourceOf
    ListingOf <- MCListingOf
    NoLink = "no_link"
    Processes = {"import", "property", "open_house"}
    NoProcess = "no_process"
    Pages <- MCPages
    CommitBatchSize = 2
    MaxRetries = 2
    MaxConsecutive429 = 1
    Importer = "import"
    Feed <- MCFeed
    ChainOf <- MCChainOf
    MaxStarts = 2
    Deployments <- MCDeployments
    Deltas <- MCDeltas
    MaxFailures <- MCMaxFailures
SPECIFICATION FairSpec
INVARIANTS TypeOK NobodyWaitsInVain FetchIsBounded SuccessIsComplete SuccessLinksRooms NoneSkipped
PROPERTIES ImportEnds ParkedGetLinked ImplementsParkedLinks
