SPECIFICATION FairSpec
CONSTANTS
    NumWorkers = 1
    LoaderJobs <- SilentJobs
    MainJobs = {}
    Posts <- SilentPosts
    Failing = {}
    Calls = {"sync"}
    MaxCalls = 1
PROPERTY SyncReturns
