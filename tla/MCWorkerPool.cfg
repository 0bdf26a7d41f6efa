SPECIFICATION FairSpec
CONSTANTS
    NumWorkers = 2
    LoaderJobs <- MCLoaderJobs
    MainJobs <- MCMainJobs
    Posts <- MCPosts
    Failing = {3}
    Calls = {"sync", "partial", "lock", "count", "destroy"}
    MaxCalls = 2
INVARIANTS TypeOK StopsAreJoined
PROPERTIES WaitedSyncFlushes  EveryJobRuns AbortEndsProgram
