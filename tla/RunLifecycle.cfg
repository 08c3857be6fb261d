CONSTANTS
    HalfRange = 8
    GzipThreshold = 3
    r1 = r1
    Runs = {r1}
    NoObject = NoObject
    JobName <- DistinctNames
    MirrorName <- DistinctNames
    Workers <- OneRepoPerWorker
    Discoveries <- StableRepos
    CredentialsValid = TRUE
    MaxFaults = 2
SPECIFICATION FairSpec
INVARIANTS
    TypeOK
    JobHasItsInputs
    Inv
    TerminalIsCounted
    JobMatchesShards
    SucceededMeansAllShardsRan
PROPERTIES
    ImplementsLifecycle
    PlanFixedOnceRunning
    EveryRunEnds
