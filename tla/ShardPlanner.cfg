CONSTANTS
    HalfRange = 8
    GzipThreshold = 3
    MaxRepos = 5
    MaxSlug = 3
    MaxBound = 7
SPECIFICATION Spec
INVARIANTS
    TypeOK
    WorkersAreClampedCeiling
    EveryRepoInOneShard
    ShardsAreBalanced
    PlanIgnoresDiscoveryOrder
CHECK_DEADLOCK FALSE
