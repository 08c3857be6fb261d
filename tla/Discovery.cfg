SPECIFICATION FairSpec
CONSTANTS
    Repos = {1, 2, 3, 4, 5, 6}
    Attr <- SmallAttr
    OwnerKind <- Accounts
    Namespace = "jane"
    Clients = {"githubApp", "githubToken", "forgejo"}
    Specs <- SmallSpecs
    Listings <- SmallListings
    PageSize = 2
    ServerLimit = 2
    MaxFaults = 2
    MaxChanges = 2
INVARIANTS
    TypeOK
    FindsTheEligible
    NoRepoTwice
    FailsOnlyWhenHopeless
PROPERTY DiscoveryEnds
CHECK_DEADLOCK FALSE
