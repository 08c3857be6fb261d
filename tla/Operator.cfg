SPECIFICATION FairSpec
CONSTANTS
    SecretNames = {"s1", "s2"}
    PlatformSpecs <- SmallPlatformSpecs
    InitialPlatforms <- AppFirst
    ScanSpecs <- SmallScanSpecs
    InitialScans <- OwnFirst
    InitialSecrets <- BothSecrets
    SecretEdits = {"absent", "text", "rsaKey", "otherKey"}
    Revocable = {"s1", "s2"}
    MaxFaults = 1
    MaxChanges = 2
INVARIANTS TypeOK JobRunsItsSnapshot RefusedForAReason
PROPERTIES DeletionCascades 
CHECK_DEADLOCK FALSE
