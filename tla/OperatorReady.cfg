SPECIFICATION Spec
CONSTANTS
    SecretNames = {"s1", "s2"}
    PlatformSpecs <- PATFirst
    InitialPlatforms <- PATFirst
    ScanSpecs <- OwnFirst
    InitialScans <- OwnFirst
    InitialSecrets <- BothSecrets
    SecretEdits = {}
    Revocable = {}
    MaxFaults = 0
    MaxChanges = 0
INVARIANT ReadyIsUsable
CHECK_DEADLOCK FALSE
