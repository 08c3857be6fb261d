SPECIFICATION FairSpec
CONSTANTS
    p1 = p1
    s1 = s1
    s2 = s2
    NoObject = NoObject
    Platforms = {p1}
    SecretNames = {s1, s2}
    Specs <- MixedSpecs
    MaxFaults = 1
    MaxChanges = 3
INVARIANTS
    TypeOK
    ReadyWasEarned
PROPERTY ReadyConverges
CHECK_DEADLOCK FALSE
