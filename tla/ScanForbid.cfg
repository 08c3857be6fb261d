SPECIFICATION FairSpec
CONSTANTS
    Fires = {1, 2, 5}
    Policy = "Forbid"
    SuccessLimit = 1
    FailLimit = 1
    FirstFireGrace = 1
    RequeueAfterMax = 2
    PromptCaches = TRUE
    Punctual = TRUE
    MaxTime = 6
    MaxRuns = 4
    MaxFaults = 1
    MaxChanges = 1
INVARIANTS TypeOK OneRunPerFire OneActiveRun
PROPERTIES NewestRunsAreKept LastSuccessNeverGoesBack FiresAreServed
CHECK_DEADLOCK FALSE
