SPECIFICATION Spec
CONSTANTS
    Fires = {2, 4}
    Policy = "Allow"
    SuccessLimit = 1
    FailLimit = 1
    FirstFireGrace = 1
    RequeueAfterMax = 2
    PromptCaches = TRUE
    Punctual = TRUE
    MaxTime = 5
    MaxRuns = 3
    MaxFaults = 0
    MaxChanges = 0
INVARIANT OneRunPerFire
CHECK_DEADLOCK FALSE
