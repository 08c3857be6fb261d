SPECIFICATION Spec
CONSTANTS
    Fires = {1, 3}
    Policy = "Allow"
    SuccessLimit = 0
    FailLimit = 0
    FirstFireGrace = 1
    RequeueAfterMax = 1
    PromptCaches = FALSE
    Punctual = FALSE
    MaxTime = 3
    MaxRuns = 2
    MaxFaults = 1
    MaxChanges = 0
INVARIANT FiresNeverGoBack
PROPERTY ActiveRunsAreKept
CHECK_DEADLOCK FALSE
