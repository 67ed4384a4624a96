\* One request at a time beside the daily job, limits that change and one
\* restart; nothing fails, so that what must happen can.
SPECIFICATION LiveSpec
CONSTANTS
    Handlers = {h1}
    Job = job
    Forwards = {f1}
    NoForward = none
    Limits <- TwoLimits
    Sizes = {1}
    MaxUsed = 1
    LastTime = 1
    MaxCrashes = 1
    Faults = {FALSE}
    SingleConnection = FALSE
PROPERTIES
    EventuallyEnforced
    EventuallyReleased
