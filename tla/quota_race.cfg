\* Two requests on SQLite, nothing fails and nothing restarts: even then a
\* forward the quota paused can be forgotten.
SPECIFICATION Spec
CONSTANTS
    Handlers = {h1, h2}
    Job = job
    Forwards = {f1}
    NoForward = none
    Limits <- DailyLimit
    Sizes = {1}
    MaxUsed = 1
    LastTime = 0
    MaxCrashes = 0
    Faults = {FALSE}
    SingleConnection = TRUE
INVARIANT PausedAreRestored
