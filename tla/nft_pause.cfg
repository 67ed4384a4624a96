\* One forward that is created and paused; nothing fails.
SPECIFICATION LiveSpec
CONSTANTS
    Forwards = {f1}
    Versions = {v1, v2}
    Handlers = {h1}
    Starter = starter
    None = None
    MaxBytes = 1
    MaxRequests = 2
    Faults = {}
    MaxFaults = 0
CHECK_DEADLOCK FALSE
PROPERTIES
    PausedGoesSilent
