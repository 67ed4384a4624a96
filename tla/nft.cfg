\* Two forwards; a handler's two requests, the start of the panel and the job at
\* any moment of them; one fault of any kind.
SPECIFICATION LiveSpec
CONSTANTS
    Forwards = {f1, f2}
    Versions = {v1, v2}
    Handlers = {h1}
    Starter = starter
    None = None
    MaxBytes = 1
    MaxRequests = 2
    Faults = {"storage", "ssh", "nft", "node", "panel"}
    MaxFaults = 1
CHECK_DEADLOCK FALSE
INVARIANTS
    TypeOK
    BilledOnce
    UndisturbedAgrees
PROPERTIES
    Settled
