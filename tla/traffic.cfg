\* Two chunks of one service, another to replace it, two addresses of the
\* panel, two faults of any kind.
SPECIFICATION LiveSpec
CONSTANTS
    old = old
    new = new
    Services = {old, new}
    Names = {name}
    Name <- NameIs
    Chunks = {c1, c2}
    Of <- OfIs
    Handlers = {h1}
    NoHandler = NoHandler
    Addresses = 2
    Faults = {"request", "answer", "storage", "agent", "panel"}
    MaxFaults = 2
CHECK_DEADLOCK FALSE
INVARIANTS
    BilledOnce
    NothingStranded
PROPERTIES
    LossHasCause
    Settled
