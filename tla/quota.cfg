\* Two requests and the daily job on PostgreSQL, where the roll's read and
\* write are apart; every command and transaction may fail.
SPECIFICATION Spec
CONSTANTS
    Handlers = {h1, h2}
    Job = job
    Forwards = {f1}
    NoForward = none
    Limits <- DailyLimit
    Sizes = {0, 1}
    MaxUsed = 1
    LastTime = 1
    MaxCrashes = 0
    Faults = {TRUE, FALSE}
    SingleConnection = FALSE
SYMMETRY Symmetric
INVARIANTS
    TypeOK
    NeverOvercharged
    MarkIsJustified
