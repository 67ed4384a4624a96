\* Two items, every kind of failure, more of them than one pass has retries; two
\* goroutines that could both be in a pass.
SPECIFICATION LiveSpec
CONSTANTS
    Items = {t1, f1}
    Passes = {g1, g2}
    Cooldown = 2
    MaxRetries = 3
    MaxArrivals = 2
    Faults = {"storage", "timeout", "retryable", "permanent"}
    MaxFaults = 4
INVARIANTS
    TypeOK
    OnePass
    NoReconnectLost
    PassCovers
PROPERTIES
    NoRedeployStorm
    Reconciled
