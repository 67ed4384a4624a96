\* A forward's two services, sent as a pair or the second alone; one of them
\* compares equal when nothing changed.  One configuration report beside the
\* commands.  Three failures.
SPECIFICATION Spec
CONSTANTS
    tcp = tcp
    udp = udp
    Names = {tcp, udp}
    Versions = {v1, v2}
    None = none
    Lists <- Pair
    Complete = {udp}
    Reporters = {r1}
    Faults = {"parse", "save"}
    MaxFaults = 3
INVARIANTS
    TypeOK
    SilentIsMarked
    RegistryIsConfigured
    DeletedStaysDeleted
PROPERTIES
    UpdateAnswerIsTrue
    WakesUnmarked
