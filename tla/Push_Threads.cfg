SPECIFICATION Spec
CONSTANTS
    Threads = {t1, t2}
    Logsets = {"good", "bad"}
    ValidLogsets = {"good"}
    Devices <- SharedDevices
SYMMETRY SymmetricThreads
INVARIANTS
    TypeOK
    OwnConnection
    OnlyBadLogsetsRaise
    BadHandlerIsDropped
PROPERTIES
    EndsAsAssumed
CHECK_DEADLOCK FALSE
