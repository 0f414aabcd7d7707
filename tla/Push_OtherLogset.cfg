SPECIFICATION Spec
CONSTANTS
    Threads = {t1, t2}
    Logsets = {"good", "partner", "other"}
    ValidLogsets = {"good", "partner", "other"}
    Devices <- PartnerDevices
INVARIANTS
    RecordReachesItsLogset
CHECK_DEADLOCK FALSE
