SPECIFICATION MwFairSpec
CHECK_DEADLOCK FALSE
CONSTANTS
    Tenants = {t1, t2}
    Clients = {c1, c2}
    Entries = {x1, x2}
    Capacity = 1
    NoEntry = noEntry
    NoTenant = noTenant
INVARIANTS
    LeaseSafe
    RefsMatch
    FinishedMeansDrained
    StoppedMeansDrained
    WithinCapacity
    NoLeak
    HandlerHasItsTenant
PROPERTIES
    RetiredIsFinished
    ShutdownCompletes
    RequestsAnswered
