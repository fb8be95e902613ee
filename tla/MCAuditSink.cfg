SPECIFICATION AuditSpec
CHECK_DEADLOCK FALSE
CONSTANTS
    Mutations = {m1, m2}
    Decisions = {d1, d2}
    Torn = torn
    Free = free
    MaxFaults = 3
    MaxCrashes = 2
SYMMETRY Symmetry
INVARIANTS
    AckedDurable
    AllowedIsAudited
    NoSilentGap
    CommittedOnce
