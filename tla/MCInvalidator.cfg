SPECIFICATION FairSpec
CHECK_DEADLOCK FALSE
CONSTANTS
    Enforcers = {e1}
    Users = {u1, u2}
    InvalidateFlush = flush
    Ack = ack
    QueueCap = 1
    MaxCommits = 2
    MaxFaults = 2
INVARIANTS
    StaleIsCovered
    SenderNeverBlocks
PROPERTIES
    RecoversFresh
    CloseEndsLoops
