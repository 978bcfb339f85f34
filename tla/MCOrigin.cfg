\* Five requests for two slots and two places in the queue.
CONSTANTS
    r1 = r1
    r2 = r2
    r3 = r3
    r4 = r4
    r5 = r5
    Requests = {r1, r2, r3, r4, r5}
    concurrency_limit = 2
    queue_limit = 2
SPECIFICATION FairSpec
INVARIANTS
    WithinLimits
    SlotsAccounted
    NoIdleSlot
PROPERTIES
    ServedInTurn
    QueuedIsServed
