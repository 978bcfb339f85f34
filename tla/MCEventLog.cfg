CONSTANTS
    c1 = c1
    c2 = c2
    Ticker = Ticker
    Handlers = {c1, c2}
    FlushAt = 3
    MaxRecords = 6
SPECIFICATION FairSpec
INVARIANTS
    ClosedMeansStored
PROPERTIES
    StoredInOrder
    KeepsRecordLog
