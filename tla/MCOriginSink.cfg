\* Writes may fail: every sample is accounted for, and closing ends.
CONSTANTS
    queue_maxsize = 2
    SampleBound = 6
    Faults = TRUE
SPECIFICATION FairSpec
INVARIANTS
    EverySampleCounted
    ClosedSinkIsComplete
PROPERTIES
    CloseReturns
