CONSTANTS
    Modes = {"none", "aaac"}
    max_attempts = 2
    min_rtt_samples = 2
    MaxFailures = 2
    TransferBound = 2
    AttemptBound = 2
SPECIFICATION FairSpec
INVARIANTS
    LogAgrees
    OneEstimate
    BlamesRightly
    FullPageUnlessAdapted
PROPERTIES
    DeliveredInTime
    SessionEnds
