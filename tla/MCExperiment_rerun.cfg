\* The log of a run that is started again is appended to.
CONSTANTS
    Matrix <- MCMatrix
    class_mix <- MCMix
    LoadSizes = {1, 2}
    GeneratedSizes = {1}
    LaunchBound = 2
    TimeoutBound = 1
SPECIFICATION Spec
CHECK_DEADLOCK FALSE
PROPERTIES
    CountsOwnTickets
