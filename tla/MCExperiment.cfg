\* Two runs of one seed, and a matrix that is started again when it fails in the first.
CONSTANTS
    Matrix <- MCMatrix
    class_mix <- MCMix
    LoadSizes = {1, 2}
    GeneratedSizes = {1}
    LaunchBound = 2
    TimeoutBound = 1
SPECIFICATION FairSpec
CHECK_DEADLOCK FALSE
INVARIANTS
    OneModePerLog
    
    
    SameLoad
    RereadSeesMore
PROPERTIES
    
    MatrixEnds
