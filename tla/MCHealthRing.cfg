CONSTANTS
    n_buckets = 3
    n_err_buckets = 2
    hist_buckets = 2
    SeenBound = 4
    TimeBound = 7
SPECIFICATION Spec
INVARIANTS
    WindowExact
    ErrRateExact
