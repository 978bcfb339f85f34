\* aaac mode, with ticks and requests that die half-way: the safety properties.
CONSTANTS
    t1 = t1
    t2 = t2
    Tickets = {t1, t2}
    Controller = Controller
    Mode = "aaac"
    max_attempts = 2
    Caps = {1, 2}
    Limits = {1, 2}
    Estimates = {0}
    Faults = TRUE
    AttemptBound = 1
SPECIFICATION Spec
INVARIANTS
    OnePlace
    SlotsAreAdmitted
    CounterCoversQueue
PROPERTIES
    NoOvertaking
    AdmitRespectsCap
    SweepsOnlyElapsed
SYMMETRY Symmetry
