\* One claim the code does not keep: SweptIsRequeued.
CONSTANTS
    t1 = t1
    t2 = t2
    Tickets = {t1, t2}
    Controller = Controller
    Mode = "aaac"
    max_attempts = 2
    Caps = {1}
    Limits = {2}
    Estimates = {}
    Faults = TRUE
    AttemptBound = 1
SPECIFICATION Spec
INVARIANTS
    SweptIsRequeued
