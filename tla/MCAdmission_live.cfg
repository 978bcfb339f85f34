\* aaac mode, fair controller: windows that pass are handled.
CONSTANTS
    t1 = t1
    t2 = t2
    Tickets = {t1, t2}
    Controller = Controller
    Mode = "aaac"
    max_attempts = 2
    Caps = {2}
    Limits = {2}
    Estimates = {}
    Faults = FALSE
    AttemptBound = 1
SPECIFICATION FairSpec
PROPERTIES
    ExpiredIsRequeued
