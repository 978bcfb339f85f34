\* none mode, no failures: no ticket is lost, and scores are unique.
CONSTANTS
    t1 = t1
    t2 = t2
    Tickets = {t1, t2}
    Controller = Controller
    Mode = "none"
    max_attempts = 2
    Caps = {1, 2}
    Limits = {2}
    Estimates = {}
    Faults = FALSE
    AttemptBound = 1
SPECIFICATION Spec
INVARIANTS
    NoTicketLost
    DistinctScores
SYMMETRY Symmetry
