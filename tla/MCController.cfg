\* aaac mode, a floor of one slot under C_max, and an alpha that moves in three steps.
CONSTANTS
    t1 = t1
    t2 = t2
    Tickets = {t1, t2}
    Ticker = Ticker
    Mode = "aaac"
    max_attempts = 2
    alpha_unit = 1
    alpha_min = 1
    alpha_max = 3
    alpha_increase = 1
    alpha_decrease = 70
    control_tick = 1000
    mu_unit = 2
    horizon = 2000
    concurrency_limit = 4
    w_base = 1
    w_max = 2
    kappa <- MCKappa
    class_mix <- MCMix
    EntryBound = 3
SPECIFICATION FairSpec
INVARIANTS
    NoTicketLost
    SlotsAreAdmitted
    InJoinOrder
PROPERTIES
    HeadIsAdmitted
    AlphaSettles
