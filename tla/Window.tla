------------------------------- MODULE Window -------------------------------
(***************************************************************************)
(* aaac.admission.window, C2: how long an admission lasts.  Seconds are    *)
(* counted in tenths, as kappa is.                                         *)
(***************************************************************************)
EXTENDS AccessClasses, Integers

CONSTANTS
    w_base,     \* w_base_s, in seconds
    w_max,      \* w_max_s, in seconds
    kappa,      \* per class, in tenths
    class_mix   \* per class, in per cent

ASSUME WindowAssumption ==
    /\ w_base \in Nat \ {0} /\ w_max \in Nat \ {0}
    /\ kappa \in [AccessClass -> Nat \ {0}] /\ class_mix \in [AccessClass -> Nat]

Least(m, n) == IF m < n THEN m ELSE n

window_for(c, mode) ==
    IF mode = "aaac" THEN Least(w_base * kappa[c], 10 * w_max) ELSE 10 * w_base

\* _tick's guess of how many of the waiting are of class c.
waiting_of(c, total_waiting) == (total_waiting * class_mix[c]) \div 100

\* The weighted mean is weighted_sum / weight; w_base where nobody is counted.
weight(total_waiting) ==
    waiting_of(HIGH, total_waiting) + waiting_of(MEDIUM, total_waiting)
      + waiting_of(LOW, total_waiting)

weighted_sum(total_waiting, mode) ==
    waiting_of(HIGH, total_waiting) * window_for(HIGH, mode)
      + waiting_of(MEDIUM, total_waiting) * window_for(MEDIUM, mode)
      + waiting_of(LOW, total_waiting) * window_for(LOW, mode)

CeilDiv(m, n) == (m + n - 1) \div n

\* ceil(rate * weighted_mean_window), where rate is in 1 / unit per second.
ceil_times_mean(rate, unit, total_waiting, mode) ==
    IF weight(total_waiting) = 0
    THEN CeilDiv(rate * w_base, unit)
    ELSE CeilDiv(rate * weighted_sum(total_waiting, mode), unit * 10 * weight(total_waiting))
=============================================================================
