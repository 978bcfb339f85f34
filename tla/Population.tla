----------------------------- MODULE Population -----------------------------
(***************************************************************************)
(* aaac.evaluation.population: how many clients a load has of each class.  *)
(* Who they are and when they arrive depends on the seed; a client is the  *)
(* index of its label before the shuffle, and arrivals are in any order.   *)
(* Shares are in per cent.                                                 *)
(***************************************************************************)
EXTENDS AccessClasses, Integers, FiniteSets

CONSTANT class_mix

ASSUME MixAssumption ==
    /\ class_mix \in [AccessClass -> Nat]
    /\ class_mix[HIGH] + class_mix[MEDIUM] + class_mix[LOW] = 100

Total(f) == f[HIGH] + f[MEDIUM] + f[LOW]

\* n * share, in hundredths of a client.
raw(n) == [c \in AccessClass |-> n * class_mix[c]]

truncated(n) == [c \in AccessClass |-> raw(n)[c] \div 100]

shortfall(n) == n - Total(truncated(n))

\* Largest fractional remainder first, ties in the order of the classes.
Before(n, d, c) ==
    \/ raw(n)[d] % 100 > raw(n)[c] % 100
    \/ raw(n)[d] % 100 = raw(n)[c] % 100 /\ d < c

rank(n, c) == Cardinality({d \in AccessClass : Before(n, d, c)})

\* Largest remainder: the first "shortfall" classes get one client more.
apportion(n) ==
    [c \in AccessClass |-> truncated(n)[c] + (IF rank(n, c) < shortfall(n) THEN 1 ELSE 0)]

\* The labels of n clients, laid out class by class.
label(n, i) ==
    LET counts == apportion(n) IN
    IF i < counts[HIGH] THEN HIGH
    ELSE IF i < counts[HIGH] + counts[MEDIUM] THEN MEDIUM ELSE LOW
=============================================================================
