--------------------------- MODULE AccessClasses ---------------------------
(***************************************************************************)
(* The access classes of aaac.common.classes: an IntEnum in which a larger *)
(* number is a slower link.  "Worse" is therefore ">" throughout.          *)
(***************************************************************************)
EXTENDS Naturals

HIGH   == 0
MEDIUM == 1
LOW    == 2

AccessClass == {HIGH, MEDIUM, LOW}

\* One step down; LOW is the floor.
Downgrade(c) == IF c = HIGH THEN MEDIUM ELSE LOW

\* C4's class for the next attempt: at max_attempts the floor is forced.
NextClass(c, attempt, max_attempts) ==
    IF attempt >= max_attempts THEN LOW ELSE Downgrade(c)
=============================================================================
