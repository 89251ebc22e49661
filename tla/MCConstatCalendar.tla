--------------------------- MODULE MCConstatCalendar ---------------------------
(***************************************************************************)
(* Instances of ConstatCalendar for TLC: three months, the second shorter  *)
(* than the others, so that a day of the first has none to fall on.        *)
(***************************************************************************)
EXTENDS ConstatCalendar, TLC

MCDays == <<3, 2, 3, 3>>

Symmetry == Permutations(Docs)
==============================================================================
