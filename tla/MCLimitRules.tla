---------------------------- MODULE MCLimitRules ----------------------------
(***************************************************************************)
(* Every day from the end of 2027 to 2 April 2028: a year end, a leap      *)
(* February, and the month ends 29 to 31 January where setMonth overflows. *)
(* The positions lie around the limit 40, which is large enough for a day  *)
(* to leave a share of it.                                                 *)
(***************************************************************************)
EXTENDS LimitRules

First == DateNo(MonthNo(2027, 12), 29)
Last == DateNo(MonthNo(2028, 4), 2)
MCPositions == {-41, 35, 36, 40, 41}
MCContracts == {MonthNo(2028, 1), MonthNo(2028, 2)}
=============================================================================
