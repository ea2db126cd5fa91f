----------------------------- MODULE MCSpendLedger -----------------------------
(* A day of two seconds in a week of four.                                 *)
EXTENDS SpendLedger, TLC

DayAndWeek == [day |-> 3, week |-> 4]
DayOnly == [day |-> 2, week |-> 0]
Calendar == [day |-> 4, week |-> 8]

RequestSymmetry == Permutations(Requests)
=============================================================================
