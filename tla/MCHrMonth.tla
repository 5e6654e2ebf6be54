----------------------------- MODULE MCHrMonth ------------------------------
(* A small month for TLC: one swipe time, at which the shift opens and closes.*)
EXTENDS HrMonth, TLC

CONSTANTS o1, o2, k1

ShiftWindow == <<"t", "t">>

(* Present without swipes, and a cleared day.                                 *)
TwoEntries == {[status |-> "present", in |-> "", out |-> ""], NoCell}

ClerkSymmetry == Permutations(Operators)
=============================================================================
