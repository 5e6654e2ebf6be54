----------------------------- MODULE MCBillIntake -----------------------------
(* Small instances of BillIntake for TLC.                                    *)
EXTENDS BillIntake, TLC
CONSTANTS d1, d2, s1, s2, o1, acme

(* One seller's invoice 1 read well, and a bill of it that is hardly legible.*)
FewReadings ==
    {[seller |-> acme, number |-> 1, gst |-> "good", confidence |-> Unstated],
     [seller |-> acme, number |-> 0, gst |-> "none", confidence |-> 60]}

SlotSymmetry == Permutations(Slots)
===============================================================================
