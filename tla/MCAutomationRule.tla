-------------------------- MODULE MCAutomationRule --------------------------
(* Small instances of AutomationRule for TLC.                               *)
EXTENDS AutomationRule, TLC
CONSTANTS r1, r2, s1, s2, c1, t1, e1
=============================================================================
