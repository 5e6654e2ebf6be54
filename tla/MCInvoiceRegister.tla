------------------------- MODULE MCInvoiceRegister -------------------------
(* Small instances of InvoiceRegister for TLC.                              *)
EXTENDS InvoiceRegister, TLC
CONSTANTS p1, p2, p3, jul, aug

RequestSymmetry == Permutations(Requests)
=============================================================================
