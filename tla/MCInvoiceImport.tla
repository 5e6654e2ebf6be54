-------------------------- MODULE MCInvoiceImport ---------------------------
(* A small upload for TLC: two scans, one of them attached twice.             *)
EXTENDS InvoiceImport, TLC

CONSTANTS a, b, w1, w2, o1, o2

TwoScans == <<a, a, b>>

Twins == {<<1, "extracted">>, <<0, "needs_attention">>}
=============================================================================
