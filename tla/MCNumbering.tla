----------------------------- MODULE MCNumbering -----------------------------
(***************************************************************************)
(* Small instances of Numbering for TLC, and amounts for the assumption of *)
(* InvoiceTotals.                                                          *)
(***************************************************************************)
EXTENDS Numbering, InvoiceTotals

CONSTANTS office, invoices

MCSequence == 1..3

MCBillingDays == {1}

MCAmounts == 0..10

MCPercentages == {0, 1, 3333, 5000, Whole}

=============================================================================
