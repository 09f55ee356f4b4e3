---------------------------- MODULE InvoiceTotals ----------------------------
(***************************************************************************)
(* The totals of an invoice: compute_totals in                             *)
(* app/features/invoicing/service.py.                                      *)
(*                                                                         *)
(* Amounts are whole cents and the discount is in hundredths of a percent, *)
(* the precision that the request schema and the columns have.  The        *)
(* module has no state and no run: its properties are proved of every      *)
(* amount.                                                                 *)
(***************************************************************************)
EXTENDS Integers

CONSTANTS
    Amounts,      \* sums of line items and MCA charges, in cents
    Percentages   \* discounts, in hundredths of a percent

Whole == 10000    \* 100 percent

ASSUME TotalsAssumption ==
    /\ Amounts \subseteq Nat
    /\ Percentages \subseteq 0..Whole

\* services + mca_charges: both are exact to the cent, so that _money changes nothing.
Gross(services, mca) == services + mca

\* _money(gross * discount_percent / 100): ROUND_HALF_UP to the cent.
Discount(gross, percent) == (2 * gross * percent + Whole) \div (2 * Whole)

\* gross - discount_amount.
Net(gross, percent) == gross - Discount(gross, percent)

-----------------------------------------------------------------------------
(* Properties.                                                             *)

(***************************************************************************)
(* The three persisted figures agree to the cent, whatever the discount    *)
(* was rounded to, and none is negative: "the persisted figures can never  *)
(* disagree with the inputs".                                              *)
(***************************************************************************)
TotalsAddUp ==
    \A services, mca \in Amounts, percent \in Percentages :
        LET gross == Gross(services, mca) IN
        /\ Net(gross, percent) + Discount(gross, percent) = services + mca
        /\ Net(gross, percent) \in Nat

(***************************************************************************)
(* The discount is the exact one to the nearest cent, a half going up; a   *)
(* discount of 100 percent leaves nothing to pay and one of 0 everything.  *)
(***************************************************************************)
DiscountToTheCent ==
    \A services, mca \in Amounts, percent \in Percentages :
        LET gross == Gross(services, mca)
            twice == 2 * Whole * Discount(gross, percent) - 2 * gross * percent IN
        /\ -Whole < twice /\ twice <= Whole
        /\ percent = Whole => Net(gross, percent) = 0
        /\ percent = 0 => Net(gross, percent) = gross

=============================================================================
