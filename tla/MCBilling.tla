----------------------------- MODULE MCBilling -----------------------------
(* An instance of Billing small enough for TLC.                            *)
EXTENDS Billing

(* Two months to bill, and one more to end periods.                        *)
MCShortCalendar == <<2, 1, 1>>

(* The workers: an enrollment that may end, and a discount that makes its  *)
(* second period free.                                                     *)
WorkEnrollments == {[start |-> 1, end |-> None, mode |-> None]}
WorkAdjustments ==
  {[type |-> "discount_amount", value |-> 2, from |-> 3, to |-> None,
    voided |-> FALSE]}
WorkPrices == {[from |-> 1, price |-> 1]}

=============================================================================
