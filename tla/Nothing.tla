------------------------------ MODULE Nothing ------------------------------
(* What a column or a variable holds that holds nothing.                   *)
CONSTANT None

=============================================================================
