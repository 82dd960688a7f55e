------------------------------ MODULE School ------------------------------
(* What the parts of a day at the school have in common: its children.     *)
EXTENDS Nothing, Integers

CONSTANT Children

=============================================================================
