------------------------------- MODULE Office -------------------------------
(* What the parts of the office have in common: requests of several people *)
(* are under way at the same time.                                         *)
EXTENDS Nothing, Integers

CONSTANT Txs     \* requests in flight

=============================================================================
