-------------------------- MODULE MCOnlinePayments --------------------------
(* Instances of OnlinePayments small enough for TLC.                       *)
EXTENDS OnlinePayments, TLC

Symmetry == Permutations(Requests) \cup Permutations(Invoices)

=============================================================================
