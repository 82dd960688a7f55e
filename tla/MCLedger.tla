------------------------------ MODULE MCLedger ------------------------------
(* An instance of the ledger, with its suggestions and views, small enough *)
(* for TLC.                                                                *)
EXTENDS FinanceViews, TLC

(* The second charge is entered late, for an earlier month.                *)
MCDue == (1 :> 2 @@ 2 :> 1)
MCCreatedAt == (1 :> 1 @@ 2 :> 2)

(* Neither is overdue on the first day, and the second is on the next.     *)
MCPeriodEnd == (1 :> 2 @@ 2 :> None)

MCReceivedOn == [p \in Payments |-> 2]

(* Charges are told apart by their order; everything else is alike.        *)
Symmetry ==
  Permutations(Payments) \cup Permutations(Allocations)
    \cup Permutations(Children) \cup Permutations(Categories)

=============================================================================
