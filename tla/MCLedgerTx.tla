----------------------------- MODULE MCLedgerTx -----------------------------
(* Instances of LedgerTx small enough for TLC.                             *)
EXTENDS LedgerTx, TLC

Symmetry == Permutations(Payments) \cup Permutations(Allocations)
              \cup Permutations(Txs)

(* Payments of two and charges of two and one, allocated one by one: two   *)
(* allocations can share a payment and a charge, and one can be refused.   *)
OneByOne ==
  /\ \A c \in Charges :
       charge'[c] # None => charge'[c].amount = IF c = 1 THEN 2 ELSE 1
  /\ \A t \in Txs : (req'[t] # None /\ req'[t].op \in Applying) =>
       /\ req'[t].op = "create" =>
            req'[t].row.amount = 2 /\ req'[t].row.category = None
       /\ \A i \in req'[t].items : i.amount = 1

=============================================================================
