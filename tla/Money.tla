------------------------------- MODULE Money -------------------------------
(***************************************************************************)
(* Amounts of money and their sums.  The database keeps every amount as    *)
(* Decimal(10, 2) and the code adds them exactly (Prisma.Decimal), so an   *)
(* amount is a natural number of the smallest unit, bounded by the column. *)
(*                                                                         *)
(* The code sums with Array.reduce.  Addition is commutative, so the sum   *)
(* of amount[r] over a set of rows is the number of pairs <<r, k>> with    *)
(* 1 <= k <= amount[r].  Written this way the sum is not recursive, and    *)
(* its laws follow from those of Cardinality (module LedgerProofs).        *)
(***************************************************************************)
EXTENDS Integers, FiniteSets

CONSTANT MaxAmount       \* the largest amount a column holds

ASSUME MaxAmountAssumption == MaxAmount \in Nat \ {0}

Amounts == 0..MaxAmount

Units(rows, amount) ==
  {u \in rows \X (1..MaxAmount) : u[2] <= amount[u[1]]}

sumMoney(rows, amount) == Cardinality(Units(rows, amount))

=============================================================================
