---------------------------- MODULE FinanceViews ----------------------------
(***************************************************************************)
(* What is read off the ledger: the balances of all children, what a parent*)
(* sees in the cabinet, and the reports of payments, charges and debts.    *)
(* Each is computed on its own from the rows of the ledger, with filters   *)
(* and days of its own.                                                    *)
(***************************************************************************)
EXTENDS Suggestion

SetsExt == INSTANCE FiniteSetsExt

CONSTANTS
  Days,         \* a first day to a last
  ReceivedOn,   \* the day a payment was received
  PeriodEnd     \* the last day of the period of a charge, or None

ASSUME DaysAssumption ==
  /\ Days \subseteq Nat /\ IsFiniteSet(Days)
  /\ \A c \in Charges : Due[c] \in Days
  /\ ReceivedOn \in [Payments -> Days]
  /\ PeriodEnd \in [Charges -> Days \cup {None}]

remaining(own) == sumMoney(own, [c \in own |-> chargeRemaining(c)])

-----------------------------------------------------------------------------
(* The balances page: the row of a child, of all categories (None) or of   *)
(* the one asked for, which leaves out what is in no category.             *)
balanceRow(ch, category) ==
  LET shown == IF category = None THEN Categories ELSE {category}
      owed  == Sums!SumFunction([cat \in shown |-> debt(ch, cat)])
      ahead == Sums!SumFunction([cat \in shown |-> prepayment(ch, cat)])
  IN [debt |-> owed, prepayment |-> ahead,
      unallocated |-> prepayment(ch, None),
      totalDue |-> IF category = None THEN totalDue(ch) ELSE owed - ahead]

(* The children of the page when it is asked for those with a debt.        *)
getBalances(category) ==
  {ch \in Children : balanceRow(ch, category).debt > 0}

-----------------------------------------------------------------------------
(* The cabinet of a parent.                                                *)
chargeLastDay(c) == IF PeriodEnd[c] # None THEN PeriodEnd[c] ELSE Due[c]

isOverdue(c, today) == chargeRemaining(c) > 0 /\ chargeLastDay(c) < today

childMoney(ch, today) ==
  LET late(cat) == {c \in ownCharges(ch, cat) : isOverdue(c, today)}
  IN [due |-> Sums!SumFunction([cat \in Categories |-> debt(ch, cat)]),
      overdue |->
        Sums!SumFunction([cat \in Categories |-> remaining(late(cat))]),
      prepayment |-> prepayment(ch, None)
         + Sums!SumFunction([cat \in Categories |-> prepayment(ch, cat)])]

-----------------------------------------------------------------------------
(* The reports.                                                            *)
chargeDay(c) == Due[c]

(* The debtors, with the day of the oldest charge that is not paid.        *)
debtsReport(today) ==
  LET open(ch) == {c \in NotVoided(charge) : /\ charge[c].child = ch
                                             /\ chargeRemaining(c) > 0}
      oldest(ch) == IF open(ch) = {} THEN None
                    ELSE SetsExt!Min({chargeDay(c) : c \in open(ch)})
  IN {r \in {[child |-> ch, money |-> childMoney(ch, today),
              oldest |-> oldest(ch)] : ch \in Children} : r.money.due > 0}

(* Mutant of chargesReport: the last day of the period is left out.        *)
chargesReportToEve(from, to) ==
  sumMoney({c \in NotVoided(charge) : from <= chargeDay(c) /\ chargeDay(c) < to},
           amounts(charge))

(* The totals of the charges and the payments of a period.                 *)
chargesReport(from, to) ==
  sumMoney({c \in NotVoided(charge) : from <= chargeDay(c) /\ chargeDay(c) <= to},
           amounts(charge))

paymentsReport(from, to) ==
  sumMoney({p \in Rows(payment) : /\ isCountedPayment(p)
                                  /\ from <= ReceivedOn[p]
                                  /\ ReceivedOn[p] <= to},
           amounts(payment))

-----------------------------------------------------------------------------
(* The cabinet and the balances page say the same of a child: what it owes,*)
(* less what it has paid ahead, is its balance, a debt is overdue in part  *)
(* or in whole, and the balances by category leave out only money that is  *)
(* in no category.                                                         *)
BalancesAgree ==
  \A ch \in Children :
    LET row == balanceRow(ch, None)
        byCategory == [cat \in Categories |-> balanceRow(ch, cat).totalDue]
    IN /\ row.totalDue = Sums!SumFunction(byCategory) - row.unallocated
       /\ \A today \in Days :
            LET money == childMoney(ch, today)
            IN /\ money.due - money.prepayment = row.totalDue
               /\ money.overdue \in 0..row.debt

(* Whoever owes is on the report of debts, with the day of the very charge *)
(* that the next payment will settle first.                                *)
DebtorsAgree ==
  LET report == debtsReport(SetsExt!Max(Days))
  IN /\ {r.child : r \in report} = getBalances(None)
     /\ \A r \in report :
          LET own == {c \in Rows(charge) : charge[c].child = r.child}
          IN r.oldest = Due[suggestAllocation(own, 1).lines[1].charge]

(* The reports of consecutive periods leave out nothing and count nothing  *)
(* twice: wherever time is split in two, the charges less the payments of  *)
(* both parts are what all children together owe.                          *)
ReportsAddUp(today) ==
  LET first == SetsExt!Min(Days)
      last  == SetsExt!Max(Days)
  IN  chargesReport(first, today) + chargesReport(today + 1, last)
        - paymentsReport(first, today) - paymentsReport(today + 1, last)
      = Sums!SumFunction([ch \in Children |-> balanceRow(ch, None).totalDue])

(* Whatever is charged, paid, allocated, credited and voided, every view of*)
(* the ledger shows the same money, on any day: allocating or voiding an   *)
(* allocation never changes a balance, and no view loses or doubles an     *)
(* amount the others show.                                                 *)
MoneyAddsUp ==
  /\ TotalDueIsChargedMinusReceived
  /\ BalancesAgree /\ DebtorsAgree
  /\ \A today \in Days : ReportsAddUp(today)

=============================================================================
