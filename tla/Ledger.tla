------------------------------- MODULE Ledger -------------------------------
(***************************************************************************)
(* The finance ledger of a child (src/src/finance): charges, payments and  *)
(* the allocations that settle charges with payments.  Rows are created    *)
(* and voided, never edited or deleted.                                    *)
(*                                                                         *)
(* This module is the atomic ledger: one action per operation, each the    *)
(* whole effect of a committed transaction.  Module LedgerTx has the same  *)
(* operations as the code runs them, statement by statement under row      *)
(* locks, and implements this one.                                         *)
(***************************************************************************)
EXTENDS Money

Sums == INSTANCE Functions

CONSTANTS
  Charges,        \* identifiers of Charge rows
  Payments,       \* identifiers of Payment rows
  Allocations,    \* identifiers of Allocation rows
  Children,
  Categories,     \* FinanceCategory
  None            \* no row; also the category of a payment without one

PaymentStatus == {"pending", "confirmed", "failed"}

ChargeRow ==
  [child: Children, category: Categories, amount: Amounts, voided: BOOLEAN]

PaymentRow ==
  [child: Children, category: Categories \cup {None}, amount: Amounts,
   status: PaymentStatus, voided: BOOLEAN]

AllocationRow ==
  [payment: Payments, charge: Charges, amount: Amounts, voided: BOOLEAN]

(* The rows the code creates: not voided, and every payment confirmed.     *)
NewCharge ==
  [child: Children, category: Categories, amount: Amounts, voided: {FALSE}]

NewPayment ==
  [child: Children, category: Categories \cup {None}, amount: Amounts,
   status: {"confirmed"}, voided: {FALSE}]

(* A line of a request to allocate: AllocationItem of the code.            *)
Item == [charge: Charges, amount: Amounts]

ASSUME IdsAssumption ==
  /\ IsFiniteSet(Charges)
  /\ IsFiniteSet(Payments)
  /\ IsFiniteSet(Allocations)
  /\ IsFiniteSet(Children)
  /\ IsFiniteSet(Categories)

ASSUME NoneAssumption ==
  /\ None \notin Categories
  /\ None \notin ChargeRow
  /\ None \notin PaymentRow
  /\ None \notin AllocationRow

VARIABLES charge, payment, allocation     \* the three tables

vars == <<charge, payment, allocation>>

-----------------------------------------------------------------------------
(* Queries: finance-calc.ts and the includes with voidedAt: null.          *)

Rows(table)      == {r \in DOMAIN table : table[r] # None}
NotVoided(table) == {r \in Rows(table) : ~table[r].voided}

amounts(table) == [r \in Rows(table) |-> table[r].amount]

ofCharge(c)  == {a \in NotVoided(allocation) : allocation[a].charge = c}
ofPayment(p) == {a \in NotVoided(allocation) : allocation[a].payment = p}

activeAllocated(allocs) == sumMoney(allocs, amounts(allocation))

chargeRemaining(c) == charge[c].amount - activeAllocated(ofCharge(c))
paymentFree(p)     == payment[p].amount - activeAllocated(ofPayment(p))

isCountedPayment(p) == ~payment[p].voided /\ payment[p].status = "confirmed"

-----------------------------------------------------------------------------
(* applyAllocations: items maps the id of each row to be created to the    *)
(* line it is created from, pay is the payment row as read under its lock  *)
(* and free what is left of it.                                            *)

ItemAmounts(items) == [a \in DOMAIN items |-> items[a].amount]

(* Mutant of ItemAllowed: the check of the child left out.                 *)
ItemAllowedForAnyChild(pay, item) ==
  /\ charge[item.charge] # None
  /\ ~charge[item.charge].voided
  /\ pay.category # None => charge[item.charge].category = pay.category
  /\ item.amount <= chargeRemaining(item.charge)

ItemAllowed(pay, item) ==
  /\ charge[item.charge] # None
  /\ ~charge[item.charge].voided
  /\ charge[item.charge].child = pay.child
  /\ pay.category # None => charge[item.charge].category = pay.category
  /\ item.amount <= chargeRemaining(item.charge)

(* Mutant of MayApply: the check for two lines of one charge left out.     *)
MayApplyWithDuplicates(pay, free, items) ==
  /\ \A a \in DOMAIN items : items[a].amount > 0
  /\ ~pay.voided
  /\ pay.status = "confirmed"
  /\ \A a \in DOMAIN items : ItemAllowed(pay, items[a])
  /\ sumMoney(DOMAIN items, ItemAmounts(items)) <= free

MayApply(pay, free, items) ==
  /\ \A a, b \in DOMAIN items : items[a].charge = items[b].charge => a = b
  /\ \A a \in DOMAIN items : items[a].amount > 0
  /\ ~pay.voided
  /\ pay.status = "confirmed"
  /\ \A a \in DOMAIN items : ItemAllowed(pay, items[a])
  /\ sumMoney(DOMAIN items, ItemAmounts(items)) <= free

WithAllocations(p, items) ==
  [a \in Allocations |->
     IF a \in DOMAIN items
       THEN [payment |-> p, charge |-> items[a].charge,
             amount |-> items[a].amount, voided |-> FALSE]
       ELSE allocation[a]]

(* updateMany({ voidedAt: null, ... }, { voidedAt: now }) on allocations.  *)
VoidRows(table, rows) ==
  [r \in DOMAIN table |->
     IF r \in rows THEN [table[r] EXCEPT !.voided = TRUE] ELSE table[r]]

-----------------------------------------------------------------------------
Init ==
  /\ charge = [c \in Charges |-> None]
  /\ payment = [p \in Payments |-> None]
  /\ allocation = [a \in Allocations |-> None]

(* ChargesService.create, and every charge another module writes.          *)
CreateCharge(c, row) ==
  /\ charge[c] = None
  /\ row.amount > 0
  /\ charge' = [charge EXCEPT ![c] = row]
  /\ UNCHANGED <<payment, allocation>>

(* Mutant of VoidCharge: its allocations are left active.                  *)
VoidChargeOnly(c) ==
  /\ charge[c] # None
  /\ ~charge[c].voided
  /\ charge' = VoidRows(charge, {c})
  /\ UNCHANGED <<payment, allocation>>

(* voidChargeInTx: the charge and its active allocations.                  *)
VoidCharge(c) ==
  /\ charge[c] # None
  /\ ~charge[c].voided
  /\ allocation' = VoidRows(allocation, ofCharge(c))
  /\ charge' = VoidRows(charge, {c})
  /\ UNCHANGED payment

(* PaymentsService.create: the payment and its allocations, or nothing.    *)
CreatePayment(p, row, items) ==
  /\ payment[p] = None
  /\ row.amount > 0
  /\ DOMAIN items # {} => MayApply(row, row.amount, items)
  /\ payment' = [payment EXCEPT ![p] = row]
  /\ allocation' = WithAllocations(p, items)
  /\ UNCHANGED charge

(* Mutant of Allocate: what was allocated before is not subtracted.        *)
AllocateFullAmount(p, items) ==
  /\ payment[p] # None
  /\ DOMAIN items # {}
  /\ MayApply(payment[p], payment[p].amount, items)
  /\ allocation' = WithAllocations(p, items)
  /\ UNCHANGED <<charge, payment>>

(* PaymentsService.allocate.                                               *)
Allocate(p, items) ==
  /\ payment[p] # None
  /\ DOMAIN items # {}
  /\ MayApply(payment[p], paymentFree(p), items)
  /\ allocation' = WithAllocations(p, items)
  /\ UNCHANGED <<charge, payment>>

(* PaymentsService.void: the payment and its active allocations.           *)
VoidPayment(p) ==
  /\ payment[p] # None
  /\ ~payment[p].voided
  /\ allocation' = VoidRows(allocation, ofPayment(p))
  /\ payment' = VoidRows(payment, {p})
  /\ UNCHANGED charge

(* PaymentsService.voidAllocation.                                         *)
VoidAllocation(a) ==
  /\ allocation[a] # None
  /\ ~allocation[a].voided
  /\ allocation' = VoidRows(allocation, {a})
  /\ UNCHANGED <<charge, payment>>

(* The requests a client can make with the ids that are still unused.      *)
ItemSets ==
  UNION {[ids -> Item] : ids \in SUBSET (Allocations \ Rows(allocation))}

(* The rows that distinct lines become, each under an unused id.            *)
Insertions(items) ==
  {rows \in ItemSets : /\ {rows[a] : a \in DOMAIN rows} = items
                       /\ Cardinality(DOMAIN rows) = Cardinality(items)}

Next ==
  \/ \E c \in Charges, row \in NewCharge : CreateCharge(c, row)
  \/ \E c \in Charges : VoidCharge(c)
  \/ \E p \in Payments, row \in NewPayment, items \in ItemSets :
       CreatePayment(p, row, items)
  \/ \E p \in Payments, items \in ItemSets : Allocate(p, items)
  \/ \E p \in Payments : VoidPayment(p)
  \/ \E a \in Allocations : VoidAllocation(a)

Spec == Init /\ [][Next]_vars

-----------------------------------------------------------------------------
(* Every table holds rows of its type or nothing.                          *)
TypeOK ==
  /\ charge \in [Charges -> ChargeRow \cup {None}]
  /\ payment \in [Payments -> PaymentRow \cup {None}]
  /\ allocation \in [Allocations -> AllocationRow \cup {None}]

MayJoin(c, p) ==
  /\ c \in NotVoided(charge)
  /\ p \in NotVoided(payment)
  /\ isCountedPayment(p)
  /\ charge[c].child = payment[p].child
  /\ payment[p].category # None => charge[c].category = payment[p].category

(* Integrity rules 1, 2 and 5 of the finance design: an allocation that is *)
(* active joins a charge and a counted payment of one child, neither       *)
(* voided, of one category unless the payment has none.                    *)
AllocationsMatch ==
  \A a \in NotVoided(allocation) :
    MayJoin(allocation[a].charge, allocation[a].payment)

(* Rule 3: the active allocations of a payment never exceed its amount.    *)
PaymentNotOverdrawn == \A p \in NotVoided(payment) : paymentFree(p) >= 0

(* Rule 4: the active allocations of a charge never exceed its amount, so  *)
(* that no category shows a negative debt.                                 *)
ChargeNotOverpaid == \A c \in NotVoided(charge) : chargeRemaining(c) >= 0

(* Rules 3 and 4 together: whatever is allocated, credited and voided in   *)
(* whatever order, no money is spent twice and no charge is paid twice     *)
(* (applyAllocations checks both against what it has read).                *)
NothingOverpaid == PaymentNotOverdrawn /\ ChargeNotOverpaid

-----------------------------------------------------------------------------
(* summarize: the balance of a child, by category and in total.            *)

ownCharges(ch, cat) ==
  {c \in NotVoided(charge) : charge[c].child = ch /\ charge[c].category = cat}

counted(ch, cat) ==
  {p \in Rows(payment) : /\ payment[p].child = ch
                         /\ payment[p].category = cat
                         /\ isCountedPayment(p)}

(* The sum of chargeRemaining over own charges.                            *)
debt(ch, cat) ==
  LET own == ownCharges(ch, cat)
  IN  sumMoney(own, amounts(charge))
        - activeAllocated(UNION {ofCharge(c) : c \in own})

(* The sum of paymentFree over counted payments: prepayment of a category, *)
(* and unallocated for cat = None.                                         *)
prepayment(ch, cat) ==
  LET own == counted(ch, cat)
  IN  sumMoney(own, amounts(payment))
        - activeAllocated(UNION {ofPayment(p) : p \in own})

totalDue(ch) ==
  Sums!SumFunction([cat \in Categories |-> debt(ch, cat)])
    - Sums!SumFunction([cat \in Categories |-> prepayment(ch, cat)])
    - prepayment(ch, None)

(* What a child owes is what it was charged minus what was received for    *)
(* it: allocating, voiding an allocation or moving money between charges   *)
(* never changes the balance shown, because each active allocation is      *)
(* counted once as paid and once as spent, for the same child.             *)
TotalDueIsChargedMinusReceived ==
  \A ch \in Children :
    totalDue(ch) =
      sumMoney({c \in NotVoided(charge) : charge[c].child = ch},
               amounts(charge))
        - sumMoney({p \in Rows(payment) : /\ payment[p].child = ch
                                          /\ isCountedPayment(p)},
                   amounts(payment))

=============================================================================
