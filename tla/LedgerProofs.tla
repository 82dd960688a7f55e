---------------------------- MODULE LedgerProofs ----------------------------
(***************************************************************************)
(* Proofs about the ledger, for every set of rows, any number of           *)
(* transactions and every bound on the amounts: the laws of sums, the      *)
(* types and the integrity rules of the atomic ledger; then, of LedgerTx,  *)
(* that under the row locks every commit is a step of the atomic ledger,   *)
(* and that the core of a deadlock is always among the updateMany of       *)
(* voids.                                                                  *)
(***************************************************************************)
EXTENDS LedgerTx, FiniteSetTheorems, WellFoundedInduction, TLAPS

-----------------------------------------------------------------------------
(* The laws of sumMoney: the sum over no rows, over one row, over two      *)
(* disjoint sets of rows, and its monotonicity.                            *)

(* The units of finitely many rows are finitely many, so a sum is a        *)
(* natural number.                                                         *)
LEMMA SumType ==
  ASSUME NEW rows, IsFiniteSet(rows), NEW amount
  PROVE  /\ IsFiniteSet(Units(rows, amount))
         /\ sumMoney(rows, amount) \in Nat
<1>1. IsFiniteSet(1..MaxAmount)
  BY FS_Interval, MaxAmountAssumption
<1>2. IsFiniteSet(rows \X (1..MaxAmount))
  BY <1>1, FS_Product
<1>3. Units(rows, amount) \subseteq rows \X (1..MaxAmount)
  BY DEF Units
<1>4. IsFiniteSet(Units(rows, amount))
  BY <1>2, <1>3, FS_Subset
<1> QED
  BY <1>4, FS_CardinalityType DEF sumMoney

(* activeAllocated of a record without allocations is zero.                *)
LEMMA SumEmpty ==
  ASSUME NEW amount
  PROVE  sumMoney({}, amount) = 0
<1>1. Units({}, amount) = {}
  BY DEF Units
<1> QED
  BY <1>1, FS_EmptySet DEF sumMoney

(* The sum depends only on the amounts of the rows it is taken over.       *)
LEMMA SumCongruence ==
  ASSUME NEW rows, NEW f, NEW g, \A r \in rows : f[r] = g[r]
  PROVE  sumMoney(rows, f) = sumMoney(rows, g)
<1>1. Units(rows, f) = Units(rows, g)
  BY DEF Units
<1> QED
  BY <1>1 DEF sumMoney

(* Leaving rows out never makes the sum larger.                            *)
LEMMA SumMonotone ==
  ASSUME NEW rows, IsFiniteSet(rows), NEW fewer \in SUBSET rows, NEW amount
  PROVE  sumMoney(fewer, amount) <= sumMoney(rows, amount)
<1>1. Units(fewer, amount) \in SUBSET Units(rows, amount)
  BY DEF Units
<1>2. IsFiniteSet(Units(rows, amount))
  BY SumType
<1> QED
  BY <1>1, <1>2, FS_Subset DEF sumMoney

(* The sum over two disjoint sets of rows is the sum of the two sums.      *)
LEMMA SumDisjointUnion ==
  ASSUME NEW S, IsFiniteSet(S), NEW T, IsFiniteSet(T), S \cap T = {},
         NEW amount
  PROVE  sumMoney(S \cup T, amount) = sumMoney(S, amount) + sumMoney(T, amount)
<1>1. Units(S \cup T, amount) = Units(S, amount) \cup Units(T, amount)
  BY DEF Units
<1>2. Units(S, amount) \cap Units(T, amount) = {}
  BY DEF Units
<1>3. /\ IsFiniteSet(Units(S, amount))
      /\ IsFiniteSet(Units(T, amount))
      /\ sumMoney(S, amount) \in Nat
      /\ sumMoney(T, amount) \in Nat
  BY SumType
<1>4. Cardinality(Units(S, amount) \cup Units(T, amount))
        = Cardinality(Units(S, amount)) + Cardinality(Units(T, amount))
            - Cardinality(Units(S, amount) \cap Units(T, amount))
  BY <1>3, FS_Union
<1>5. Cardinality(Units(S, amount) \cap Units(T, amount)) = 0
  BY <1>2, FS_EmptySet
<1>6. sumMoney(S \cup T, amount)
        = sumMoney(S, amount) + sumMoney(T, amount)
            - Cardinality(Units(S, amount) \cap Units(T, amount))
  BY <1>1, <1>4 DEF sumMoney
<1> QED
  BY <1>3, <1>5, <1>6

(* The sum over one row is that row's amount.                              *)
LEMMA SumSingleton ==
  ASSUME NEW r, NEW amount, amount[r] \in Amounts
  PROVE  sumMoney({r}, amount) = amount[r]
<1>1. Units({r}, amount) = {r} \X (1..amount[r])
  BY MaxAmountAssumption DEF Units, Amounts
<1>2. IsFiniteSet({r}) /\ Cardinality({r}) = 1
  BY FS_Singleton
<1>3. /\ amount[r] \in Nat
      /\ IsFiniteSet(1..amount[r])
      /\ Cardinality(1..amount[r]) = amount[r]
  <2>1. amount[r] \in Int /\ amount[r] >= 0
    BY MaxAmountAssumption DEF Amounts
  <2>2. /\ IsFiniteSet(1..amount[r])
        /\ Cardinality(1..amount[r])
             = IF 1 > amount[r] THEN 0 ELSE amount[r] - 1 + 1
    BY <2>1, FS_Interval, SMTT(30)
  <2> QED
    BY <2>1, <2>2
<1>4. Cardinality({r} \X (1..amount[r]))
        = Cardinality({r}) * Cardinality(1..amount[r])
  BY <1>2, <1>3, FS_Product
<1>5. sumMoney({r}, amount) = Cardinality({r} \X (1..amount[r]))
  BY <1>1 DEF sumMoney
<1>6. sumMoney({r}, amount) = 1 * amount[r]
  BY <1>2, <1>3, <1>4, <1>5
<1> QED
  BY <1>3, <1>6

-----------------------------------------------------------------------------
(* Facts about tables.                                                     *)

(* Voiding some rows of a table that exist leaves it a table.              *)
LEMMA VoidRowsType ==
  ASSUME TypeOK, NEW S \in SUBSET Rows(allocation)
  PROVE  VoidRows(allocation, S) \in [Allocations -> AllocationRow \cup {None}]
BY DEF TypeOK, VoidRows, Rows, AllocationRow

(* The allocations that are active after some rows are voided.             *)
LEMMA VoidRowsActive ==
  ASSUME TypeOK, NEW S \in SUBSET Rows(allocation),
         allocation' = VoidRows(allocation, S)
  PROVE  /\ NotVoided(allocation') = NotVoided(allocation) \ S
         /\ \A a \in NotVoided(allocation') : allocation'[a] = allocation[a]
BY NoneAssumption DEF TypeOK, VoidRows, Rows, NotVoided, AllocationRow

(* The rows the code creates are rows of the tables.                       *)
LEMMA NewRows ==
  /\ \A row \in NewCharge : row \in ChargeRow
  /\ \A row \in NewPayment : /\ row \in PaymentRow
                             /\ row.status = "confirmed"
                             /\ ~row.voided
BY DEF NewCharge, ChargeRow, NewPayment, PaymentRow, PaymentStatus

(* Sums over active allocations are taken over finitely many rows.         *)
LEMMA ActiveFinite ==
  ASSUME TypeOK
  PROVE  /\ IsFiniteSet(NotVoided(allocation))
         /\ \A S \in SUBSET NotVoided(allocation) :
              IsFiniteSet(S) /\ activeAllocated(S) \in Nat
<1>1. NotVoided(allocation) \in SUBSET Allocations
  BY DEF TypeOK, NotVoided, Rows
<1>2. ASSUME NEW S \in SUBSET Allocations
      PROVE  IsFiniteSet(S) /\ activeAllocated(S) \in Nat
  <2>1. IsFiniteSet(S)
    BY IdsAssumption, FS_Subset
  <2> QED
    BY <2>1, SumType DEF activeAllocated
<1> QED
  BY <1>1, <1>2

-----------------------------------------------------------------------------
(* Type correctness.                                                       *)

LEMMA WithAllocationsType ==
  ASSUME TypeOK, NEW p \in Payments, NEW items \in ItemSets
  PROVE  WithAllocations(p, items) \in [Allocations -> AllocationRow \cup {None}]
<1>1. PICK ids \in SUBSET (Allocations \ Rows(allocation)) :
        items \in [ids -> Item]
  BY DEF ItemSets
<1> QED
  BY <1>1 DEF TypeOK, WithAllocations, AllocationRow, Item

LEMMA InitType == Init => TypeOK
BY DEF Init, TypeOK

LEMMA NextType == TypeOK /\ [Next]_vars => TypeOK'
<1>1. TypeOK /\ [Next]_vars => TypeOK'
  <2> SUFFICES ASSUME TypeOK, [Next]_vars PROVE TypeOK'
    OBVIOUS
  <2>1. ASSUME NEW c \in Charges, NEW row \in NewCharge, CreateCharge(c, row)
        PROVE  TypeOK'
    BY <2>1, NewRows DEF TypeOK, CreateCharge
  <2>2. ASSUME NEW c \in Charges, VoidCharge(c)
        PROVE  TypeOK'
    <3>1. ofCharge(c) \in SUBSET Rows(allocation)
      BY DEF ofCharge, NotVoided
    <3>2. allocation' \in [Allocations -> AllocationRow \cup {None}]
      BY <2>2, <3>1, VoidRowsType DEF VoidCharge
    <3>3. charge' \in [Charges -> ChargeRow \cup {None}]
      BY <2>2 DEF VoidCharge, VoidRows, TypeOK, ChargeRow
    <3> QED
      BY <2>2, <3>2, <3>3 DEF TypeOK, VoidCharge
  <2>3. ASSUME NEW p \in Payments, NEW row \in NewPayment,
               NEW items \in ItemSets, CreatePayment(p, row, items)
        PROVE  TypeOK'
    BY <2>3, NewRows, WithAllocationsType DEF TypeOK, CreatePayment
  <2>4. ASSUME NEW p \in Payments, NEW items \in ItemSets, Allocate(p, items)
        PROVE  TypeOK'
    BY <2>4, WithAllocationsType DEF TypeOK, Allocate
  <2>5. ASSUME NEW p \in Payments, VoidPayment(p)
        PROVE  TypeOK'
    <3>1. ofPayment(p) \in SUBSET Rows(allocation)
      BY DEF ofPayment, NotVoided
    <3>2. allocation' \in [Allocations -> AllocationRow \cup {None}]
      BY <2>5, <3>1, VoidRowsType DEF VoidPayment
    <3>3. payment' \in [Payments -> PaymentRow \cup {None}]
      BY <2>5 DEF VoidPayment, VoidRows, TypeOK, PaymentRow
    <3> QED
      BY <2>5, <3>2, <3>3 DEF TypeOK, VoidPayment
  <2>6. ASSUME NEW a \in Allocations, VoidAllocation(a)
        PROVE  TypeOK'
    <3>1. {a} \in SUBSET Rows(allocation)
      BY <2>6 DEF VoidAllocation, Rows, TypeOK
    <3> QED
      BY <2>6, <3>1, VoidRowsType DEF VoidAllocation, TypeOK
  <2>7. CASE UNCHANGED vars
    BY <2>7 DEF vars, TypeOK
  <2> QED
    BY <2>1, <2>2, <2>3, <2>4, <2>5, <2>6, <2>7 DEF Next
<1> QED
  BY <1>1

(* Every operation keeps rows of the declared types in the three tables.   *)
THEOREM TypeCorrect == Spec => []TypeOK
BY InitType, NextType, PTL DEF Spec

-----------------------------------------------------------------------------
(* How the operations change the active allocations and their sums.        *)

(* After voiding, what remains of a set of active allocations adds up to   *)
(* no more than before.                                                    *)
LEMMA VoidLowersSums ==
  ASSUME TypeOK, NEW S \in SUBSET Rows(allocation),
         allocation' = VoidRows(allocation, S),
         NEW T \in SUBSET NotVoided(allocation),
         NEW U \in SUBSET T, U \subseteq NotVoided(allocation')
  PROVE  /\ sumMoney(U, amounts(allocation')) <= sumMoney(T, amounts(allocation))
         /\ sumMoney(U, amounts(allocation')) \in Nat
         /\ sumMoney(T, amounts(allocation)) \in Nat
<1>1. \A a \in U : amounts(allocation')[a] = amounts(allocation)[a]
  BY VoidRowsActive DEF amounts, NotVoided
<1>2. sumMoney(U, amounts(allocation')) = sumMoney(U, amounts(allocation))
  BY <1>1, SumCongruence
<1>3. sumMoney(U, amounts(allocation)) <= sumMoney(T, amounts(allocation))
  BY ActiveFinite, SumMonotone
<1>4. IsFiniteSet(T) /\ IsFiniteSet(U)
  BY ActiveFinite, FS_Subset
<1> QED
  BY <1>2, <1>3, <1>4, SumType

(* The active allocations and the sums after a payment is allocated.       *)
LEMMA Applied ==
  ASSUME TypeOK, NEW p \in Payments, NEW items \in ItemSets,
         allocation' = WithAllocations(p, items)
  PROVE  /\ NotVoided(allocation') = NotVoided(allocation) \cup DOMAIN items
         /\ NotVoided(allocation) \cap DOMAIN items = {}
         /\ DOMAIN items \subseteq Allocations
         /\ \A a \in NotVoided(allocation) : allocation'[a] = allocation[a]
         /\ \A a \in DOMAIN items :
              /\ items[a].charge \in Charges
              /\ items[a].amount \in Amounts
              /\ allocation'[a].payment = p
              /\ allocation'[a].charge = items[a].charge
              /\ allocation'[a].amount = items[a].amount
<1>1. PICK ids \in SUBSET (Allocations \ Rows(allocation)) :
        items \in [ids -> Item]
  BY DEF ItemSets
<1>2. ASSUME NEW a \in ids
      PROVE  /\ allocation'[a] # None
             /\ ~allocation'[a].voided
             /\ items[a].charge \in Charges
             /\ items[a].amount \in Amounts
             /\ allocation'[a].payment = p
             /\ allocation'[a].charge = items[a].charge
             /\ allocation'[a].amount = items[a].amount
  <2>1. allocation'[a] = [payment |-> p, charge |-> items[a].charge,
                          amount |-> items[a].amount, voided |-> FALSE]
    BY <1>1 DEF WithAllocations
  <2>2. items[a].charge \in Charges /\ items[a].amount \in Amounts
    BY <1>1 DEF Item
  <2>3. allocation'[a] \in AllocationRow
    BY <2>1, <2>2 DEF AllocationRow
  <2>4. allocation'[a] # None
    BY <2>3, NoneAssumption
  <2> QED
    BY <2>1, <2>2, <2>4
<1>3. \A a \in Allocations \ ids : allocation'[a] = allocation[a]
  BY <1>1 DEF WithAllocations
<1>4. DOMAIN allocation' = Allocations /\ DOMAIN allocation = Allocations
  BY DEF WithAllocations, TypeOK
<1> QED
  BY <1>1, <1>2, <1>3, <1>4 DEF NotVoided, Rows

LEMMA AppliedSums ==
  ASSUME TypeOK, NEW p \in Payments, NEW items \in ItemSets,
         allocation' = WithAllocations(p, items),
         NEW T \in SUBSET NotVoided(allocation),
         NEW I \in SUBSET DOMAIN items
  PROVE  /\ sumMoney(T \cup I, amounts(allocation'))
              = activeAllocated(T) + sumMoney(I, ItemAmounts(items))
         /\ activeAllocated(T) \in Nat
         /\ sumMoney(I, ItemAmounts(items)) \in Nat
<1>1. IsFiniteSet(T) /\ activeAllocated(T) \in Nat
  BY ActiveFinite
<1>2. IsFiniteSet(I)
  BY Applied, IdsAssumption, FS_Subset
<1>3. sumMoney(I, ItemAmounts(items)) \in Nat
  BY <1>2, SumType
<1>4. T \cap I = {}
  BY Applied
<1>5. sumMoney(T \cup I, amounts(allocation'))
        = sumMoney(T, amounts(allocation')) + sumMoney(I, amounts(allocation'))
  BY <1>1, <1>2, <1>4, SumDisjointUnion
<1>6. sumMoney(T, amounts(allocation')) = activeAllocated(T)
  <2>1. \A a \in T : amounts(allocation')[a] = amounts(allocation)[a]
    BY Applied DEF amounts, NotVoided
  <2> QED
    BY <2>1, SumCongruence DEF activeAllocated
<1>7. sumMoney(I, amounts(allocation')) = sumMoney(I, ItemAmounts(items))
  <2>1. ASSUME NEW a \in I
        PROVE  amounts(allocation')[a] = ItemAmounts(items)[a]
    <3>1. a \in DOMAIN items /\ a \in Rows(allocation')
      BY Applied DEF NotVoided
    <3>2. allocation'[a].amount = items[a].amount
      BY <3>1, Applied
    <3> QED
      BY <3>1, <3>2 DEF amounts, ItemAmounts
  <2> QED
    BY <2>1, SumCongruence
<1> QED
  BY <1>1, <1>3, <1>5, <1>6, <1>7

-----------------------------------------------------------------------------
(* The integrity rules.  AllocationsMatch makes the two sums inductive: a  *)
(* payment or a charge that does not exist yet has no active allocation,   *)
(* and one that is voided keeps none.                                      *)
Integrity ==
  /\ TypeOK
  /\ AllocationsMatch
  /\ PaymentNotOverdrawn
  /\ ChargeNotOverpaid

(* Voiding any allocations, with the charge or payment they belong to, is  *)
(* harmless to the sums: the steps of the three voiding operations.        *)
LEMMA VoidKeepsSums ==
  ASSUME Integrity, NEW S \in SUBSET Rows(allocation),
         allocation' = VoidRows(allocation, S)
  PROVE  /\ \A c \in NotVoided(charge) : (charge'[c] = charge[c]) =>
              (chargeRemaining(c))' >= 0
         /\ \A p \in NotVoided(payment) : (payment'[p] = payment[p]) =>
              (paymentFree(p))' >= 0
<1>1. ASSUME NEW c \in NotVoided(charge), charge'[c] = charge[c]
      PROVE  (chargeRemaining(c))' >= 0
  <2>1. /\ (ofCharge(c))' \in SUBSET ofCharge(c)
        /\ (ofCharge(c))' \subseteq NotVoided(allocation')
        /\ ofCharge(c) \in SUBSET NotVoided(allocation)
    BY VoidRowsActive DEF ofCharge, Integrity
  <2>2. /\ (activeAllocated(ofCharge(c)))' <= activeAllocated(ofCharge(c))
        /\ activeAllocated(ofCharge(c)) \in Nat
        /\ (activeAllocated(ofCharge(c)))' \in Nat
    BY <2>1, VoidLowersSums DEF activeAllocated, Integrity
  <2>3. charge[c].amount - activeAllocated(ofCharge(c)) >= 0
    BY DEF Integrity, ChargeNotOverpaid, chargeRemaining
  <2>4. charge[c].amount \in Int
    BY MaxAmountAssumption
    DEF Integrity, TypeOK, NotVoided, Rows, ChargeRow, Amounts
  <2> QED
    BY <1>1, <2>2, <2>3, <2>4 DEF chargeRemaining
<1>2. ASSUME NEW p \in NotVoided(payment), payment'[p] = payment[p]
      PROVE  (paymentFree(p))' >= 0
  <2>1. /\ (ofPayment(p))' \in SUBSET ofPayment(p)
        /\ (ofPayment(p))' \subseteq NotVoided(allocation')
        /\ ofPayment(p) \in SUBSET NotVoided(allocation)
    BY VoidRowsActive DEF ofPayment, Integrity
  <2>2. /\ (activeAllocated(ofPayment(p)))' <= activeAllocated(ofPayment(p))
        /\ activeAllocated(ofPayment(p)) \in Nat
        /\ (activeAllocated(ofPayment(p)))' \in Nat
    BY <2>1, VoidLowersSums DEF activeAllocated, Integrity
  <2>3. payment[p].amount - activeAllocated(ofPayment(p)) >= 0
    BY DEF Integrity, PaymentNotOverdrawn, paymentFree
  <2>4. payment[p].amount \in Int
    BY MaxAmountAssumption
    DEF Integrity, TypeOK, NotVoided, Rows, PaymentRow, Amounts
  <2> QED
    BY <1>2, <2>2, <2>3, <2>4 DEF paymentFree
<1> QED
  BY <1>1, <1>2

(* What a lock on the payment and on the charges buys: after the checks of *)
(* applyAllocations the new allocations fit their charges.                 *)
LEMMA ApplyKeepsCharges ==
  ASSUME Integrity, NEW p \in Payments, NEW row, NEW free,
         NEW items \in ItemSets, MayApply(row, free, items),
         allocation' = WithAllocations(p, items), charge' = charge
  PROVE  ChargeNotOverpaid'
<1> SUFFICES ASSUME NEW c \in NotVoided(charge)
             PROVE  (chargeRemaining(c))' >= 0
  BY DEF ChargeNotOverpaid
<1> DEFINE I == {a \in DOMAIN items : items[a].charge = c}
<1>1. (ofCharge(c))' = ofCharge(c) \cup I
  BY Applied DEF ofCharge, Integrity
<1>2. /\ (activeAllocated(ofCharge(c)))'
            = activeAllocated(ofCharge(c)) + sumMoney(I, ItemAmounts(items))
      /\ activeAllocated(ofCharge(c)) \in Nat
      /\ sumMoney(I, ItemAmounts(items)) \in Nat
  <2>1. ofCharge(c) \in SUBSET NotVoided(allocation) /\ I \in SUBSET DOMAIN items
    BY DEF ofCharge
  <2> HIDE DEF I
  <2> QED
    BY <1>1, <2>1, AppliedSums DEF activeAllocated, Integrity
<1>3. charge[c].amount \in Int /\ chargeRemaining(c) >= 0
  BY MaxAmountAssumption
  DEF Integrity, TypeOK, NotVoided, Rows, ChargeRow, Amounts, ChargeNotOverpaid
<1>4. CASE I = {}
  <2>1. sumMoney(I, ItemAmounts(items)) = 0
    BY <1>4, SumEmpty
  <2> HIDE DEF I
  <2> QED
    BY <1>2, <1>3, <2>1 DEF chargeRemaining
<1>5. CASE I # {}
  <2>1. PICK a \in DOMAIN items : items[a].charge = c
    BY <1>5
  <2>2. I = {a}
    BY <2>1 DEF MayApply
  <2>3. items[a].amount \in Amounts /\ items[a].amount \in Int
    BY <2>1, Applied, MaxAmountAssumption DEF Integrity, Amounts
  <2>4. sumMoney(I, ItemAmounts(items)) = items[a].amount
    BY <2>1, <2>2, <2>3, SumSingleton DEF ItemAmounts
  <2>5. items[a].amount <= chargeRemaining(c)
    BY <2>1 DEF MayApply, ItemAllowed
  <2> HIDE DEF I
  <2> QED
    BY <1>2, <1>3, <2>3, <2>4, <2>5 DEF chargeRemaining
<1> QED
  BY <1>4, <1>5

(* The new allocations are taken from their own payment and no other.      *)
LEMMA ApplyToPayment ==
  ASSUME Integrity, NEW p \in Payments, NEW items \in ItemSets,
         allocation' = WithAllocations(p, items)
  PROVE  /\ (activeAllocated(ofPayment(p)))'
              = activeAllocated(ofPayment(p))
                  + sumMoney(DOMAIN items, ItemAmounts(items))
         /\ activeAllocated(ofPayment(p)) \in Nat
         /\ sumMoney(DOMAIN items, ItemAmounts(items)) \in Nat
         /\ \A q \in Payments \ {p} :
              (activeAllocated(ofPayment(q)))' = activeAllocated(ofPayment(q))
<1>1. (ofPayment(p))' = ofPayment(p) \cup DOMAIN items
  BY Applied DEF ofPayment, Integrity
<1>2. ofPayment(p) \in SUBSET NotVoided(allocation)
  BY DEF ofPayment
<1>3. DOMAIN items \in SUBSET DOMAIN items
  OBVIOUS
<1>4. ASSUME NEW q \in Payments \ {p}
      PROVE  (activeAllocated(ofPayment(q)))' = activeAllocated(ofPayment(q))
  <2>1. (ofPayment(q))' = ofPayment(q)
    BY Applied DEF ofPayment, Integrity
  <2>2. ofPayment(q) \in SUBSET NotVoided(allocation)
    BY DEF ofPayment
  <2>3. \A a \in ofPayment(q) : amounts(allocation)'[a] = amounts(allocation)[a]
    BY <2>2, Applied DEF amounts, NotVoided, Integrity
  <2> QED
    BY <2>1, <2>3, SumCongruence DEF activeAllocated
<1> QED
  BY <1>1, <1>2, <1>3, <1>4, AppliedSums DEF activeAllocated, Integrity

(* PaymentsService.create and allocate keep rules 1 to 5.                  *)
LEMMA ApplyKeepsIntegrity ==
  ASSUME Integrity, TypeOK', NEW p \in Payments, NEW free, NEW items \in ItemSets,
         payment'[p] # None,
         payment[p] = None \/ payment'[p] = payment[p],
         \A q \in Payments \ {p} : payment'[q] = payment[q],
         free = payment'[p].amount - activeAllocated(ofPayment(p)),
         MayApply(payment'[p], free, items),
         allocation' = WithAllocations(p, items), charge' = charge
  PROVE  Integrity'
<1>1. AllocationsMatch'
  <2> SUFFICES ASSUME NEW a \in NotVoided(allocation')
               PROVE  MayJoin(allocation[a].charge, allocation[a].payment)'
    BY DEF AllocationsMatch
  <2>1. CASE a \in NotVoided(allocation)
    <3> DEFINE q == allocation[a].payment
    <3>1. allocation'[a] = allocation[a]
      BY <2>1, Applied DEF Integrity
    <3>2. MayJoin(allocation[a].charge, q)
      BY <2>1 DEF Integrity, AllocationsMatch
    <3>3. payment'[q] = payment[q]
      BY <3>2 DEF MayJoin, NotVoided, Rows, Integrity, TypeOK
    <3>4. q \in NotVoided(payment')
      BY <3>2, <3>3 DEF MayJoin, NotVoided, Rows, Integrity, TypeOK
    <3> QED
      BY <3>1, <3>2, <3>3, <3>4 DEF MayJoin, isCountedPayment
  <2>2. CASE a \in DOMAIN items
    <3>1. /\ allocation'[a].payment = p
          /\ allocation'[a].charge = items[a].charge
          /\ items[a].charge \in Charges
      BY <2>2, Applied DEF Integrity
    <3>2. ItemAllowed(payment'[p], items[a])
      BY <2>2 DEF MayApply
    <3>3. items[a].charge \in NotVoided(charge)
      BY <3>1, <3>2 DEF ItemAllowed, NotVoided, Rows, Integrity, TypeOK
    <3>4. p \in NotVoided(payment') /\ (isCountedPayment(p))'
      BY DEF MayApply, NotVoided, Rows, TypeOK, isCountedPayment
    <3> QED
      BY <3>1, <3>2, <3>3, <3>4 DEF MayJoin, ItemAllowed
  <2> QED
    BY <2>1, <2>2, Applied DEF Integrity
<1>2. ChargeNotOverpaid'
  BY ApplyKeepsCharges
<1>3. PaymentNotOverdrawn'
  <2> SUFFICES ASSUME NEW q \in NotVoided(payment')
               PROVE  (paymentFree(q))' >= 0
    BY DEF PaymentNotOverdrawn
  <2>1. q \in Payments /\ payment'[q].amount \in Int
    BY MaxAmountAssumption
    DEF NotVoided, Rows, TypeOK, PaymentRow, Amounts
  <2>2. CASE q = p
    <3>1. sumMoney(DOMAIN items, ItemAmounts(items)) <= free
      BY DEF MayApply
    <3> QED
      BY <2>1, <2>2, <3>1, ApplyToPayment DEF paymentFree
  <2>3. CASE q # p
    <3>1. payment'[q] = payment[q] /\ q \in NotVoided(payment)
      BY <2>1, <2>3 DEF NotVoided, Rows, Integrity, TypeOK
    <3>2. paymentFree(q) >= 0
      BY <3>1 DEF Integrity, PaymentNotOverdrawn
    <3> QED
      BY <2>1, <2>3, <3>1, <3>2, ApplyToPayment DEF paymentFree
  <2> QED
    BY <2>2, <2>3
<1> QED
  BY <1>1, <1>2, <1>3 DEF Integrity

(* What the three voiding operations leave active still matches.           *)
LEMMA VoidKeepsMatch ==
  ASSUME Integrity, NEW S \in SUBSET Rows(allocation),
         allocation' = VoidRows(allocation, S),
         \A a \in NotVoided(allocation) \ S :
            /\ allocation[a].charge \in NotVoided(charge')
            /\ allocation[a].payment \in NotVoided(payment')
            /\ charge'[allocation[a].charge] = charge[allocation[a].charge]
            /\ payment'[allocation[a].payment] = payment[allocation[a].payment]
  PROVE  AllocationsMatch'
<1> SUFFICES ASSUME NEW a \in NotVoided(allocation')
             PROVE  MayJoin(allocation[a].charge, allocation[a].payment)'
  BY DEF AllocationsMatch
<1>1. a \in NotVoided(allocation) \ S /\ allocation'[a] = allocation[a]
  BY VoidRowsActive DEF Integrity
<1>2. MayJoin(allocation[a].charge, allocation[a].payment)
  BY <1>1 DEF Integrity, AllocationsMatch
<1> QED
  BY <1>1, <1>2 DEF MayJoin, isCountedPayment

(* The rows of a table that stay when one of them is voided.               *)
LEMMA VoidOneCharge ==
  ASSUME TypeOK, NEW c \in Charges, charge[c] # None,
         charge' = VoidRows(charge, {c})
  PROVE  /\ NotVoided(charge') = NotVoided(charge) \ {c}
         /\ \A d \in NotVoided(charge') : charge'[d] = charge[d]
BY NoneAssumption DEF TypeOK, VoidRows, NotVoided, Rows, ChargeRow

LEMMA VoidOnePayment ==
  ASSUME TypeOK, NEW p \in Payments, payment[p] # None,
         payment' = VoidRows(payment, {p})
  PROVE  /\ NotVoided(payment') = NotVoided(payment) \ {p}
         /\ \A q \in NotVoided(payment') : payment'[q] = payment[q]
BY NoneAssumption DEF TypeOK, VoidRows, NotVoided, Rows, PaymentRow

(* An operation that leaves the allocations alone and adds a row or none.  *)
LEMMA NoAllocationChange ==
  ASSUME Integrity, TypeOK', allocation' = allocation,
         \A c \in NotVoided(charge) : charge'[c] = charge[c],
         payment' = payment,
         \A c \in NotVoided(charge') \ NotVoided(charge) : charge[c] = None
  PROVE  Integrity'
<1>1. \A c \in NotVoided(charge) : c \in NotVoided(charge')
  BY DEF NotVoided, Rows, Integrity, TypeOK
<1>2. AllocationsMatch'
  BY <1>1 DEF Integrity, AllocationsMatch, MayJoin, isCountedPayment
<1>3. PaymentNotOverdrawn'
  BY DEF Integrity, PaymentNotOverdrawn, paymentFree, activeAllocated, ofPayment
<1>4. ChargeNotOverpaid'
  <2> SUFFICES ASSUME NEW c \in NotVoided(charge')
               PROVE  (chargeRemaining(c))' >= 0
    BY DEF ChargeNotOverpaid
  <2>1. CASE c \in NotVoided(charge)
    BY <2>1 DEF Integrity, ChargeNotOverpaid, chargeRemaining, activeAllocated,
                ofCharge
  <2>2. CASE c \notin NotVoided(charge)
    <3>1. charge[c] = None
      BY <2>2
    <3>2. ofCharge(c) = {}
      BY <3>1 DEF ofCharge, Integrity, AllocationsMatch, MayJoin, NotVoided, Rows
    <3>3. (activeAllocated(ofCharge(c)))' = 0
      BY <3>2, SumEmpty DEF activeAllocated, ofCharge
    <3>4. charge'[c].amount \in Int /\ charge'[c].amount >= 0
      BY MaxAmountAssumption DEF NotVoided, Rows, TypeOK, ChargeRow, Amounts
    <3> QED
      BY <3>3, <3>4 DEF chargeRemaining
  <2> QED
    BY <2>1, <2>2
<1> QED
  BY <1>2, <1>3, <1>4 DEF Integrity

LEMMA InitIntegrity == Init => Integrity
BY NoneAssumption
DEF Init, Integrity, TypeOK, AllocationsMatch, PaymentNotOverdrawn,
    ChargeNotOverpaid, NotVoided, Rows

LEMMA NextIntegrity == Integrity /\ [Next]_vars => Integrity'
<1> SUFFICES ASSUME Integrity, [Next]_vars PROVE Integrity'
  OBVIOUS
<1>0. TypeOK'
  BY NextType DEF Integrity
<1>1. ASSUME NEW c \in Charges, NEW row \in NewCharge, CreateCharge(c, row)
      PROVE  Integrity'
  BY <1>0, <1>1, NoAllocationChange
  DEF CreateCharge, NotVoided, Rows, Integrity, TypeOK
<1>2. ASSUME NEW c \in Charges, VoidCharge(c)
      PROVE  Integrity'
  <2>1. ofCharge(c) \in SUBSET Rows(allocation)
    BY DEF ofCharge, NotVoided
  <2>2. /\ NotVoided(charge') = NotVoided(charge) \ {c}
        /\ \A d \in NotVoided(charge') : charge'[d] = charge[d]
        /\ allocation' = VoidRows(allocation, ofCharge(c))
        /\ payment' = payment
    BY <1>2, VoidOneCharge DEF VoidCharge, Integrity
  <2>3. AllocationsMatch'
    BY <2>1, <2>2, VoidKeepsMatch
    DEF Integrity, AllocationsMatch, MayJoin, ofCharge
  <2>4. ChargeNotOverpaid' /\ PaymentNotOverdrawn'
    BY <2>1, <2>2, VoidKeepsSums DEF ChargeNotOverpaid, PaymentNotOverdrawn
  <2> QED
    BY <1>0, <2>3, <2>4 DEF Integrity
<1>3. ASSUME NEW p \in Payments, NEW row \in NewPayment,
             NEW items \in ItemSets, CreatePayment(p, row, items)
      PROVE  Integrity'
  <2>0. row \in PaymentRow /\ row # None
    BY NewRows, NoneAssumption
  <2>1. /\ payment'[p] = row
        /\ \A q \in Payments \ {p} : payment'[q] = payment[q]
        /\ payment[p] = None
        /\ payment'[p] # None
        /\ allocation' = WithAllocations(p, items)
        /\ charge' = charge
    BY <1>3, <2>0 DEF CreatePayment, Integrity, TypeOK
  <2>2. activeAllocated(ofPayment(p)) = 0
    <3>1. ofPayment(p) = {}
      BY <2>1 DEF ofPayment, Integrity, AllocationsMatch, MayJoin, NotVoided, Rows
    <3> QED
      BY <3>1, SumEmpty DEF activeAllocated
  <2>3. row.amount \in Int
    BY <2>0, MaxAmountAssumption DEF PaymentRow, Amounts
  <2>4. MayApply(row, row.amount, items)
    <3>1. CASE DOMAIN items # {}
      BY <1>3, <3>1 DEF CreatePayment
    <3>2. CASE DOMAIN items = {}
      BY <1>3, <2>3, <3>2, NewRows, SumEmpty DEF CreatePayment, MayApply
    <3> QED
      BY <3>1, <3>2
  <2>5. row.amount = payment'[p].amount - activeAllocated(ofPayment(p))
    BY <2>1, <2>2, <2>3
  <2> QED
    BY <1>0, <2>1, <2>4, <2>5, ApplyKeepsIntegrity
<1>4. ASSUME NEW p \in Payments, NEW items \in ItemSets, Allocate(p, items)
      PROVE  Integrity'
  BY <1>0, <1>4, ApplyKeepsIntegrity DEF Allocate, paymentFree
<1>5. ASSUME NEW p \in Payments, VoidPayment(p)
      PROVE  Integrity'
  <2>1. ofPayment(p) \in SUBSET Rows(allocation)
    BY DEF ofPayment, NotVoided
  <2>2. /\ NotVoided(payment') = NotVoided(payment) \ {p}
        /\ \A q \in NotVoided(payment') : payment'[q] = payment[q]
        /\ allocation' = VoidRows(allocation, ofPayment(p))
        /\ charge' = charge
    BY <1>5, VoidOnePayment DEF VoidPayment, Integrity
  <2>3. AllocationsMatch'
    BY <2>1, <2>2, VoidKeepsMatch
    DEF Integrity, AllocationsMatch, MayJoin, ofPayment
  <2>4. ChargeNotOverpaid' /\ PaymentNotOverdrawn'
    BY <2>1, <2>2, VoidKeepsSums DEF ChargeNotOverpaid, PaymentNotOverdrawn
  <2> QED
    BY <1>0, <2>3, <2>4 DEF Integrity
<1>6. ASSUME NEW a \in Allocations, VoidAllocation(a)
      PROVE  Integrity'
  <2>1. /\ {a} \in SUBSET Rows(allocation)
        /\ allocation' = VoidRows(allocation, {a})
        /\ charge' = charge
        /\ payment' = payment
    BY <1>6 DEF VoidAllocation, Rows, Integrity, TypeOK
  <2>2. AllocationsMatch'
    BY <2>1, VoidKeepsMatch DEF Integrity, AllocationsMatch, MayJoin
  <2>3. ChargeNotOverpaid' /\ PaymentNotOverdrawn'
    BY <2>1, VoidKeepsSums DEF ChargeNotOverpaid, PaymentNotOverdrawn
  <2> QED
    BY <1>0, <2>2, <2>3 DEF Integrity
<1>7. CASE UNCHANGED vars
  BY <1>7
  DEF vars, Integrity, TypeOK, AllocationsMatch, MayJoin, isCountedPayment,
      PaymentNotOverdrawn, paymentFree, ChargeNotOverpaid, chargeRemaining,
      activeAllocated, ofCharge, ofPayment
<1> QED
  BY <1>1, <1>2, <1>3, <1>4, <1>5, <1>6, <1>7 DEF Next

(* The five integrity rules hold in every reachable ledger.                *)
THEOREM LedgerIntegrity ==
  Spec => [](AllocationsMatch /\ NothingOverpaid)
<1>1. Integrity => AllocationsMatch /\ NothingOverpaid
  BY DEF Integrity, NothingOverpaid
<1> QED
  BY InitIntegrity, NextIntegrity, <1>1, PTL DEF Spec

(* Money is not spent twice: what a payment has is not exceeded, and a     *)
(* charge takes no more than it asks for (applyAllocations).               *)
THEOREM MoneySpentOnce == Spec => []NothingOverpaid
<1>1. Integrity => NothingOverpaid
  BY DEF Integrity, NothingOverpaid
<1> QED
  BY InitIntegrity, NextIntegrity, <1>1, PTL DEF Spec

-----------------------------------------------------------------------------
(* LedgerTx                                                                *)

(* The statements at which a request to allocate, or to void, holds the    *)
(* row it locked first.                                                    *)
Allocating == {"charges", "check", "free", "commit"}
Voiding    == {"update", "allocations", "commit"}

Creates(t)  == Active(t) /\ req[t].op = "create"
Applies(t)  == Active(t) /\ req[t].op \in Applying
Asks(t, op) == Active(t) /\ req[t].op = op

(* Where a request can be, and what its statement has still to lock.       *)
Shape(t) ==
  /\ Creates(t) => pc[t] \in Allocating
  /\ Asks(t, "allocate") => pc[t] \in Allocating \cup {"payment"}
  /\ Asks(t, "voidPayment") => pc[t] \in Voiding \cup {"payment"}
  /\ Asks(t, "voidCharge") => pc[t] \in Voiding \cup {"charges"}
  /\ Asks(t, "voidAllocation") => pc[t] \in Voiding
  /\ pc[t] = "payment" => todo[t] = {req[t].payment}
  /\ pc[t] = "charges" =>
       /\ todo[t] # {}
       /\ Applies(t) => todo[t] \subseteq itemCharges(req[t].items)
       /\ Asks(t, "voidCharge") => todo[t] = {req[t].charge}
  /\ pc[t] = "allocations" =>
       /\ todo[t] # {}
       /\ Asks(t, "voidAllocation") => todo[t] = {req[t].allocation}
  /\ pc[t] \notin {"payment", "charges", "allocations"} => todo[t] = {}
  /\ pc[t] \notin {"allocations", "commit"} => mine[t] = {}

(* What was checked before the first query, and the rows it found.         *)
Asked(t) ==
  /\ Applies(t) =>
       /\ \A i, j \in req[t].items : i.charge = j.charge => i = j
       /\ \A i \in req[t].items : i.amount > 0
  /\ Creates(t) =>
       /\ payment[req[t].payment] = None
       /\ req[t].row.amount > 0
       /\ req[t].items = {} => pc[t] = "commit"
  /\ Asks(t, "allocate") => payment[req[t].payment] # None /\ req[t].items # {}
  /\ Asks(t, "voidPayment") => payment[req[t].payment] # None
  /\ Asks(t, "voidCharge") => charge[req[t].charge] # None

(* The rows it holds, and what it saw in them under the lock.              *)
Locked(t) ==
  /\ Asks(t, "allocate") /\ pc[t] \in Allocating =>
       lock[req[t].payment] = t /\ isCountedPayment(req[t].payment)
  /\ Asks(t, "voidPayment") /\ pc[t] \in Voiding =>
       lock[req[t].payment] = t /\ ~payment[req[t].payment].voided
  /\ Applies(t) /\ pc[t] \in Allocating =>
       \A c \in itemCharges(req[t].items) \ todo[t] : lock[c] = t
  /\ Asks(t, "voidCharge") /\ pc[t] \in Voiding =>
       lock[req[t].charge] = t /\ ~charge[req[t].charge].voided
  /\ \A a \in mine[t] : lock[a] = t /\ a \in NotVoided(allocation)

(* What its checks and its updateMany read is still so.                    *)
Read(t) ==
  /\ Applies(t) /\ pc[t] \in {"free", "commit"} =>
       \A i \in req[t].items : ItemAllowed(pay(t), i)
  /\ Applies(t) /\ pc[t] = "commit" =>
       itemsTotal(req[t].items) <= pay(t).amount - spent(t)
  /\ Active(t) /\ ~Applies(t) /\ pc[t] \in {"allocations", "commit"} =>
       /\ mine[t] \subseteq matching(t)
       /\ matching(t) \subseteq mine[t] \cup todo[t]
       /\ todo[t] \subseteq Rows(allocation)
       /\ todo[t] \cap NotVoided(allocation) \subseteq matching(t)
  /\ Asks(t, "voidAllocation") =>
       /\ pc[t] = "allocations" => mine[t] = {}
       /\ pc[t] = "commit" => mine[t] # {}

(* No lock is held but by the statements that take it, and the charges it  *)
(* waits for come after those it holds.                                    *)
Holding(t) ==
  \A r \in Lockable : lock[r] = t =>
    /\ Active(t)
    /\ r \in Payments =>
         /\ r = req[t].payment
         /\ \/ Asks(t, "allocate") /\ pc[t] \in Allocating
            \/ Asks(t, "voidPayment") /\ pc[t] \in Voiding
    /\ r \in Charges =>
         \/ /\ Applies(t)
            /\ pc[t] \in Allocating
            /\ \A d \in todo[t] : r < d
         \/ Asks(t, "voidCharge") /\ pc[t] \in Voiding
    /\ r \in Allocations =>
         /\ ~Applies(t)
         /\ pc[t] \in {"allocations", "commit"}
         /\ Asks(t, "voidAllocation") => pc[t] = "commit"

Sound(t) == Shape(t) /\ Asked(t) /\ Locked(t) /\ Read(t) /\ Holding(t)

(* Two requests never create one payment.                                  *)
Distinct ==
  \A t, u \in Txs :
    Creates(t) /\ Creates(u) /\ req[t].payment = req[u].payment => t = u

TxInv == TxTypeOK /\ (\A t \in Txs : Sound(t)) /\ Distinct

-----------------------------------------------------------------------------
(* Requests and statements.                                                *)

(* What a request carries.                                                 *)
LEMMA RequestFields ==
  ASSUME TxTypeOK, NEW t \in Txs
  PROVE  /\ Active(t) <=> req[t] \in TxRequest
         /\ Active(t) => req[t].op \in {"create", "allocate", "voidPayment",
                                        "voidCharge", "voidAllocation"}
         /\ Applies(t) <=> Creates(t) \/ Asks(t, "allocate")
         /\ Creates(t) => /\ req[t].payment \in Payments
                          /\ req[t].row \in NewPayment
                          /\ req[t].items \in SUBSET Item
         /\ Asks(t, "allocate") => /\ req[t].payment \in Payments
                                   /\ req[t].items \in SUBSET Item
         /\ Asks(t, "voidPayment") => req[t].payment \in Payments
         /\ Asks(t, "voidCharge") => req[t].charge \in Charges
         /\ Asks(t, "voidAllocation") => req[t].allocation \in Allocations
<1>1. Active(t) <=> req[t] \in TxRequest
  BY RequestAssumption DEF TxTypeOK, Active
<1>2. CASE ~Active(t)
  BY <1>1, <1>2 DEF Applies, Creates, Asks
<1>3. CASE Active(t)
  <2> DEFINE r == req[t]
  <2>1. CASE r \in [op: {"create"}, payment: Payments, row: NewPayment,
                    items: SUBSET Item]
    BY <1>1, <1>3, <2>1 DEF Applies, Creates, Asks, Applying
  <2>2. CASE r \in [op: {"allocate"}, payment: Payments, items: SUBSET Item]
    BY <1>1, <1>3, <2>2 DEF Applies, Creates, Asks, Applying
  <2>3. CASE r \in [op: {"voidPayment"}, payment: Payments]
    BY <1>1, <1>3, <2>3 DEF Applies, Creates, Asks, Applying
  <2>4. CASE r \in [op: {"voidCharge"}, charge: Charges]
    BY <1>1, <1>3, <2>4 DEF Applies, Creates, Asks, Applying
  <2>5. CASE r \in [op: {"voidAllocation"}, allocation: Allocations]
    BY <1>1, <1>3, <2>5 DEF Applies, Creates, Asks, Applying
  <2> QED
    BY <1>1, <1>3, <2>1, <2>2, <2>3, <2>4, <2>5 DEF TxRequest
<1> QED
  BY <1>2, <1>3

(* A row that is not voided is a row of its table.                         *)
LEMMA RowTypes ==
  ASSUME TypeOK
  PROVE  /\ NotVoided(allocation) \subseteq Allocations
         /\ \A a \in Rows(allocation) : /\ a \in Allocations
                                        /\ allocation[a] \in AllocationRow
                                        /\ allocation[a].charge \in Charges
                                        /\ allocation[a].payment \in Payments
         /\ \A c \in Charges : charge[c] # None => charge[c].amount \in Int
         /\ \A p \in Payments : payment[p] # None => payment[p].amount \in Int
BY MaxAmountAssumption
DEF TypeOK, NotVoided, Rows, AllocationRow, ChargeRow, PaymentRow, Amounts

(* The lines of a request are finitely many.                               *)
LEMMA ItemsFinite == IsFiniteSet(Item)
<1>1. IsFiniteSet(Amounts)
  BY MaxAmountAssumption, FS_Interval DEF Amounts
<1>2. IsFiniteSet(Charges \X Amounts)
  BY <1>1, IdsAssumption, FS_Product
<1> DEFINE f == [x \in Charges \X Amounts |-> [charge |-> x[1], amount |-> x[2]]]
<1>3. f \in Surjection(Charges \X Amounts, Item)
  <2>1. f \in [Charges \X Amounts -> Item]
    BY DEF Item
  <2>2. ASSUME NEW i \in Item
        PROVE  \E x \in Charges \X Amounts : f[x] = i
    <3>1. <<i.charge, i.amount>> \in Charges \X Amounts
      BY DEF Item
    <3>2. f[<<i.charge, i.amount>>] = i
      BY <3>1 DEF Item
    <3> QED
      BY <3>1, <3>2
  <2> QED
    BY <2>1, <2>2 DEF Surjection
<1> QED
  BY <1>2, <1>3, FS_Surjection

-----------------------------------------------------------------------------
(* What the step of another transaction leaves a transaction: its own      *)
(* state and its locks; the rows under them; and of the allocations those  *)
(* that are active stay as they are or are voided, new ones belong to rows *)
(* that it has not locked.                                                 *)
Keeps(u) ==
  /\ req'[u] = req[u]
  /\ pc'[u] = pc[u]
  /\ todo'[u] = todo[u]
  /\ mine'[u] = mine[u]
  /\ \A r \in Lockable : lock'[r] = u <=> lock[r] = u
  /\ \A p \in Payments :
       /\ payment[p] # None => payment'[p] # None
       /\ lock[p] = u /\ payment[p] # None => payment'[p] = payment[p]
       /\ Creates(u) /\ req[u].payment = p => payment'[p] = payment[p]
  /\ \A c \in Charges :
       /\ charge[c] # None => charge'[c] # None
       /\ lock[c] = u /\ charge[c] # None => charge'[c] = charge[c]
  /\ \A a \in Rows(allocation) :
       /\ a \in Rows(allocation')
       /\ a \in NotVoided(allocation') =>
            a \in NotVoided(allocation) /\ allocation'[a] = allocation[a]
       /\ lock[a] = u /\ a \in NotVoided(allocation) => a \in NotVoided(allocation')
  /\ \A a \in NotVoided(allocation') \ Rows(allocation) :
       /\ lock[allocation'[a].charge] # u
       /\ lock[allocation'[a].payment] # u

(* Of what a locked charge or payment has allocated, no more is active.    *)
LEMMA LockedOnlyLose ==
  ASSUME TypeOK, TypeOK', NEW u \in Txs, Keeps(u)
  PROVE  /\ \A c \in Charges : lock[c] = u =>
              /\ (ofCharge(c))' = ofCharge(c) \cap NotVoided(allocation')
              /\ (activeAllocated(ofCharge(c)))' <= activeAllocated(ofCharge(c))
              /\ (activeAllocated(ofCharge(c)))' \in Nat
              /\ activeAllocated(ofCharge(c)) \in Nat
         /\ \A p \in Payments : lock[p] = u =>
              /\ (ofPayment(p))' = ofPayment(p) \cap NotVoided(allocation')
              /\ (activeAllocated(ofPayment(p)))' <= activeAllocated(ofPayment(p))
              /\ (activeAllocated(ofPayment(p)))' \in Nat
              /\ activeAllocated(ofPayment(p)) \in Nat
<1>1. ASSUME NEW S \in SUBSET NotVoided(allocation),
             NEW R \in SUBSET NotVoided(allocation'), R \subseteq S
      PROVE  /\ sumMoney(R, amounts(allocation')) <= activeAllocated(S)
             /\ sumMoney(R, amounts(allocation')) \in Nat
             /\ activeAllocated(S) \in Nat
  <2>1. \A a \in R : amounts(allocation')[a] = amounts(allocation)[a]
    BY <1>1 DEF Keeps, amounts, NotVoided
  <2>2. sumMoney(R, amounts(allocation')) = sumMoney(R, amounts(allocation))
    BY <2>1, SumCongruence
  <2>3. IsFiniteSet(S) /\ activeAllocated(S) \in Nat
    BY ActiveFinite
  <2>4. sumMoney(R, amounts(allocation)) <= sumMoney(S, amounts(allocation))
    BY <1>1, <2>3, SumMonotone
  <2>5. IsFiniteSet(R)
    BY <1>1, <2>3, FS_Subset
  <2> QED
    BY <2>2, <2>3, <2>4, <2>5, SumType DEF activeAllocated
<1>2. ASSUME NEW c \in Charges, lock[c] = u
      PROVE  (ofCharge(c))' = ofCharge(c) \cap NotVoided(allocation')
  BY <1>2 DEF Keeps, ofCharge, NotVoided
<1>3. ASSUME NEW p \in Payments, lock[p] = u
      PROVE  (ofPayment(p))' = ofPayment(p) \cap NotVoided(allocation')
  BY <1>3 DEF Keeps, ofPayment, NotVoided
<1>4. ASSUME NEW c \in Charges, lock[c] = u
      PROVE  /\ (activeAllocated(ofCharge(c)))' <= activeAllocated(ofCharge(c))
             /\ (activeAllocated(ofCharge(c)))' \in Nat
             /\ activeAllocated(ofCharge(c)) \in Nat
  <2>1. ofCharge(c) \in SUBSET NotVoided(allocation)
    BY DEF ofCharge
  <2>2. /\ (ofCharge(c))' \in SUBSET NotVoided(allocation')
        /\ (ofCharge(c))' \subseteq ofCharge(c)
    BY <1>2, <1>4
  <2> QED
    BY <1>1, <2>1, <2>2 DEF activeAllocated
<1>5. ASSUME NEW p \in Payments, lock[p] = u
      PROVE  /\ (activeAllocated(ofPayment(p)))' <= activeAllocated(ofPayment(p))
             /\ (activeAllocated(ofPayment(p)))' \in Nat
             /\ activeAllocated(ofPayment(p)) \in Nat
  <2>1. ofPayment(p) \in SUBSET NotVoided(allocation)
    BY DEF ofPayment
  <2>2. /\ (ofPayment(p))' \in SUBSET NotVoided(allocation')
        /\ (ofPayment(p))' \subseteq ofPayment(p)
    BY <1>3, <1>5
  <2> QED
    BY <1>1, <2>1, <2>2 DEF activeAllocated
<1> QED
  BY <1>2, <1>3, <1>4, <1>5

-----------------------------------------------------------------------------
(* A step that keeps a transaction what Keeps says keeps it sound.         *)

LEMMA KeepsFields ==
  ASSUME NEW u \in Txs, Keeps(u)
  PROVE  /\ Active(u)' = Active(u)
         /\ Creates(u)' = Creates(u)
         /\ Applies(u)' = Applies(u)
         /\ \A op : Asks(u, op)' = Asks(u, op)
         /\ req'[u] = req[u] /\ pc'[u] = pc[u]
         /\ todo'[u] = todo[u] /\ mine'[u] = mine[u]
BY DEF Keeps, Active, Creates, Applies, Asks

LEMMA KeepsShape ==
  ASSUME NEW u \in Txs, Keeps(u), Shape(u)
  PROVE  Shape(u)'
BY KeepsFields DEF Shape

LEMMA KeepsAsked ==
  ASSUME TxTypeOK, NEW u \in Txs, Keeps(u), Asked(u)
  PROVE  Asked(u)'
BY KeepsFields, RequestFields DEF Asked, Keeps

LEMMA KeepsHolding ==
  ASSUME NEW u \in Txs, Keeps(u), Holding(u)
  PROVE  Holding(u)'
BY KeepsFields DEF Holding, Keeps

LEMMA KeepsLocked ==
  ASSUME TxTypeOK, NEW u \in Txs, Keeps(u), Asked(u), Locked(u)
  PROVE  Locked(u)'
<1> USE KeepsFields, RequestFields
<1>1. (Asks(u, "allocate") /\ pc[u] \in Allocating =>
         lock[req[u].payment] = u /\ isCountedPayment(req[u].payment))'
  BY DEF Asked, Locked, Keeps, isCountedPayment, Lockable
<1>2. (Asks(u, "voidPayment") /\ pc[u] \in Voiding =>
         lock[req[u].payment] = u /\ ~payment[req[u].payment].voided)'
  BY DEF Asked, Locked, Keeps, Lockable
<1>3. (Applies(u) /\ pc[u] \in Allocating =>
         \A c \in itemCharges(req[u].items) \ todo[u] : lock[c] = u)'
  <2>1. Applies(u) => itemCharges(req[u].items) \subseteq Lockable
    BY DEF itemCharges, Item, Lockable
  <2> QED
    BY <2>1 DEF Locked, Keeps
<1>4. (Asks(u, "voidCharge") /\ pc[u] \in Voiding =>
         lock[req[u].charge] = u /\ ~charge[req[u].charge].voided)'
  BY DEF Asked, Locked, Keeps, Lockable
<1>5. (\A a \in mine[u] : lock[a] = u /\ a \in NotVoided(allocation))'
  <2>1. mine[u] \subseteq Lockable
    BY DEF TxTypeOK, Lockable
  <2> QED
    BY <2>1 DEF Locked, Keeps, NotVoided
<1> QED
  BY <1>1, <1>2, <1>3, <1>4, <1>5 DEF Locked

(* The payment a request allocates is as it read it.                       *)
LEMMA KeepsPay ==
  ASSUME TxTypeOK, NEW u \in Txs, Keeps(u), Asked(u), Locked(u),
         Applies(u), pc[u] \in Allocating
  PROVE  pay(u)' = pay(u)
<1>1. CASE Creates(u)
  BY <1>1, KeepsFields DEF pay, Creates
<1>2. CASE Asks(u, "allocate")
  <2>1. payment'[req[u].payment] = payment[req[u].payment]
    BY <1>2, RequestFields DEF Asked, Locked, Keeps
  <2> QED
    BY <1>2, <2>1, KeepsFields DEF pay, Asks
<1> QED
  BY <1>1, <1>2, RequestFields

(* The check of a line still holds while its charge is locked.             *)
LEMMA KeepsAllowed ==
  ASSUME TypeOK, TypeOK', NEW u \in Txs, Keeps(u), NEW i \in Item,
         lock[i.charge] = u, NEW row, ItemAllowed(row, i)
  PROVE  ItemAllowed(row, i)'
<1>1. i.charge \in Charges /\ i.amount \in Int
  BY MaxAmountAssumption DEF Item, Amounts
<1>2. charge'[i.charge] = charge[i.charge] /\ charge[i.charge].amount \in Int
  BY <1>1, RowTypes DEF Keeps, ItemAllowed
<1>3. i.amount <= chargeRemaining(i.charge)
  BY DEF ItemAllowed
<1>4. i.amount <= chargeRemaining(i.charge)'
  <2> DEFINE new == (activeAllocated(ofCharge(i.charge)))'
             old == activeAllocated(ofCharge(i.charge))
  <2>1. new <= old /\ new \in Nat /\ old \in Nat
    BY <1>1, LockedOnlyLose
  <2>2. i.amount <= charge[i.charge].amount - old
    BY <1>3 DEF chargeRemaining
  <2>3. chargeRemaining(i.charge)' = charge[i.charge].amount - new
    BY <1>2 DEF chargeRemaining
  <2> HIDE DEF new, old
  <2> QED
    BY <1>1, <1>2, <2>1, <2>2, <2>3
<1> QED
  BY <1>2, <1>4 DEF ItemAllowed

LEMMA KeepsRead ==
  ASSUME TxTypeOK, TypeOK', NEW u \in Txs, Keeps(u),
         Shape(u), Asked(u), Locked(u), Read(u)
  PROVE  Read(u)'
<1> USE KeepsFields
<1>0. TypeOK
  BY DEF TxTypeOK
<1>1. (Applies(u) /\ pc[u] \in {"free", "commit"} =>
         \A i \in req[u].items : ItemAllowed(pay(u), i))'
  <2> SUFFICES ASSUME Applies(u), pc[u] \in {"free", "commit"},
                      NEW i \in req[u].items
               PROVE  ItemAllowed(pay(u), i)'
    OBVIOUS
  <2>1. i \in Item
    BY RequestFields
  <2>2. lock[i.charge] = u
    BY <2>1 DEF Shape, Locked, Allocating, itemCharges
  <2>3. ItemAllowed(pay(u), i)
    BY DEF Read
  <2>4. pay(u)' = pay(u)
    BY KeepsPay DEF Allocating
  <2>5. \A row : ItemAllowed(row, i) => ItemAllowed(row, i)'
    BY <1>0, <2>1, <2>2, KeepsAllowed
  <2> QED
    BY <2>3, <2>4, <2>5 DEF ItemAllowed
<1>2. (Applies(u) /\ pc[u] = "commit" =>
         itemsTotal(req[u].items) <= pay(u).amount - spent(u))'
  <2> SUFFICES ASSUME Applies(u), pc[u] = "commit"
               PROVE  (itemsTotal(req[u].items) <= pay(u).amount - spent(u))'
    OBVIOUS
  <2>1. itemsTotal(req[u].items) <= pay(u).amount - spent(u)
    BY DEF Read
  <2>2. pay(u)' = pay(u)
    BY KeepsPay DEF Allocating
  <2>3. itemsTotal(req[u].items)' = itemsTotal(req[u].items)
    BY DEF itemsTotal
  <2>4. CASE Creates(u)
    <3>1. spent(u)' = spent(u)
      BY <2>4 DEF spent, Creates
    <3> QED
      BY <2>1, <2>2, <2>3, <3>1
  <2>5. CASE Asks(u, "allocate")
    <3>1. req[u].payment \in Payments /\ lock[req[u].payment] = u
      BY <2>5, RequestFields DEF Locked, Allocating
    <3>2. /\ spent(u) = activeAllocated(ofPayment(req[u].payment))
          /\ spent(u)' = (activeAllocated(ofPayment(req[u].payment)))'
      BY <2>5 DEF spent, Asks
    <3>3. \A p \in Payments : lock[p] = u =>
              /\ (activeAllocated(ofPayment(p)))' <= activeAllocated(ofPayment(p))
              /\ (activeAllocated(ofPayment(p)))' \in Nat
              /\ activeAllocated(ofPayment(p)) \in Nat
      BY <1>0, LockedOnlyLose
    <3>4. spent(u)' <= spent(u) /\ spent(u)' \in Nat /\ spent(u) \in Nat
      BY <3>1, <3>2, <3>3 DEF ofPayment, activeAllocated
    <3>5. pay(u).amount \in Int
      BY <1>0, <2>5, <3>1, RowTypes DEF Asked, pay, Asks
    <3>6. itemsTotal(req[u].items) \in Nat
      <4>1. IsFiniteSet(req[u].items)
        BY RequestFields, ItemsFinite, FS_Subset
      <4> QED
        BY <4>1, SumType DEF itemsTotal
    <3> QED
      BY <2>1, <2>2, <2>3, <3>4, <3>5, <3>6
  <2> QED
    BY <2>4, <2>5, RequestFields
<1>3. (Active(u) /\ ~Applies(u) /\ pc[u] \in {"allocations", "commit"} =>
         /\ mine[u] \subseteq matching(u)
         /\ matching(u) \subseteq mine[u] \cup todo[u]
         /\ todo[u] \subseteq Rows(allocation)
         /\ todo[u] \cap NotVoided(allocation) \subseteq matching(u))'
  <2> SUFFICES ASSUME Active(u), ~Applies(u), pc[u] \in {"allocations", "commit"}
               PROVE  (/\ mine[u] \subseteq matching(u)
                       /\ matching(u) \subseteq mine[u] \cup todo[u]
                       /\ todo[u] \subseteq Rows(allocation)
                       /\ todo[u] \cap NotVoided(allocation) \subseteq matching(u))'
    OBVIOUS
  <2>1. /\ mine[u] \subseteq matching(u)
        /\ matching(u) \subseteq mine[u] \cup todo[u]
        /\ todo[u] \subseteq Rows(allocation)
        /\ todo[u] \cap NotVoided(allocation) \subseteq matching(u)
    BY DEF Read
  <2>2. mine[u] \subseteq NotVoided(allocation')
    BY KeepsLocked DEF Locked
  <2>3. matching(u)' = matching(u) \cap NotVoided(allocation')
    <3>1. CASE Asks(u, "voidPayment")
      <4>1. /\ matching(u) = ofPayment(req[u].payment)
            /\ matching(u)' = (ofPayment(req[u].payment))'
        BY <3>1 DEF matching, Asks
      <4>2. req[u].payment \in Payments /\ lock[req[u].payment] = u
        BY <3>1, RequestFields DEF Locked, Voiding
      <4>3. \A p \in Payments : lock[p] = u =>
              (ofPayment(p))' = ofPayment(p) \cap NotVoided(allocation')
        BY <1>0, LockedOnlyLose
      <4> QED
        BY <4>1, <4>2, <4>3 DEF ofPayment
    <3>2. CASE Asks(u, "voidCharge")
      <4>1. /\ matching(u) = ofCharge(req[u].charge)
            /\ matching(u)' = (ofCharge(req[u].charge))'
        BY <3>2 DEF matching, Asks
      <4>2. req[u].charge \in Charges /\ lock[req[u].charge] = u
        BY <3>2, RequestFields DEF Locked, Voiding
      <4>3. \A c \in Charges : lock[c] = u =>
              (ofCharge(c))' = ofCharge(c) \cap NotVoided(allocation')
        BY <1>0, LockedOnlyLose
      <4> QED
        BY <4>1, <4>2, <4>3 DEF ofCharge
    <3>3. CASE Asks(u, "voidAllocation")
      <4>1. /\ matching(u) = {req[u].allocation} \cap NotVoided(allocation)
            /\ matching(u)' = {req[u].allocation} \cap NotVoided(allocation')
        BY <3>3 DEF matching, Asks
      <4>2. req[u].allocation \in Rows(allocation)
        BY <2>1, <3>3, <4>1 DEF Shape, Asks, Read, NotVoided
      <4> QED
        BY <4>1, <4>2 DEF Keeps
    <3> QED
      BY <3>1, <3>2, <3>3, RequestFields DEF Asks, Applies, Applying
  <2>4. todo[u] \subseteq Rows(allocation')
    BY <2>1 DEF Keeps
  <2>5. todo[u] \cap NotVoided(allocation') \subseteq NotVoided(allocation)
    BY <2>1 DEF Keeps
  <2> QED
    BY <2>1, <2>2, <2>3, <2>4, <2>5
<1>4. (Asks(u, "voidAllocation") =>
         /\ pc[u] = "allocations" => mine[u] = {}
         /\ pc[u] = "commit" => mine[u] # {})'
  BY DEF Read
<1> QED
  BY <1>1, <1>2, <1>3, <1>4 DEF Read

LEMMA KeepsSound ==
  ASSUME TxTypeOK, TypeOK', NEW u \in Txs, Keeps(u), Sound(u)
  PROVE  Sound(u)'
BY KeepsShape, KeepsAsked, KeepsLocked, KeepsRead, KeepsHolding DEF Sound

-----------------------------------------------------------------------------
(* Steps that change no table.                                             *)

(* They keep every transaction that is not their own.                      *)
LEMMA RestKeeps ==
  ASSUME UNCHANGED vars, NEW u \in Txs,
         req'[u] = req[u], pc'[u] = pc[u], todo'[u] = todo[u], mine'[u] = mine[u],
         \A r \in Lockable : lock'[r] = u <=> lock[r] = u
  PROVE  Keeps(u)
BY DEF Keeps, vars, NotVoided

(* What a transaction reads is the same.                                   *)
LEMMA SameTables ==
  ASSUME UNCHANGED vars, NEW t \in Txs, req'[t] = req[t]
  PROVE  /\ Active(t)' = Active(t)
         /\ Creates(t)' = Creates(t)
         /\ Applies(t)' = Applies(t)
         /\ \A op : Asks(t, op)' = Asks(t, op)
         /\ pay(t)' = pay(t)
         /\ spent(t)' = spent(t)
         /\ matching(t)' = matching(t)
         /\ \A i : ItemAllowed(pay(t), i)' = ItemAllowed(pay(t), i)
<1>1. /\ Active(t)' = Active(t)
      /\ Creates(t)' = Creates(t)
      /\ Applies(t)' = Applies(t)
      /\ \A op : Asks(t, op)' = Asks(t, op)
  BY DEF Active, Creates, Applies, Asks
<1>2. pay(t)' = pay(t)
  BY DEF pay, vars
<1>3. spent(t)' = spent(t)
  BY DEF spent, vars, activeAllocated, ofPayment
<1>4. matching(t)' = matching(t)
  BY DEF matching, vars, ofPayment, ofCharge
<1>5. \A i : ItemAllowed(pay(t), i)' = ItemAllowed(pay(t), i)
  BY <1>2 DEF ItemAllowed, vars, chargeRemaining, activeAllocated, ofCharge
<1> QED
  BY <1>1, <1>2, <1>3, <1>4, <1>5

(* A transaction that has ended holds nothing and waits for nothing.       *)
LEMMA IdleSound ==
  ASSUME NEW t \in Txs, req'[t] = None, pc'[t] = "idle", todo'[t] = {},
         mine'[t] = {}, \A r \in Lockable : lock'[r] # t
  PROVE  Sound(t)'
<1>1. ~Active(t)' /\ ~Creates(t)' /\ ~Applies(t)' /\ \A op : ~Asks(t, op)'
  BY DEF Active, Creates, Applies, Asks
<1> QED
  BY <1>1 DEF Sound, Shape, Asked, Locked, Read, Holding

LEMMA Ends ==
  ASSUME TxTypeOK, TypeOK', NEW t \in Txs, End(t)
  PROVE  /\ TxTypeOK'
         /\ Sound(t)'
         /\ \A u \in Txs \ {t} :
              /\ req'[u] = req[u] /\ pc'[u] = pc[u]
              /\ todo'[u] = todo[u] /\ mine'[u] = mine[u]
              /\ \A r \in Lockable : lock'[r] = u <=> lock[r] = u
         /\ Distinct => Distinct'
<1> USE TxsAssumption
<1>1. /\ req'[t] = None /\ pc'[t] = "idle" /\ todo'[t] = {} /\ mine'[t] = {}
      /\ \A r \in Lockable : lock'[r] # t
  BY DEF End, TxTypeOK
<1>2. \A u \in Txs \ {t} :
        /\ req'[u] = req[u] /\ pc'[u] = pc[u]
        /\ todo'[u] = todo[u] /\ mine'[u] = mine[u]
        /\ \A r \in Lockable : lock'[r] = u <=> lock[r] = u
  BY DEF End, TxTypeOK
<1>3. TxTypeOK'
  BY <1>1, <1>2 DEF End, TxTypeOK, Statements, Active
<1>4. Sound(t)'
  BY <1>1, IdleSound
<1>5. Distinct => Distinct'
  BY <1>1, <1>2 DEF Distinct, Creates, Active
<1> QED
  BY <1>2, <1>3, <1>4, <1>5

LEMMA RollsBack ==
  ASSUME TxInv, NEW t \in Txs, Rollback(t)
  PROVE  TxInv'
<1>1. TypeOK' /\ UNCHANGED vars
  BY DEF Rollback, TxInv, TxTypeOK, TypeOK, vars
<1>2. ASSUME NEW u \in Txs \ {t} PROVE Sound(u)'
  <2>1. Keeps(u)
    BY <1>1, Ends, RestKeeps DEF TxInv, Rollback
  <2> QED
    BY <1>1, <2>1, KeepsSound DEF TxInv
<1> QED
  BY <1>1, <1>2, Ends DEF TxInv, Rollback

(* A step of a transaction that goes on: its types, and what it leaves the *)
(* others, whether it takes a lock that was free or none.                  *)
LEMMA GoesOn ==
  ASSUME TxInv, NEW t \in Txs, UNCHANGED vars, req' = req, Active(t),
         NEW statement \in Statements \ {"idle"}, NEW rows \in SUBSET Lockable,
         NEW done \in SUBSET Allocations,
         pc' = [pc EXCEPT ![t] = statement],
         todo' = [todo EXCEPT ![t] = rows],
         mine' = [mine EXCEPT ![t] = done],
         \/ lock' = lock
         \/ \E r \in Lockable : lock[r] = None /\ lock' = [lock EXCEPT ![r] = t],
         Sound(t)'
  PROVE  TxInv'
<1> USE TxsAssumption DEF TxInv
<1>1. TxTypeOK'
  BY DEF TxTypeOK, TypeOK, vars, Active
<1>2. Distinct'
  BY DEF Distinct, Creates, Active
<1>3. ASSUME NEW u \in Txs \ {t} PROVE Sound(u)'
  <2>1. \A r \in Lockable : lock'[r] = u <=> lock[r] = u
    BY DEF TxTypeOK
  <2>2. Keeps(u)
    BY <2>1, RestKeeps DEF TxTypeOK
  <2> QED
    BY <1>1, <2>2, KeepsSound DEF TxTypeOK
<1> QED
  BY <1>1, <1>2, <1>3

(* Nobody holds a lock that a free row is given.                           *)
LEMMA Begins ==
  ASSUME TxInv, NEW t \in Txs, NEW request \in TxRequest,
         NEW statement \in Statements \ {"idle"}, NEW rows \in SUBSET Lockable,
         Begin(t, request, statement, rows),
         request.op = "create" =>
           \A u \in Txs : Creates(u) => req[u].payment # request.payment,
         Sound(t)'
  PROVE  TxInv'
<1> USE RequestAssumption DEF TxInv
<1>0. UNCHANGED vars /\ lock' = lock
  BY DEF Begin, vars
<1>1. TxTypeOK'
  BY <1>0 DEF TxTypeOK, TypeOK, vars, Active, Begin
<1>2. Distinct'
  <2> SUFFICES ASSUME NEW u \in Txs, NEW v \in Txs, Creates(u)', Creates(v)',
                      req'[u].payment = req'[v].payment
               PROVE  u = v
    BY DEF Distinct
  <2>1. req' = [req EXCEPT ![t] = request]
    BY DEF Begin
  <2> QED
    BY <2>1 DEF Distinct, Creates, Active, TxTypeOK
<1>3. ASSUME NEW u \in Txs \ {t} PROVE Sound(u)'
  <2>1. Keeps(u)
    BY <1>0, RestKeeps DEF TxTypeOK, Begin
  <2> QED
    BY <1>1, <2>1, KeepsSound DEF TxTypeOK
<1> QED
  BY <1>1, <1>2, <1>3

-----------------------------------------------------------------------------
(* The start of a request.                                                 *)

(* A connection that is free holds no lock and has read nothing.           *)
LEMMA FreeConnection ==
  ASSUME TxTypeOK, NEW t \in Txs, ~Active(t), Sound(t)
  PROVE  /\ pc[t] = "idle" /\ todo[t] = {} /\ mine[t] = {}
         /\ \A r \in Lockable : lock[r] # t
<1>1. pc[t] = "idle"
  BY DEF TxTypeOK
<1> QED
  BY <1>1 DEF Sound, Shape, Holding

(* The fields of a request that has begun.                                 *)
LEMMA Began ==
  ASSUME TxTypeOK, NEW t \in Txs, NEW request \in TxRequest,
         NEW statement, NEW rows, Begin(t, request, statement, rows), Sound(t)
  PROVE  /\ UNCHANGED vars
         /\ req'[t] = request /\ pc'[t] = statement /\ todo'[t] = rows
         /\ mine'[t] = {} /\ \A r \in Lockable : lock'[r] # t
         /\ Active(t)'
         /\ \A op : Asks(t, op)' <=> request.op = op
         /\ Creates(t)' <=> request.op = "create"
         /\ Applies(t)' <=> request.op \in Applying
<1>1. /\ UNCHANGED vars
      /\ req'[t] = request /\ pc'[t] = statement /\ todo'[t] = rows
      /\ mine'[t] = {} /\ \A r \in Lockable : lock'[r] # t
  BY FreeConnection DEF Begin, TxTypeOK, vars
<1>2. request # None
  BY RequestAssumption
<1> QED
  BY <1>1, <1>2 DEF Active, Asks, Creates, Applies

LEMMA SumOfNothing == itemsTotal({}) = 0
BY SumEmpty DEF itemsTotal

LEMMA StartCreateKeeps ==
  ASSUME TxInv, NEW t \in Txs, NEW p \in Payments, NEW row \in NewPayment,
         NEW items \in Requests, StartCreatePayment(t, p, row, items)
  PROVE  TxInv'
<1> DEFINE request == [op |-> "create", payment |-> p, row |-> row, items |-> items]
           statement == IF items = {} THEN "commit" ELSE "charges"
<1>1. items \in SUBSET Item
  BY DEF Requests
<1>2. request \in TxRequest
  BY <1>1 DEF TxRequest
<1>3. statement \in Statements \ {"idle"} /\ itemCharges(items) \in SUBSET Lockable
  BY <1>1 DEF Statements, Lockable, itemCharges, Item
<1>4. Begin(t, request, statement, itemCharges(items))
  BY DEF StartCreatePayment
<1>5. /\ request.op = "create" /\ request.payment = p
      /\ request.row = row /\ request.items = items
  OBVIOUS
<1>6. \A u \in Txs : Creates(u) => req[u].payment # p
  BY DEF StartCreatePayment, ReservedPayments, Creates
<1>7. Sound(t)'
  <2> HIDE DEF request
  <2>1. /\ UNCHANGED vars
        /\ req'[t] = request /\ pc'[t] = statement
        /\ todo'[t] = itemCharges(items)
        /\ mine'[t] = {} /\ \A r \in Lockable : lock'[r] # t
        /\ Active(t)' /\ Creates(t)' /\ Applies(t)'
        /\ ~Asks(t, "allocate")' /\ ~Asks(t, "voidPayment")'
        /\ ~Asks(t, "voidCharge")' /\ ~Asks(t, "voidAllocation")'
    BY <1>2, <1>4, <1>5, Began DEF TxInv, Applying
  <2>2. Shape(t)'
    BY <1>5, <2>1 DEF Shape, Allocating, itemCharges
  <2>3. Asked(t)'
    <3>1. payment' = payment
      BY <2>1 DEF vars
    <3> QED
      BY <1>5, <2>1, <3>1 DEF Asked, Requests, StartCreatePayment
  <2>4. Locked(t)'
    BY <1>5, <2>1 DEF Locked
  <2>5. Read(t)'
    <3>1. CASE items = {}
      <4>1. pay(t)' = row /\ spent(t)' = 0
        BY <1>5, <2>1 DEF pay, spent
      <4>2. row.amount \in Nat
        BY MaxAmountAssumption DEF NewPayment, Amounts
      <4>3. itemsTotal(req'[t].items) = 0
        BY <1>5, <2>1, <3>1, SumOfNothing
      <4>4. itemsTotal(req[t].items)' <= pay(t)'.amount - spent(t)'
        <5>1. itemsTotal(req[t].items)' = itemsTotal(req'[t].items)
          BY DEF itemsTotal
        <5> QED
          BY <4>1, <4>2, <4>3, <5>1
      <4> QED
        BY <1>5, <2>1, <3>1, <4>4 DEF Read
    <3>2. CASE items # {}
      BY <2>1, <3>2 DEF Read
    <3> QED
      BY <3>1, <3>2
  <2>6. Holding(t)'
    BY <2>1 DEF Holding
  <2> QED
    BY <2>2, <2>3, <2>4, <2>5, <2>6 DEF Sound
<1> HIDE DEF request, statement
<1> QED
  BY <1>2, <1>3, <1>4, <1>5, <1>6, <1>7, Begins

LEMMA StartAllocateKeeps ==
  ASSUME TxInv, NEW t \in Txs, NEW p \in Payments, NEW items \in Requests,
         StartAllocate(t, p, items)
  PROVE  TxInv'
<1> DEFINE request == [op |-> "allocate", payment |-> p, items |-> items]
<1>1. request \in TxRequest
  BY DEF TxRequest, Requests
<1>2. "payment" \in Statements \ {"idle"} /\ {p} \in SUBSET Lockable
  BY DEF Statements, Lockable
<1>3. Begin(t, request, "payment", {p})
  BY DEF StartAllocate
<1>4. request.op = "allocate" /\ request.payment = p /\ request.items = items
  OBVIOUS
<1>5. Sound(t)'
  <2> HIDE DEF request
  <2>1. /\ UNCHANGED vars
        /\ req'[t] = request /\ pc'[t] = "payment" /\ todo'[t] = {p}
        /\ mine'[t] = {} /\ \A r \in Lockable : lock'[r] # t
        /\ Active(t)' /\ ~Creates(t)' /\ Applies(t)'
        /\ Asks(t, "allocate")' /\ ~Asks(t, "voidPayment")'
        /\ ~Asks(t, "voidCharge")' /\ ~Asks(t, "voidAllocation")'
    BY <1>1, <1>3, <1>4, Began DEF TxInv, Applying
  <2>2. Shape(t)' /\ Locked(t)' /\ Read(t)' /\ Holding(t)'
    BY <1>4, <2>1 DEF Shape, Locked, Read, Holding, Allocating, Voiding
  <2>3. Asked(t)'
    BY <1>4, <2>1 DEF Asked, Requests, StartAllocate, vars
  <2> QED
    BY <2>2, <2>3 DEF Sound
<1> HIDE DEF request
<1> QED
  BY <1>1, <1>2, <1>3, <1>4, <1>5, Begins

LEMMA StartVoidPaymentKeeps ==
  ASSUME TxInv, NEW t \in Txs, NEW p \in Payments, StartVoidPayment(t, p)
  PROVE  TxInv'
<1> DEFINE request == [op |-> "voidPayment", payment |-> p]
<1>1. request \in TxRequest
  BY DEF TxRequest
<1>2. "payment" \in Statements \ {"idle"} /\ {p} \in SUBSET Lockable
  BY DEF Statements, Lockable
<1>3. Begin(t, request, "payment", {p})
  BY DEF StartVoidPayment
<1>4. request.op = "voidPayment" /\ request.payment = p
  OBVIOUS
<1>5. Sound(t)'
  <2> HIDE DEF request
  <2>1. /\ UNCHANGED vars
        /\ req'[t] = request /\ pc'[t] = "payment" /\ todo'[t] = {p}
        /\ mine'[t] = {} /\ \A r \in Lockable : lock'[r] # t
        /\ Active(t)' /\ ~Creates(t)' /\ ~Applies(t)'
        /\ ~Asks(t, "allocate")' /\ Asks(t, "voidPayment")'
        /\ ~Asks(t, "voidCharge")' /\ ~Asks(t, "voidAllocation")'
    BY <1>1, <1>3, <1>4, Began DEF TxInv, Applying
  <2>2. Shape(t)' /\ Locked(t)' /\ Read(t)' /\ Holding(t)'
    BY <1>4, <2>1 DEF Shape, Locked, Read, Holding, Allocating, Voiding
  <2>3. Asked(t)'
    BY <1>4, <2>1 DEF Asked, StartVoidPayment, vars
  <2> QED
    BY <2>2, <2>3 DEF Sound
<1> HIDE DEF request
<1> QED
  BY <1>1, <1>2, <1>3, <1>4, <1>5, Begins

LEMMA StartVoidChargeKeeps ==
  ASSUME TxInv, NEW t \in Txs, NEW c \in Charges, StartVoidCharge(t, c)
  PROVE  TxInv'
<1> DEFINE request == [op |-> "voidCharge", charge |-> c]
<1>1. request \in TxRequest
  BY DEF TxRequest
<1>2. "charges" \in Statements \ {"idle"} /\ {c} \in SUBSET Lockable
  BY DEF Statements, Lockable
<1>3. Begin(t, request, "charges", {c})
  BY DEF StartVoidCharge
<1>4. request.op = "voidCharge" /\ request.charge = c
  OBVIOUS
<1>5. Sound(t)'
  <2> HIDE DEF request
  <2>1. /\ UNCHANGED vars
        /\ req'[t] = request /\ pc'[t] = "charges" /\ todo'[t] = {c}
        /\ mine'[t] = {} /\ \A r \in Lockable : lock'[r] # t
        /\ Active(t)' /\ ~Creates(t)' /\ ~Applies(t)'
        /\ ~Asks(t, "allocate")' /\ ~Asks(t, "voidPayment")'
        /\ Asks(t, "voidCharge")' /\ ~Asks(t, "voidAllocation")'
    BY <1>1, <1>3, <1>4, Began DEF TxInv, Applying
  <2>2. Shape(t)' /\ Locked(t)' /\ Read(t)' /\ Holding(t)'
    BY <1>4, <2>1 DEF Shape, Locked, Read, Holding, Allocating, Voiding
  <2>3. Asked(t)'
    BY <1>4, <2>1 DEF Asked, StartVoidCharge, vars
  <2> QED
    BY <2>2, <2>3 DEF Sound
<1> HIDE DEF request
<1> QED
  BY <1>1, <1>2, <1>3, <1>4, <1>5, Begins

LEMMA StartVoidAllocationKeeps ==
  ASSUME TxInv, NEW t \in Txs, NEW a \in Allocations, StartVoidAllocation(t, a)
  PROVE  TxInv'
<1> DEFINE request == [op |-> "voidAllocation", allocation |-> a]
<1>1. request \in TxRequest
  BY DEF TxRequest
<1>2. "update" \in Statements \ {"idle"} /\ {} \in SUBSET Lockable
  BY DEF Statements, Lockable
<1>3. Begin(t, request, "update", {})
  BY DEF StartVoidAllocation
<1>4. request.op = "voidAllocation" /\ request.allocation = a
  OBVIOUS
<1>5. Sound(t)'
  <2> HIDE DEF request
  <2>1. /\ UNCHANGED vars
        /\ req'[t] = request /\ pc'[t] = "update" /\ todo'[t] = {}
        /\ mine'[t] = {} /\ \A r \in Lockable : lock'[r] # t
        /\ Active(t)' /\ ~Creates(t)' /\ ~Applies(t)'
        /\ ~Asks(t, "allocate")' /\ ~Asks(t, "voidPayment")'
        /\ ~Asks(t, "voidCharge")' /\ Asks(t, "voidAllocation")'
    BY <1>1, <1>3, <1>4, Began DEF TxInv, Applying
  <2>2. /\ Shape(t)' /\ Asked(t)' /\ Locked(t)' /\ Read(t)' /\ Holding(t)'
    BY <1>4, <2>1 DEF Shape, Asked, Locked, Read, Holding, Allocating, Voiding
  <2> QED
    BY <2>2 DEF Sound
<1> HIDE DEF request
<1> QED
  BY <1>1, <1>2, <1>3, <1>4, <1>5, Begins

-----------------------------------------------------------------------------
(* The statements up to the commit.                                        *)

(* The facts every statement that goes on starts from.                     *)
LEMMA OwnFields ==
  ASSUME TxInv, NEW t \in Txs, UNCHANGED vars, req' = req
  PROVE  /\ TypeOK
         /\ Shape(t) /\ Asked(t) /\ Locked(t) /\ Read(t) /\ Holding(t)
         /\ Active(t)' = Active(t)
         /\ Creates(t)' = Creates(t)
         /\ Applies(t)' = Applies(t)
         /\ \A op : Asks(t, op)' = Asks(t, op)
         /\ pay(t)' = pay(t)
         /\ spent(t)' = spent(t)
         /\ matching(t)' = matching(t)
         /\ \A i : ItemAllowed(pay(t), i)' = ItemAllowed(pay(t), i)
         /\ charge' = charge /\ payment' = payment /\ allocation' = allocation
         /\ \A p : isCountedPayment(p)' = isCountedPayment(p)
BY SameTables DEF TxInv, TxTypeOK, Sound, vars, isCountedPayment

LEMMA LockPaymentKeeps ==
  ASSUME TxInv, NEW t \in Txs, LockPayment(t)
  PROVE  TxInv'
<1>1. CASE Rollback(t)
  BY <1>1, RollsBack
<1>2. CASE ~Rollback(t)
  <2> DEFINE p == req[t].payment
             statement == IF req[t].op = "allocate" THEN "charges" ELSE "update"
             rows == IF req[t].op = "allocate" THEN itemCharges(req[t].items)
                                               ELSE {}
  <2>1. /\ Shape(t) /\ Active(t) /\ pc[t] = "payment" /\ mine[t] = {}
        /\ ~Creates(t) /\ ~Asks(t, "voidCharge") /\ ~Asks(t, "voidAllocation")
    BY DEF TxInv, TxTypeOK, Sound, Shape, LockPayment, Allocating, Voiding, Active
  <2>2. Asks(t, "allocate") \/ Asks(t, "voidPayment")
    BY <2>1, RequestFields DEF TxInv, Asks, Creates
  <2>3. p \in Payments /\ p \in Lockable
    BY <2>2, RequestFields DEF TxInv, Lockable
  <2>4. /\ UNCHANGED vars /\ req' = req
        /\ pc' = [pc EXCEPT ![t] = statement]
        /\ todo' = [todo EXCEPT ![t] = rows]
        /\ mine' = mine
        /\ lock' = [lock EXCEPT ![p] = t]
        /\ lock[p] = None
        /\ ~pay(t).voided
        /\ req[t].op = "allocate" => pay(t).status = "confirmed"
    BY <1>2 DEF LockPayment, Continue, Take, Free, vars
  <2>5. statement \in Statements \ {"idle"} /\ rows \in SUBSET Lockable
    <3>1. CASE Asks(t, "allocate")
      BY <3>1, RequestFields DEF Asks, Statements, itemCharges, Item, Lockable, TxInv
    <3>2. CASE Asks(t, "voidPayment")
      BY <3>2 DEF Asks, Statements
    <3> QED
      BY <2>2, <3>1, <3>2
  <2>6. pay(t) = payment[p]
    BY <2>2 DEF pay, Asks
  <2>7. /\ Asks(t, "allocate") => statement = "charges" /\ rows = itemCharges(req[t].items)
        /\ Asks(t, "voidPayment") => statement = "update" /\ rows = {}
    BY DEF Asks
  <2>8. mine' = [mine EXCEPT ![t] = {}]
    BY <2>1, <2>4 DEF TxInv, TxTypeOK
  <2>9. /\ pc'[t] = statement /\ todo'[t] = rows /\ mine'[t] = {}
        /\ lock'[p] = t /\ \A r \in Lockable \ {p} : lock'[r] = lock[r]
        /\ req'[t] = req[t]
    BY <2>1, <2>3, <2>4 DEF TxInv, TxTypeOK
  <2>10. Sound(t)'
    <3> HIDE DEF p, statement, rows
    <3> USE OwnFields
    <3>0. p = req[t].payment
      BY DEF p
    <3>1. Shape(t)'
      <4>1. Asks(t, "allocate") => itemCharges(req[t].items) # {}
        BY <2>4 DEF Asked, itemCharges
      <4> QED
        BY <2>1, <2>2, <2>4, <2>7, <2>9, <4>1 DEF Shape, Allocating, Voiding, Applies, Asks
    <3>2. Asked(t)'
      BY <2>1, <2>4 DEF Asked
    <3>3. Locked(t)'
      BY <2>1, <2>2, <2>4, <2>6, <2>7, <2>9, <3>0
      DEF Locked, isCountedPayment, Asks, Allocating, Voiding
    <3>4. Read(t)'
      BY <2>1, <2>2, <2>4, <2>7, <2>9 DEF Read
    <3>5. Holding(t)'
      <4>1. p \notin Charges /\ p \notin Allocations
        BY <2>3, LockableAssumption
      <4>2. \A r \in Lockable : lock[r] # t
        BY <2>1, <2>4 DEF Holding, Allocating, Voiding, Lockable
      <4> QED
        BY <2>1, <2>2, <2>4, <2>7, <2>9, <3>0, <4>1, <4>2
        DEF Holding, Allocating, Voiding
    <3> QED
      BY <3>1, <3>2, <3>3, <3>4, <3>5 DEF Sound
  <2> HIDE DEF p, statement, rows
  <2> QED
    BY <2>1, <2>3, <2>4, <2>5, <2>8, <2>10, GoesOn
<1> QED
  BY <1>1, <1>2

LEMMA LockChargeKeeps ==
  ASSUME TxInv, NEW t \in Txs, NEW c \in Charges, LockCharge(t, c)
  PROVE  TxInv'
<1>1. CASE Rollback(t)
  BY <1>1, RollsBack
<1>2. CASE ~Rollback(t)
  <2> DEFINE rest == todo[t] \ {c}
             next == IF rest # {} THEN "charges"
                     ELSE IF req[t].op = "voidCharge" THEN "update" ELSE "check"
  <2>1. /\ Shape(t) /\ Holding(t) /\ Active(t) /\ pc[t] = "charges" /\ mine[t] = {}
        /\ ~Asks(t, "voidPayment") /\ ~Asks(t, "voidAllocation")
        /\ c \in todo[t] /\ \A d \in todo[t] : c <= d
    BY DEF TxInv, TxTypeOK, Sound, Shape, LockCharge, nextCharges, Voiding, Active
  <2>2. Applies(t) \/ Asks(t, "voidCharge")
    BY <2>1, RequestFields DEF TxInv, Asks, Creates
  <2>3. c \in Lockable /\ rest \in SUBSET Lockable
    BY DEF TxInv, TxTypeOK, Lockable
  <2>4. /\ UNCHANGED vars /\ req' = req
        /\ pc' = [pc EXCEPT ![t] = next]
        /\ todo' = [todo EXCEPT ![t] = rest]
        /\ mine' = mine
        /\ lock' = [lock EXCEPT ![c] = t]
        /\ lock[c] = None
        /\ req[t].op = "voidCharge" => ~charge[c].voided
    BY <1>2, <2>1 DEF LockCharge, Continue, Take, Free, vars
  <2>5. next \in Statements \ {"idle"}
    BY DEF Statements
  <2>6. /\ rest # {} => next = "charges"
        /\ rest = {} /\ Asks(t, "voidCharge") => next = "update"
        /\ rest = {} /\ ~Asks(t, "voidCharge") => next = "check"
    BY <2>1 DEF Asks
  <2>7. mine' = [mine EXCEPT ![t] = {}]
    BY <2>1, <2>4 DEF TxInv, TxTypeOK
  <2>8. /\ pc'[t] = next /\ todo'[t] = rest /\ mine'[t] = {}
        /\ lock'[c] = t /\ \A r \in Lockable \ {c} : lock'[r] = lock[r]
        /\ req'[t] = req[t]
    BY <2>1, <2>3, <2>4 DEF TxInv, TxTypeOK
  <2>9. rest = todo[t] \ {c}
    OBVIOUS
  <2>10. Sound(t)'
    <3> HIDE DEF next, rest
    <3> USE OwnFields
    <3>0. ~(Applies(t) /\ Asks(t, "voidCharge"))
      BY DEF Applies, Asks, Applying
    <3>1. Shape(t)'
      <4>1. Asks(t, "voidCharge") => rest = {} /\ next = "update"
        BY <2>1, <2>6, <2>9 DEF Shape
      <4>2. Applies(t) => rest \subseteq itemCharges(req[t].items)
        BY <2>1, <2>9 DEF Shape
      <4>3. Applies(t) => next = IF rest = {} THEN "check" ELSE "charges"
        BY <2>6, <3>0
      <4>4. Creates(t) \/ Asks(t, "allocate") => Applies(t)
        BY DEF Creates, Asks, Applies, Applying
      <4> QED
        BY <2>1, <2>2, <2>4, <2>8, <3>0, <4>1, <4>2, <4>3, <4>4
        DEF Shape, Allocating, Voiding
    <3>2. Asked(t)'
      BY <2>1, <2>4 DEF Asked
    <3>3. Locked(t)'
      <4>1. (Applies(t) /\ pc[t] \in Allocating =>
               \A d \in itemCharges(req[t].items) \ todo[t] : lock[d] = t)'
        <5> SUFFICES ASSUME Applies(t), NEW d \in itemCharges(req[t].items) \ rest
                     PROVE  lock'[d] = t
          BY <2>4, <2>8
        <5>1. d \in Lockable
          BY RequestFields DEF itemCharges, Item, Lockable, TxInv
        <5>2. d # c => lock[d] = t
          BY <2>1, <2>9, <2>4 DEF Locked, Allocating
        <5> QED
          BY <2>8, <5>1, <5>2
      <4>2. (Asks(t, "voidCharge") /\ pc[t] \in Voiding =>
               lock[req[t].charge] = t /\ ~charge[req[t].charge].voided)'
        BY <2>1, <2>4, <2>8 DEF Shape, Asks
      <4>3. (Asks(t, "allocate") /\ pc[t] \in Allocating =>
               lock[req[t].payment] = t /\ isCountedPayment(req[t].payment))'
        BY <2>1, <2>4, <2>8, RequestFields, LockableAssumption
        DEF Locked, Allocating, Lockable, TxInv
      <4> QED
        BY <2>1, <2>4, <2>8, <4>1, <4>2, <4>3 DEF Locked
    <3>4. Read(t)'
      BY <2>1, <2>2, <2>4, <2>6, <2>8, <3>0 DEF Read
    <3>5. Holding(t)'
      <4>1. c \notin Payments /\ c \notin Allocations
        BY LockableAssumption
      <4>2. \A d \in rest : c < d
        <5>1. todo[t] \subseteq Charges
          BY <2>1, <2>2, RequestFields DEF Shape, itemCharges, Item, TxInv
        <5>2. \A d \in todo[t] : d \in Nat /\ c \in Nat
          BY <5>1, ChargeOrderAssumption
        <5> QED
          BY <2>1, <2>9, <5>2
      <4>3. Applies(t) => next \in Allocating
        BY <2>6, <3>0 DEF Allocating
      <4>4. Asks(t, "voidCharge") => next \in Voiding
        BY <2>1, <2>6, <2>9, <3>0 DEF Voiding, Shape
      <4>5. \A r \in Lockable \ {c} : lock[r] = t =>
               /\ r \in Payments => r = req[t].payment /\ Asks(t, "allocate")
               /\ r \in Charges => Applies(t) /\ \A d \in rest : r < d
               /\ r \notin Allocations
        BY <2>1, <2>9 DEF Holding, Voiding
      <4>6. Asks(t, "allocate") => next \in Allocating
        BY <4>3 DEF Asks, Applies, Applying
      <4> QED
        BY <2>1, <2>2, <2>4, <2>8, <4>1, <4>2, <4>3, <4>4, <4>5, <4>6 DEF Holding
    <3> QED
      BY <3>1, <3>2, <3>3, <3>4, <3>5 DEF Sound
  <2> HIDE DEF rest, next
  <2> QED
    BY <2>1, <2>3, <2>4, <2>5, <2>7, <2>10, GoesOn
<1> QED
  BY <1>1, <1>2

LEMMA OnlyApplying ==
  ASSUME TxInv, NEW t \in Txs, pc[t] \in {"check", "free"}
  PROVE  Applies(t)
<1>1. Active(t) /\ Shape(t)
  BY DEF TxInv, TxTypeOK, Sound
<1>2. /\ ~Asks(t, "voidPayment") /\ ~Asks(t, "voidCharge")
      /\ ~Asks(t, "voidAllocation")
  BY <1>1 DEF Shape, Voiding
<1> QED
  BY <1>1, <1>2, RequestFields DEF Asks, Creates, TxInv

(* The checks take no lock; the statement that follows has read what they  *)
(* found.                                                                  *)
LEMMA CheckKeeps ==
  ASSUME TxInv, NEW t \in Txs, NEW next \in {"free", "commit"},
         pc[t] \in {"check", "free"}, next = "free" <=> pc[t] = "check",
         Continue(t, next, {}), UNCHANGED lock, Applies(t),
         \A i \in req[t].items : ItemAllowed(pay(t), i),
         next = "commit" => itemsTotal(req[t].items) <= pay(t).amount - spent(t)
  PROVE  TxInv'
<1>1. /\ UNCHANGED vars /\ req' = req /\ Active(t) /\ mine' = mine /\ lock' = lock
      /\ pc' = [pc EXCEPT ![t] = next] /\ todo' = [todo EXCEPT ![t] = {}]
      /\ next \in Statements \ {"idle"} /\ {} \in SUBSET Lockable
  BY DEF Continue, vars, Applies, Statements
<1> USE OwnFields
<1>2. mine[t] = {} /\ todo[t] = {}
  BY <1>1 DEF Shape
<1>3. mine' = [mine EXCEPT ![t] = {}]
  BY <1>1, <1>2 DEF TxInv, TxTypeOK
<1>4. /\ pc'[t] = next /\ todo'[t] = {} /\ mine'[t] = {} /\ req'[t] = req[t]
  BY <1>1, <1>2 DEF TxInv, TxTypeOK
<1>5. ~Asks(t, "voidPayment") /\ ~Asks(t, "voidCharge") /\ ~Asks(t, "voidAllocation")
  BY DEF Asks, Applies, Applying
<1>6. Sound(t)'
  <2>1. Shape(t)'
    BY <1>1, <1>2, <1>4, <1>5 DEF Shape, Allocating
  <2>2. Asked(t)'
    BY <1>1, <1>4 DEF Asked, Shape, Allocating
  <2>3. Locked(t)'
    BY <1>1, <1>2, <1>4, <1>5 DEF Locked, Allocating
  <2>4. Read(t)'
    <3>1. itemsTotal(req[t].items)' = itemsTotal(req[t].items)
      BY <1>1 DEF itemsTotal
    <3> QED
      BY <1>1, <1>4, <1>5, <3>1 DEF Read
  <2>5. Holding(t)'
    BY <1>1, <1>2, <1>4, <1>5 DEF Holding, Allocating
  <2> QED
    BY <2>1, <2>2, <2>3, <2>4, <2>5 DEF Sound
<1> QED
  BY <1>1, <1>3, <1>6, GoesOn

LEMMA CheckChargesKeeps ==
  ASSUME TxInv, NEW t \in Txs, CheckCharges(t)
  PROVE  TxInv'
<1>1. CASE Rollback(t)
  BY <1>1, RollsBack
<1>2. CASE ~Rollback(t)
  <2>1. pc[t] = "check" /\ Applies(t)
    BY OnlyApplying DEF CheckCharges
  <2> QED
    BY <1>2, <2>1, CheckKeeps DEF CheckCharges
<1> QED
  BY <1>1, <1>2

LEMMA CheckFreeKeeps ==
  ASSUME TxInv, NEW t \in Txs, CheckFree(t)
  PROVE  TxInv'
<1>1. CASE Rollback(t)
  BY <1>1, RollsBack
<1>2. CASE ~Rollback(t)
  <2>1. pc[t] = "free" /\ Applies(t)
    BY OnlyApplying DEF CheckFree
  <2>2. \A i \in req[t].items : ItemAllowed(pay(t), i)
    BY <2>1 DEF TxInv, Sound, Read
  <2> QED
    BY <1>2, <2>1, <2>2, CheckKeeps DEF CheckFree
<1> QED
  BY <1>1, <1>2

(* The statements of updateMany belong to the voids.                       *)
LEMMA OnlyVoiding ==
  ASSUME TxInv, NEW t \in Txs, pc[t] \in {"update", "allocations"}
  PROVE  /\ Active(t) /\ ~Applies(t) /\ ~Creates(t) /\ ~Asks(t, "allocate")
         /\ \/ Asks(t, "voidPayment") /\ req[t].payment \in Payments
            \/ Asks(t, "voidCharge") /\ req[t].charge \in Charges
            \/ Asks(t, "voidAllocation") /\ req[t].allocation \in Allocations
<1>1. Active(t) /\ Shape(t)
  BY DEF TxInv, TxTypeOK, Sound
<1>2. ~Creates(t) /\ ~Asks(t, "allocate")
  BY <1>1 DEF Shape, Allocating
<1> QED
  BY <1>1, <1>2, RequestFields DEF Asks, Creates, TxInv

(* The allocations a void works on, whichever it is.                       *)
LEMMA MatchingRows ==
  ASSUME TxInv, NEW t \in Txs, pc[t] \in {"update", "allocations"}
  PROVE  /\ matching(t) \subseteq NotVoided(allocation)
         /\ matching(t) \subseteq Allocations
         /\ matching(t) \subseteq Rows(allocation)
<1>1. matching(t) \subseteq NotVoided(allocation)
  BY OnlyVoiding DEF matching, ofPayment, ofCharge
<1> QED
  BY <1>1, RowTypes DEF TxInv, TxTypeOK, NotVoided

LEMMA BeginUpdateKeeps ==
  ASSUME TxInv, NEW t \in Txs, BeginUpdate(t)
  PROVE  TxInv'
<1>1. CASE Rollback(t)
  BY <1>1, RollsBack
<1>2. CASE ~Rollback(t)
  <2> DEFINE rows == matching(t)
             next == IF rows = {} THEN "commit" ELSE "allocations"
  <2>1. /\ pc[t] = "update" /\ mine[t] = {}
        /\ UNCHANGED vars /\ req' = req /\ mine' = mine /\ lock' = lock
        /\ pc' = [pc EXCEPT ![t] = next]
        /\ todo' = [todo EXCEPT ![t] = rows]
        /\ rows # {} \/ ~Asks(t, "voidAllocation")
    BY <1>2 DEF BeginUpdate, Continue, vars, Asks, TxInv, Sound, Shape
  <2>2. /\ Active(t) /\ ~Applies(t) /\ ~Creates(t) /\ ~Asks(t, "allocate")
        /\ rows \subseteq Allocations /\ rows \subseteq Rows(allocation)
        /\ rows \in SUBSET Lockable
    BY <2>1, OnlyVoiding, MatchingRows DEF Lockable
  <2>3. next \in Statements \ {"idle"}
    BY DEF Statements
  <2>4. mine' = [mine EXCEPT ![t] = {}]
    BY <2>1 DEF TxInv, TxTypeOK
  <2>5. /\ pc'[t] = next /\ todo'[t] = rows /\ mine'[t] = {} /\ req'[t] = req[t]
        /\ next = IF rows = {} THEN "commit" ELSE "allocations"
        /\ rows = matching(t)
    BY <2>1 DEF TxInv, TxTypeOK
  <2>6. Sound(t)'
    <3> HIDE DEF rows, next
    <3> USE OwnFields
    <3>1. Shape(t)'
      <4>1. Asks(t, "voidAllocation") => rows = {req[t].allocation}
        BY <2>1, <2>5 DEF matching, Asks
      <4> QED
        BY <2>1, <2>2, <2>5, <4>1 DEF Shape, Voiding
    <3>2. Asked(t)' /\ Locked(t)'
      BY <2>1, <2>2, <2>5 DEF Asked, Locked, Voiding
    <3>3. Read(t)'
      BY <2>1, <2>2, <2>5 DEF Read
    <3>4. Holding(t)'
      BY <2>1, <2>2, <2>5 DEF Holding, Voiding
    <3> QED
      BY <3>1, <3>2, <3>3, <3>4 DEF Sound
  <2> HIDE DEF rows, next
  <2> QED
    BY <2>1, <2>2, <2>3, <2>4, <2>6, GoesOn
<1> QED
  BY <1>1, <1>2

LEMMA UpdateAllocationKeeps ==
  ASSUME TxInv, NEW t \in Txs, NEW a \in Allocations, UpdateAllocation(t, a)
  PROVE  TxInv'
<1>1. CASE Rollback(t)
  BY <1>1, RollsBack
<1>2. CASE ~Rollback(t)
  <2> DEFINE rest == todo[t] \ {a}
             done == IF a \in NotVoided(allocation) THEN mine[t] \cup {a} ELSE mine[t]
             next == IF rest = {} THEN "commit" ELSE "allocations"
  <2>1. /\ pc[t] = "allocations" /\ a \in todo[t]
        /\ UNCHANGED vars /\ req' = req
        /\ pc' = [pc EXCEPT ![t] = next]
        /\ todo' = [todo EXCEPT ![t] = rest]
        /\ mine' = [mine EXCEPT ![t] = done]
        /\ lock' = [lock EXCEPT ![a] = t]
        /\ lock[a] = None
        /\ done # {} \/ ~Asks(t, "voidAllocation")
    <3>1. pc' = [pc EXCEPT ![t] = IF rest = {} THEN "commit" ELSE @]
      BY <1>2 DEF UpdateAllocation
    <3>2. pc[t] = "allocations"
      BY <1>2 DEF UpdateAllocation
    <3>3. pc' = [pc EXCEPT ![t] = next]
      BY <3>1, <3>2
    <3> QED
      BY <1>2, <3>2, <3>3 DEF UpdateAllocation, Take, Free, vars, Asks
  <2>2. /\ Active(t) /\ ~Applies(t) /\ ~Creates(t) /\ ~Asks(t, "allocate")
        /\ rest \in SUBSET Lockable /\ a \in Lockable /\ done \in SUBSET Allocations
    BY <2>1, OnlyVoiding DEF Lockable, TxInv, TxTypeOK
  <2>3. next \in Statements \ {"idle"}
    BY DEF Statements
  <2>4. /\ pc'[t] = next /\ todo'[t] = rest /\ mine'[t] = done /\ req'[t] = req[t]
        /\ lock'[a] = t /\ \A r \in Lockable \ {a} : lock'[r] = lock[r]
        /\ next = IF rest = {} THEN "commit" ELSE "allocations"
        /\ rest = todo[t] \ {a}
        /\ done = IF a \in NotVoided(allocation) THEN mine[t] \cup {a} ELSE mine[t]
    BY <2>1, <2>2 DEF TxInv, TxTypeOK
  <2>5. Sound(t)'
    <3> HIDE DEF rest, done, next
    <3> USE OwnFields
    <3>1. Shape(t)'
      BY <2>1, <2>2, <2>4 DEF Shape, Voiding
    <3>2. Asked(t)'
      BY <2>1, <2>2, <2>4 DEF Asked
    <3>3. Locked(t)'
      <4>1. a \notin Payments /\ a \notin Charges
        BY LockableAssumption
      <4>2. \A b \in mine[t] : b \in Lockable
        BY DEF TxInv, TxTypeOK, Lockable
      <4>3. (\A b \in mine[t] : lock[b] = t /\ b \in NotVoided(allocation))'
        BY <2>1, <2>4, <4>2 DEF Locked
      <4>4. (Asks(t, "voidPayment") /\ pc[t] \in Voiding =>
               lock[req[t].payment] = t /\ ~payment[req[t].payment].voided)'
        BY <2>1, <2>4, <4>1, RequestFields DEF Locked, Voiding, TxInv, Lockable
      <4>5. (Asks(t, "voidCharge") /\ pc[t] \in Voiding =>
               lock[req[t].charge] = t /\ ~charge[req[t].charge].voided)'
        BY <2>1, <2>4, <4>1, RequestFields DEF Locked, Voiding, TxInv, Lockable
      <4> QED
        BY <2>1, <2>2, <4>3, <4>4, <4>5 DEF Locked
    <3>4. Read(t)'
      <4>1. /\ mine[t] \subseteq matching(t)
            /\ matching(t) \subseteq mine[t] \cup todo[t]
            /\ todo[t] \subseteq Rows(allocation)
            /\ todo[t] \cap NotVoided(allocation) \subseteq matching(t)
            /\ matching(t) \subseteq NotVoided(allocation)
        BY <2>1, <2>2, MatchingRows DEF Read
      <4>2. Asks(t, "voidAllocation") => rest = {} /\ mine[t] = {}
        BY <2>1, <2>4 DEF Shape, Read
      <4> QED
        BY <2>1, <2>2, <2>4, <4>1, <4>2 DEF Read
    <3>5. Holding(t)'
      <4>1. a \notin Payments /\ a \notin Charges
        BY LockableAssumption
      <4>2. Asks(t, "voidAllocation") => rest = {}
        BY <2>1, <2>4 DEF Shape
      <4> QED
        BY <2>1, <2>2, <2>4, <4>1, <4>2 DEF Holding, Voiding
    <3> QED
      BY <3>1, <3>2, <3>3, <3>4, <3>5 DEF Sound
  <2> HIDE DEF rest, done, next
  <2> QED
    BY <2>1, <2>2, <2>3, <2>5, GoesOn
<1> QED
  BY <1>1, <1>2

-----------------------------------------------------------------------------
(* The commit of applyAllocations.                                         *)

(* The rows that are inserted stand one for one for the lines, and add up  *)
(* to the same amount.                                                     *)
LEMMA InsertedRows ==
  ASSUME TypeOK, NEW items \in SUBSET Item, NEW rows \in Insertions(items)
  PROVE  /\ rows \in ItemSets
         /\ DOMAIN rows \subseteq Allocations
         /\ DOMAIN rows \cap Rows(allocation) = {}
         /\ \A a \in DOMAIN rows : rows[a] \in items
         /\ \A a, b \in DOMAIN rows : rows[a] = rows[b] => a = b
         /\ items = {} <=> DOMAIN rows = {}
         /\ sumMoney(DOMAIN rows, ItemAmounts(rows)) = itemsTotal(items)
<1>1. /\ rows \in ItemSets
      /\ {rows[a] : a \in DOMAIN rows} = items
      /\ Cardinality(DOMAIN rows) = Cardinality(items)
  BY DEF Insertions
<1>2. PICK ids \in SUBSET (Allocations \ Rows(allocation)) : rows \in [ids -> Item]
  BY <1>1 DEF ItemSets
<1>3. /\ DOMAIN rows \subseteq Allocations
      /\ DOMAIN rows \cap Rows(allocation) = {}
      /\ rows \in [DOMAIN rows -> items]
      /\ \A i \in items : \E a \in DOMAIN rows : rows[a] = i
  BY <1>1, <1>2
<1>4. IsFiniteSet(DOMAIN rows)
  BY <1>3, IdsAssumption, FS_Subset
<1>5. rows \in Surjection(DOMAIN rows, items)
  BY <1>3 DEF Surjection
<1>6. rows \in Injection(DOMAIN rows, items)
  BY <1>1, <1>4, <1>5, FS_Surjection
<1>7. \A a, b \in DOMAIN rows : rows[a] = rows[b] => a = b
  BY <1>6 DEF Injection, IsInjective
<1>8. sumMoney(DOMAIN rows, ItemAmounts(rows)) = itemsTotal(items)
  <2> DEFINE U == Units(DOMAIN rows, ItemAmounts(rows))
             V == Units(items, [i \in items |-> i.amount])
             g == [u \in U |-> <<rows[u[1]], u[2]>>]
  <2>1. g \in [U -> V]
    BY <1>3 DEF Units, ItemAmounts
  <2>2. \A u, v \in U : g[u] = g[v] => u = v
    BY <1>7 DEF Units
  <2>3. ASSUME NEW v \in V
        PROVE  \E u \in U : g[u] = v
    <3>1. v[1] \in items /\ v[2] \in 1..MaxAmount /\ v[2] <= v[1].amount
          /\ v = <<v[1], v[2]>>
      BY DEF Units
    <3>2. PICK a \in DOMAIN rows : rows[a] = v[1]
      BY <1>3, <3>1
    <3>3. <<a, v[2]>> \in U
      BY <3>1, <3>2 DEF Units, ItemAmounts
    <3>4. g[<<a, v[2]>>] = v
      BY <3>1, <3>2, <3>3
    <3> QED
      BY <3>3, <3>4
  <2>4. g \in Bijection(U, V)
    <3> HIDE DEF g, U, V
    <3> QED
      BY <2>1, <2>2, <2>3 DEF Bijection, Injection, IsInjective, Surjection
  <2>5. IsFiniteSet(U)
    BY <1>4, SumType
  <2>6. Cardinality(V) = Cardinality(U)
    <3> HIDE DEF g, U, V
    <3> QED
      BY <2>4, <2>5, FS_Bijection DEF ExistsBijection
  <2> QED
    BY <2>6 DEF sumMoney, itemsTotal
<1> QED
  BY <1>1, <1>3, <1>7, <1>8

(* What the transaction knows when it commits is what the atomic operation *)
(* requires.                                                               *)
LEMMA MayCommit ==
  ASSUME TxInv, NEW t \in Txs, Applies(t), pc[t] = "commit",
         NEW rows \in Insertions(req[t].items), req[t].items # {}
  PROVE  MayApply(pay(t), pay(t).amount - spent(t), rows)
<1>1. req[t].items \in SUBSET Item
  BY RequestFields DEF TxInv
<1>2. /\ \A a \in DOMAIN rows : rows[a] \in req[t].items
      /\ \A a, b \in DOMAIN rows : rows[a] = rows[b] => a = b
      /\ sumMoney(DOMAIN rows, ItemAmounts(rows)) = itemsTotal(req[t].items)
  BY <1>1, InsertedRows DEF TxInv, TxTypeOK
<1>3. /\ \A i, j \in req[t].items : i.charge = j.charge => i = j
      /\ \A i \in req[t].items : i.amount > 0
      /\ \A i \in req[t].items : ItemAllowed(pay(t), i)
      /\ itemsTotal(req[t].items) <= pay(t).amount - spent(t)
  BY DEF TxInv, Sound, Asked, Read
<1>4. ~pay(t).voided /\ pay(t).status = "confirmed"
  <2>1. CASE Creates(t)
    BY <2>1, RequestFields, NewRows DEF pay, Creates, TxInv
  <2>2. CASE Asks(t, "allocate")
    BY <2>2 DEF TxInv, Sound, Locked, pay, Asks, Allocating, isCountedPayment
  <2> QED
    BY <2>1, <2>2, RequestFields DEF TxInv
<1> QED
  BY <1>2, <1>3, <1>4 DEF MayApply

(* CommitApply is PaymentsService.create or allocate.                      *)
LEMMA CommitApplyIs ==
  ASSUME TxInv, NEW t \in Txs, CommitApply(t)
  PROVE  \E p \in Payments, rows \in Insertions(req[t].items) :
           /\ rows \in ItemSets
           /\ p = req[t].payment
           /\ Applies(t)
           /\ allocation' = WithAllocations(p, rows)
           /\ charge' = charge
           /\ \/ \E row \in NewPayment : CreatePayment(p, row, rows) /\ Creates(t)
              \/ Allocate(p, rows) /\ Asks(t, "allocate")
<1>1. pc[t] = "commit" /\ Applies(t)
  BY DEF CommitApply, Applies, TxInv, TxTypeOK
<1>2. req[t].items \in SUBSET Item /\ req[t].payment \in Payments
  BY <1>1, RequestFields DEF TxInv
<1>3. PICK rows \in Insertions(req[t].items) :
        allocation' = WithAllocations(req[t].payment, rows)
  BY DEF CommitApply
<1>4. rows \in ItemSets /\ (req[t].items = {} <=> DOMAIN rows = {})
  BY <1>2, InsertedRows DEF TxInv, TxTypeOK
<1>5. req[t].items # {} => MayApply(pay(t), pay(t).amount - spent(t), rows)
  BY <1>1, MayCommit
<1>6. CASE Creates(t)
  <2>1. /\ req[t].row \in NewPayment
        /\ payment[req[t].payment] = None
        /\ req[t].row.amount > 0
        /\ payment' = [payment EXCEPT ![req[t].payment] = req[t].row]
        /\ charge' = charge
    BY <1>6, RequestFields DEF TxInv, Sound, Asked, CommitApply, Creates
  <2>2. /\ pay(t) = req[t].row
        /\ spent(t) = 0
        /\ pay(t).amount - spent(t) = req[t].row.amount
    <3>1. pay(t) = req[t].row /\ spent(t) = 0
      BY <1>6 DEF pay, spent, Creates
    <3>2. req[t].row.amount \in Int
      <4>1. req[t].row.amount \in Amounts
        BY <2>1 DEF NewPayment
      <4> QED
        BY <4>1, MaxAmountAssumption DEF Amounts
    <3> QED
      BY <3>1, <3>2
  <2>3. CreatePayment(req[t].payment, req[t].row, rows)
    BY <1>3, <1>4, <1>5, <2>1, <2>2 DEF CreatePayment
  <2> QED
    BY <1>1, <1>2, <1>3, <1>4, <1>6, <2>1, <2>3
<1>7. CASE Asks(t, "allocate")
  <2>1. /\ payment[req[t].payment] # None /\ req[t].items # {}
        /\ payment' = payment /\ charge' = charge
    BY <1>7 DEF TxInv, Sound, Asked, CommitApply, Asks
  <2>2. pay(t).amount - spent(t) = paymentFree(req[t].payment)
        /\ pay(t) = payment[req[t].payment]
    BY <1>7 DEF pay, spent, Asks, paymentFree
  <2>3. Allocate(req[t].payment, rows)
    BY <1>3, <1>4, <1>5, <2>1, <2>2 DEF Allocate
  <2> QED
    BY <1>1, <1>2, <1>3, <1>4, <1>7, <2>1, <2>3
<1> QED
  BY <1>1, <1>6, <1>7, RequestFields DEF TxInv

LEMMA CommitApplyImplements ==
  ASSUME TxInv, NEW t \in Txs, CommitApply(t)
  PROVE  Next
BY CommitApplyIs DEF Next

LEMMA CommitApplyKeeps ==
  ASSUME TxInv, NEW t \in Txs, CommitApply(t)
  PROVE  TxInv'
<1>1. PICK p \in Payments, rows \in Insertions(req[t].items) :
        /\ rows \in ItemSets
        /\ p = req[t].payment
        /\ Applies(t)
        /\ allocation' = WithAllocations(p, rows)
        /\ charge' = charge
        /\ \/ \E row \in NewPayment : CreatePayment(p, row, rows) /\ Creates(t)
           \/ Allocate(p, rows) /\ Asks(t, "allocate")
  BY CommitApplyIs
<1>2. TypeOK /\ TypeOK'
  BY CommitApplyImplements, NextType DEF TxInv, TxTypeOK
<1>3. req[t].items \in SUBSET Item /\ pc[t] = "commit" /\ End(t)
  BY <1>1, RequestFields DEF TxInv, CommitApply
<1>4. /\ DOMAIN rows \cap Rows(allocation) = {}
      /\ \A a \in DOMAIN rows : rows[a] \in req[t].items
  BY <1>2, <1>3, InsertedRows
<1>5. /\ \A a \in Rows(allocation) : allocation'[a] = allocation[a]
      /\ \A a \in NotVoided(allocation') \ Rows(allocation) :
           /\ allocation'[a].payment = p
           /\ allocation'[a].charge \in itemCharges(req[t].items)
  <2>1. \A a \in Rows(allocation) : allocation'[a] = allocation[a]
    BY <1>1, <1>2, <1>4 DEF WithAllocations, Rows, TypeOK
  <2>2. \A a \in NotVoided(allocation') \ Rows(allocation) : a \in DOMAIN rows
    BY <1>1, <1>2, Applied DEF NotVoided
  <2> QED
    BY <1>1, <1>2, <1>4, <2>1, <2>2, Applied DEF itemCharges
<1>6. ASSUME NEW u \in Txs \ {t} PROVE Keeps(u)
  <2>1. /\ req'[u] = req[u] /\ pc'[u] = pc[u]
        /\ todo'[u] = todo[u] /\ mine'[u] = mine[u]
        /\ \A r \in Lockable : lock'[r] = u <=> lock[r] = u
    BY <1>2, <1>3, Ends DEF TxInv
  <2>2. \A q \in Payments :
          /\ payment[q] # None => payment'[q] = payment[q]
          /\ Creates(u) /\ req[u].payment = q => payment'[q] = payment[q]
    <3>1. payment' = payment \/ \E row : Creates(t) /\ payment[p] = None
                                   /\ payment' = [payment EXCEPT ![p] = row]
      BY <1>1 DEF CreatePayment, Allocate
    <3>2. Creates(t) /\ Creates(u) => req[u].payment # p
      BY <1>1 DEF TxInv, Distinct
    <3> QED
      BY <1>2, <3>1, <3>2 DEF TypeOK
  <2>3. \A c \in itemCharges(req[t].items) : lock[c] = t
    BY <1>1, <1>3 DEF TxInv, Sound, Locked, Shape, Allocating
  <2>4. lock[p] # u
    <3>1. CASE Creates(t)
      <4>1. payment[p] = None
        BY <1>1, <3>1 DEF TxInv, Sound, Asked
      <4>2. Asked(u) /\ Holding(u)
        BY DEF TxInv, Sound
      <4> QED
        BY <1>1, <4>1, <4>2 DEF Holding, Asked, Lockable
    <3>2. CASE Asks(t, "allocate")
      BY <1>1, <1>3, <3>2 DEF TxInv, Sound, Locked, Allocating
    <3> QED
      BY <1>1, <3>1, <3>2
  <2>5. \A a \in NotVoided(allocation') \ Rows(allocation) :
          /\ lock[allocation'[a].charge] # u
          /\ lock[allocation'[a].payment] # u
    BY <1>5, <2>3, <2>4
  <2>6. \A a \in Rows(allocation) :
          /\ a \in Rows(allocation')
          /\ a \in NotVoided(allocation') => a \in NotVoided(allocation)
          /\ a \in NotVoided(allocation) => a \in NotVoided(allocation')
    BY <1>2, <1>5 DEF Rows, NotVoided, TypeOK
  <2> QED
    BY <1>1, <1>5, <2>1, <2>2, <2>5, <2>6 DEF Keeps
<1>7. \A u \in Txs \ {t} : Sound(u)'
  BY <1>2, <1>6, KeepsSound DEF TxInv
<1> QED
  BY <1>2, <1>3, <1>7, Ends DEF TxInv

-----------------------------------------------------------------------------
(* The commit of a void.                                                   *)

(* CommitVoid is the void of a payment, of a charge or of an allocation,   *)
(* and voids rows of the transaction alone.                                *)
LEMMA CommitVoidIs ==
  ASSUME TxInv, NEW t \in Txs, CommitVoid(t)
  PROVE  /\ \/ \E p \in Payments : VoidPayment(p)
            \/ \E c \in Charges : VoidCharge(c)
            \/ \E a \in Allocations : VoidAllocation(a)
         /\ allocation' = VoidRows(allocation, mine[t])
         /\ mine[t] \subseteq NotVoided(allocation)
         /\ \A a \in mine[t] : lock[a] = t
         /\ \/ payment' = payment
            \/ \E p \in Payments : /\ payment' = VoidRows(payment, {p})
                                   /\ payment[p] # None /\ lock[p] = t
         /\ \/ charge' = charge
            \/ \E c \in Charges : /\ charge' = VoidRows(charge, {c})
                                  /\ charge[c] # None /\ lock[c] = t
<1>1. /\ pc[t] = "commit" /\ Active(t) /\ ~Applies(t)
      /\ Shape(t) /\ Asked(t) /\ Locked(t) /\ Read(t)
  BY DEF CommitVoid, Applies, TxInv, TxTypeOK, Sound
<1>2. /\ mine[t] \subseteq matching(t) /\ matching(t) \subseteq mine[t] \cup todo[t]
      /\ todo[t] = {}
  BY <1>1 DEF Read, Shape
<1>3. mine[t] = matching(t)
  BY <1>2
<1>4. /\ allocation' = VoidRows(allocation, mine[t])
      /\ mine[t] \subseteq NotVoided(allocation)
      /\ \A a \in mine[t] : lock[a] = t
  BY <1>1 DEF CommitVoid, Locked
<1>5. CASE Asks(t, "voidPayment")
  <2> DEFINE p == req[t].payment
  <2>1. p \in Payments /\ payment[p] # None /\ ~payment[p].voided /\ lock[p] = t
    BY <1>1, <1>5, RequestFields DEF Asked, Locked, Voiding, TxInv
  <2>2. payment' = VoidRows(payment, {p}) /\ charge' = charge
    BY <1>5 DEF CommitVoid, Asks
  <2>3. matching(t) = ofPayment(p)
    BY <1>5 DEF matching, Asks
  <2>4. VoidPayment(p)
    BY <1>3, <1>4, <2>1, <2>2, <2>3 DEF VoidPayment
  <2> QED
    BY <1>4, <2>1, <2>2, <2>4
<1>6. CASE Asks(t, "voidCharge")
  <2> DEFINE c == req[t].charge
  <2>1. c \in Charges /\ charge[c] # None /\ ~charge[c].voided /\ lock[c] = t
    BY <1>1, <1>6, RequestFields DEF Asked, Locked, Voiding, TxInv
  <2>2. charge' = VoidRows(charge, {c}) /\ payment' = payment
    BY <1>6 DEF CommitVoid, Asks
  <2>3. matching(t) = ofCharge(c)
    BY <1>6 DEF matching, Asks
  <2>4. VoidCharge(c)
    BY <1>3, <1>4, <2>1, <2>2, <2>3 DEF VoidCharge
  <2> QED
    BY <1>4, <2>1, <2>2, <2>4
<1>7. CASE Asks(t, "voidAllocation")
  <2> DEFINE a == req[t].allocation
  <2>1. a \in Allocations /\ mine[t] # {}
    BY <1>1, <1>7, RequestFields DEF Read, TxInv
  <2>2. matching(t) = {a} \cap NotVoided(allocation)
    BY <1>7 DEF matching, Asks
  <2>3. mine[t] = {a} /\ a \in NotVoided(allocation)
    BY <1>3, <2>1, <2>2
  <2>4. payment' = payment /\ charge' = charge
    BY <1>7 DEF CommitVoid, Asks
  <2>5. VoidAllocation(a)
    BY <1>4, <2>3, <2>4 DEF VoidAllocation, NotVoided, Rows
  <2> QED
    BY <1>4, <2>1, <2>4, <2>5
<1> QED
  BY <1>1, <1>5, <1>6, <1>7, RequestFields DEF TxInv, Asks, Applies, Applying

LEMMA CommitVoidImplements ==
  ASSUME TxInv, NEW t \in Txs, CommitVoid(t)
  PROVE  Next
BY CommitVoidIs DEF Next

LEMMA CommitVoidKeeps ==
  ASSUME TxInv, NEW t \in Txs, CommitVoid(t)
  PROVE  TxInv'
<1>1. TypeOK /\ TypeOK'
  BY CommitVoidImplements, NextType DEF TxInv, TxTypeOK
<1>2. End(t)
  BY DEF CommitVoid
<1>3. ASSUME NEW u \in Txs \ {t} PROVE Keeps(u)
  <2>1. /\ req'[u] = req[u] /\ pc'[u] = pc[u]
        /\ todo'[u] = todo[u] /\ mine'[u] = mine[u]
        /\ \A r \in Lockable : lock'[r] = u <=> lock[r] = u
    BY <1>1, <1>2, Ends DEF TxInv
  <2>2. \A p \in Payments :
          /\ payment[p] # None => payment'[p] # None
          /\ lock[p] = u /\ payment[p] # None => payment'[p] = payment[p]
          /\ payment[p] = None => payment'[p] = payment[p]
    <3>1. CASE payment' = payment
      BY <3>1
    <3>2. CASE payment' # payment
      <4>1. PICK q \in Payments : /\ payment' = VoidRows(payment, {q})
                                  /\ payment[q] # None /\ lock[q] = t
        BY <3>2, CommitVoidIs
      <4>2. \A p \in Payments \ {q} : payment'[p] = payment[p]
        BY <1>1, <4>1 DEF VoidRows, TypeOK
      <4>3. payment'[q] # None
        BY <1>1, <4>1, NoneAssumption DEF VoidRows, TypeOK, PaymentRow
      <4> QED
        BY <4>1, <4>2, <4>3
    <3> QED
      BY <3>1, <3>2
  <2>3. \A c \in Charges :
          /\ charge[c] # None => charge'[c] # None
          /\ lock[c] = u /\ charge[c] # None => charge'[c] = charge[c]
    <3>1. CASE charge' = charge
      BY <3>1
    <3>2. CASE charge' # charge
      <4>1. PICK d \in Charges : /\ charge' = VoidRows(charge, {d})
                                 /\ charge[d] # None /\ lock[d] = t
        BY <3>2, CommitVoidIs
      <4>2. \A c \in Charges \ {d} : charge'[c] = charge[c]
        BY <1>1, <4>1 DEF VoidRows, TypeOK
      <4>3. charge'[d] # None
        BY <1>1, <4>1, NoneAssumption DEF VoidRows, TypeOK, ChargeRow
      <4> QED
        BY <4>1, <4>2, <4>3
    <3> QED
      BY <3>1, <3>2
  <2>4. /\ mine[t] \in SUBSET Rows(allocation)
        /\ allocation' = VoidRows(allocation, mine[t])
        /\ \A a \in mine[t] : lock[a] # u
    BY CommitVoidIs DEF NotVoided
  <2>5. /\ NotVoided(allocation') = NotVoided(allocation) \ mine[t]
        /\ \A a \in NotVoided(allocation') : allocation'[a] = allocation[a]
    BY <1>1, <2>4, VoidRowsActive
  <2>6. \A a \in Rows(allocation) : a \in Rows(allocation')
    BY <1>1, <2>4, NoneAssumption DEF VoidRows, Rows, TypeOK, AllocationRow
  <2>7. NotVoided(allocation') \subseteq Rows(allocation)
    BY <2>5 DEF NotVoided
  <2>8. Creates(u) => payment[req[u].payment] = None
    BY DEF TxInv, Sound, Asked
  <2> QED
    BY <2>1, <2>2, <2>3, <2>4, <2>5, <2>6, <2>7, <2>8 DEF Keeps
<1>4. \A u \in Txs \ {t} : Sound(u)'
  BY <1>1, <1>3, KeepsSound DEF TxInv
<1> QED
  BY <1>1, <1>2, <1>4, Ends DEF TxInv

LEMMA InsertChargeKeeps ==
  ASSUME TxInv, NEW c \in Charges, NEW row \in NewCharge, InsertCharge(c, row)
  PROVE  TxInv' /\ Next
<1>1. Next
  BY DEF InsertCharge, Next
<1>2. TypeOK /\ TypeOK'
  BY <1>1, NextType DEF TxInv, TxTypeOK
<1>3. ASSUME NEW u \in Txs PROVE Keeps(u)
  <2>1. row # None
    BY NewRows, NoneAssumption
  <2>2. /\ charge[c] = None /\ charge' = [charge EXCEPT ![c] = row]
        /\ payment' = payment /\ allocation' = allocation
        /\ UNCHANGED <<req, pc, todo, mine, lock>>
    BY DEF InsertCharge, CreateCharge
  <2> QED
    BY <1>2, <2>1, <2>2 DEF Keeps, TypeOK, NotVoided
<1>4. \A u \in Txs : Sound(u)'
  BY <1>2, <1>3, KeepsSound DEF TxInv
<1>5. TxTypeOK' /\ Distinct'
  BY <1>2 DEF TxInv, InsertCharge, TxTypeOK, Distinct, Active, Creates
<1> QED
  BY <1>1, <1>4, <1>5 DEF TxInv

-----------------------------------------------------------------------------
(* Every step keeps the invariant and is a step of the ledger or none.     *)

LEMMA InitTxInv == TxInit => TxInv
<1> SUFFICES ASSUME TxInit PROVE TxInv
  OBVIOUS
<1> USE TxsAssumption
<1>1. TypeOK
  BY InitType DEF TxInit
<1>2. TxTypeOK
  BY <1>1 DEF TxInit, TxTypeOK, Statements, Active
<1>3. ASSUME NEW t \in Txs PROVE Sound(t)
  <2>1. /\ req[t] = None /\ pc[t] = "idle" /\ todo[t] = {} /\ mine[t] = {}
        /\ \A r \in Lockable : lock[r] # t
    BY DEF TxInit
  <2>2. ~Active(t) /\ ~Creates(t) /\ ~Applies(t) /\ \A op : ~Asks(t, op)
    BY <2>1 DEF Active, Creates, Applies, Asks
  <2> QED
    BY <2>1, <2>2 DEF Sound, Shape, Asked, Locked, Read, Holding
<1>4. Distinct
  BY DEF Distinct, Creates, Active, TxInit
<1> QED
  BY <1>2, <1>3, <1>4 DEF TxInv

LEMMA StartKeeps ==
  ASSUME TxInv, NEW t \in Txs, Start(t)
  PROVE  TxInv' /\ UNCHANGED vars
<1>1. UNCHANGED vars
  BY DEF Start, StartCreatePayment, StartAllocate, StartVoidPayment,
         StartVoidCharge, StartVoidAllocation, Begin, vars
<1> QED
  BY <1>1, StartCreateKeeps, StartAllocateKeeps, StartVoidPaymentKeeps,
     StartVoidChargeKeeps, StartVoidAllocationKeeps DEF Start

LEMMA RollbackStutters ==
  ASSUME NEW t \in Txs, Rollback(t)
  PROVE  UNCHANGED vars
BY DEF Rollback, vars

LEMMA StepKeeps ==
  ASSUME TxInv, NEW t \in Txs, Step(t)
  PROVE  TxInv' /\ [Next]_vars
<1>1. CASE LockPayment(t)
  BY <1>1, LockPaymentKeeps DEF LockPayment, Continue, Rollback, vars
<1>2. ASSUME NEW c \in Charges, LockCharge(t, c)
      PROVE  TxInv' /\ [Next]_vars
  BY <1>2, LockChargeKeeps DEF LockCharge, Continue, Rollback, vars
<1>3. CASE CheckCharges(t)
  BY <1>3, CheckChargesKeeps DEF CheckCharges, Continue, Rollback, vars
<1>4. CASE CheckFree(t)
  BY <1>4, CheckFreeKeeps DEF CheckFree, Continue, Rollback, vars
<1>5. CASE BeginUpdate(t)
  BY <1>5, BeginUpdateKeeps DEF BeginUpdate, Continue, Rollback, vars
<1>6. ASSUME NEW a \in Allocations, UpdateAllocation(t, a)
      PROVE  TxInv' /\ [Next]_vars
  BY <1>6, UpdateAllocationKeeps DEF UpdateAllocation, Rollback, vars
<1>7. CASE CommitApply(t)
  BY <1>7, CommitApplyKeeps, CommitApplyImplements
<1>8. CASE OutOfIds(t)
  BY <1>8, RollsBack DEF OutOfIds, Rollback, vars
<1>9. CASE CommitVoid(t)
  BY <1>9, CommitVoidKeeps, CommitVoidImplements
<1> QED
  BY <1>1, <1>2, <1>3, <1>4, <1>5, <1>6, <1>7, <1>8, <1>9 DEF Step

LEMMA NextTxInv ==
  ASSUME TxInv, [TxNext]_txVars
  PROVE  TxInv' /\ [Next]_vars
<1>1. ASSUME NEW c \in Charges, NEW row \in NewCharge, InsertCharge(c, row)
      PROVE  TxInv' /\ [Next]_vars
  BY <1>1, InsertChargeKeeps
<1>2. ASSUME NEW t \in Txs, Start(t)
      PROVE  TxInv' /\ [Next]_vars
  BY <1>2, StartKeeps
<1>3. ASSUME NEW t \in Txs, Step(t)
      PROVE  TxInv' /\ [Next]_vars
  BY <1>3, StepKeeps
<1>4. ASSUME NEW t \in Txs, BreakDeadlock(t) \/ Abort(t)
      PROVE  TxInv' /\ [Next]_vars
  BY <1>4, RollsBack, RollbackStutters DEF BreakDeadlock, Abort
<1>5. CASE UNCHANGED txVars
  <2>1. UNCHANGED vars
    BY <1>5 DEF txVars, vars
  <2>2. ASSUME NEW u \in Txs PROVE Keeps(u)
    BY <1>5, <2>1, RestKeeps DEF txVars
  <2>3. TypeOK'
    BY <2>1 DEF TxInv, TxTypeOK, TypeOK, vars
  <2>4. \A u \in Txs : Sound(u)'
    BY <2>2, <2>3, KeepsSound DEF TxInv
  <2>5. TxTypeOK' /\ Distinct'
    BY <1>5, <2>3 DEF txVars, TxInv, TxTypeOK, Distinct, Active, Creates
  <2> QED
    BY <2>1, <2>4, <2>5 DEF TxInv
<1> QED
  BY <1>1, <1>2, <1>3, <1>4, <1>5 DEF TxNext

LEMMA TxInvariant == TxSpec => []TxInv
<1>1. TxInv /\ [TxNext]_txVars => TxInv'
  BY NextTxInv
<1> QED
  BY InitTxInv, <1>1, PTL DEF TxSpec

(* Types of the transactions' state, and that a connection is at a         *)
(* statement exactly while it serves a request (LedgerTx).                 *)
THEOREM TxTypeCorrect == TxSpec => []TxTypeOK
<1>1. TxInv => TxTypeOK
  BY DEF TxInv
<1> QED
  BY TxInvariant, <1>1, PTL

(* Whatever transactions interleave, every commit of allocations.ts and of *)
(* the two services is one step of the atomic ledger: the row locks, on    *)
(* the payment first and then on the charges, are enough.                  *)
THEOREM TransactionsImplementLedger == TxSpec => ImplementsLedger
<1>1. TxInit => Init
  BY DEF TxInit
<1>2. TxInv /\ [TxNext]_txVars => [Next]_vars
  BY NextTxInv
<1> QED
  BY TxInvariant, <1>1, <1>2, PTL DEF TxSpec, ImplementsLedger, Spec

(* So the integrity rules of the finance design hold of the committed      *)
(* tables under any interleaving.                                          *)
THEOREM ConcurrentIntegrity ==
  TxSpec => [](AllocationsMatch /\ NothingOverpaid)
BY TransactionsImplementLedger, LedgerIntegrity, PTL DEF ImplementsLedger

-----------------------------------------------------------------------------
(* Deadlocks.                                                              *)

(* Of some charges that transactions wait for, one comes last.             *)
LEMMA LastCharge ==
  ASSUME NEW S \in SUBSET Charges, S # {}
  PROVE  \E c \in S : \A d \in S : d <= c
<1> USE ChargeOrderAssumption
<1> DEFINE above(c) == {d \in Charges : c < d}
           sizes == {Cardinality(above(c)) : c \in S}
           R == OpToRel(<, Nat)
<1>1. \A c \in Charges : IsFiniteSet(above(c)) /\ Cardinality(above(c)) \in Nat
  BY IdsAssumption, FS_Subset, FS_CardinalityType
<1>2. sizes \in SUBSET Nat /\ sizes # {}
  BY <1>1
<1>3. PICK n \in sizes : \A m \in sizes : ~(m < n)
  <2>1. \A m, n \in Nat : m < n => <<m, n>> \in R
    BY DEF OpToRel
  <2>2. IsWellFoundedOn(R, Nat)
    BY NatLessThanWellFounded
  <2> HIDE DEF R, sizes
  <2>3. PICK n \in sizes : \A m \in sizes : <<m, n>> \notin R
    BY <1>2, <2>2, WFMin
  <2> QED
    BY <1>2, <2>1, <2>3
<1>4. PICK c \in S : n = Cardinality(above(c))
  OBVIOUS
<1>5. ASSUME NEW d \in S, c < d
      PROVE  FALSE
  <2>1. above(d) \in SUBSET above(c) /\ d \in above(c) /\ d \notin above(d)
    <3>1. c \in Nat /\ d \in Nat /\ \A e \in Charges : e \in Nat
      OBVIOUS
    <3>2. \A e \in Charges : d < e => c < e
      BY <1>5, <3>1
    <3>3. ~(d < d)
      BY <3>1
    <3> QED
      BY <1>5, <3>2, <3>3
  <2>2. /\ Cardinality(above(d)) <= Cardinality(above(c))
        /\ Cardinality(above(d)) # Cardinality(above(c))
    BY <1>1, <2>1, FS_Subset
  <2>3. Cardinality(above(d)) \in Nat /\ Cardinality(above(c)) \in Nat
    BY <1>1
  <2>4. Cardinality(above(d)) \in sizes
    OBVIOUS
  <2> HIDE DEF above, sizes
  <2> QED
    BY <1>3, <1>4, <2>2, <2>3, <2>4
<1>6. \A d \in S : d <= c
  BY <1>5
<1> QED
  BY <1>6

(* Where the members of a group that waits for itself can be.              *)
LEMMA Waiting ==
  ASSUME TxInv, NEW group \in SUBSET Txs, Stuck(group), NEW t \in group
  PROVE  /\ wanted(t) # {} /\ wanted(t) \subseteq Lockable
         /\ \A r \in wanted(t) : lock[r] \in group
         /\ \/ pc[t] = "payment" /\ wanted(t) \subseteq Payments
            \/ /\ pc[t] = "charges"
               /\ wanted(t) = nextCharges(t)
               /\ wanted(t) \subseteq todo[t]
               /\ todo[t] \subseteq Charges
            \/ pc[t] = "allocations" /\ wanted(t) \subseteq Allocations
<1>1. /\ Blocked(t) /\ \A r \in wanted(t) : lock[r] \in group
      /\ wanted(t) # {}
  BY DEF Stuck, Blocked
<1>2. wanted(t) \subseteq todo[t]
  BY DEF wanted, nextCharges
<1>3. Shape(t) /\ Read(t) /\ todo[t] \subseteq Lockable
  BY DEF TxInv, Sound, TxTypeOK
<1>4. pc[t] \in {"payment", "charges", "allocations"} /\ Active(t)
  BY <1>1, <1>2, <1>3 DEF Shape, TxInv, TxTypeOK, Statements
<1>5. CASE pc[t] = "payment"
  <2>1. Asks(t, "allocate") \/ Asks(t, "voidPayment")
    BY <1>3, <1>4, <1>5, RequestFields DEF Shape, Allocating, Voiding, TxInv, Asks, Creates
  <2>2. todo[t] \subseteq Payments
    BY <1>3, <1>5, <2>1, RequestFields DEF Shape, TxInv
  <2> QED
    BY <1>1, <1>2, <1>3, <1>5, <2>2
<1>6. CASE pc[t] = "charges"
  <2>1. Applies(t) \/ Asks(t, "voidCharge")
    BY <1>3, <1>4, <1>6, RequestFields DEF Shape, Voiding, TxInv, Asks, Creates
  <2>2. todo[t] \subseteq Charges
    BY <1>3, <1>6, <2>1, RequestFields DEF Shape, TxInv, itemCharges, Item
  <2> QED
    BY <1>1, <1>2, <1>3, <1>6, <2>2 DEF wanted
<1>7. CASE pc[t] = "allocations"
  <2>1. ~Applies(t)
    BY <1>7, OnlyVoiding
  <2>2. todo[t] \subseteq Allocations
    BY <1>3, <1>4, <1>7, <2>1, RowTypes DEF Read, TxInv, TxTypeOK
  <2> QED
    BY <1>1, <1>2, <1>3, <1>7, <2>2
<1> QED
  BY <1>4, <1>5, <1>6, <1>7

(* Whoever waits and holds an allocation is in an updateMany that has      *)
(* locked some of its rows; and who holds a payment or a charge has not    *)
(* gone on from it in the order of the locks.                              *)
LEMMA WaitingHolder ==
  ASSUME TxInv, NEW group \in SUBSET Txs, Stuck(group),
         NEW t \in group, NEW r \in Lockable, lock[r] = t
  PROVE  /\ r \in Allocations => t \in voidingMany(group)
         /\ r \in Payments => t \in voidingMany(group) \/ pc[t] = "charges"
         /\ r \in Charges =>
              \/ t \in voidingMany(group)
              \/ pc[t] = "charges" /\ \A d \in todo[t] : r < d
<1>1. Holding(t) /\ Shape(t)
  BY DEF TxInv, Sound
<1>2. pc[t] \in {"payment", "charges", "allocations"}
  BY Waiting
<1>3. Asks(t, "allocate") => Applies(t)
  BY RequestFields DEF TxInv
<1>4. pc[t] = "allocations" => Asks(t, "voidPayment") \/ Asks(t, "voidCharge")
                                 \/ Asks(t, "voidAllocation")
  BY OnlyVoiding
<1>5. t \in voidingMany(group) <=>
        pc[t] = "allocations" /\ req[t].op \in {"voidPayment", "voidCharge"}
  BY DEF voidingMany
<1>6. r \in Allocations => t \in voidingMany(group)
  BY <1>1, <1>2, <1>4, <1>5 DEF Holding, Asks
<1>7. r \in Payments => t \in voidingMany(group) \/ pc[t] = "charges"
  BY <1>1, <1>2, <1>5 DEF Holding, Asks, Allocating, Voiding
<1>8. r \in Charges => \/ t \in voidingMany(group)
                       \/ pc[t] = "charges" /\ \A d \in todo[t] : r < d
  BY <1>1, <1>2, <1>5 DEF Holding, Asks, Allocating, Voiding
<1> QED
  BY <1>6, <1>7, <1>8

LEMMA VoidsAtTheCore ==
  ASSUME TxInv, NEW group \in SUBSET Txs, Stuck(group)
  PROVE  Stuck(voidingMany(group))
<1> DEFINE V == voidingMany(group)
<1>0. V \subseteq group
  BY DEF voidingMany
<1>1. ASSUME NEW t \in group, pc[t] = "allocations", NEW r \in wanted(t)
      PROVE  lock[r] \in V
  <2>1. r \in Allocations /\ r \in Lockable /\ lock[r] \in group
    BY <1>1, Waiting
  <2> QED
    BY <2>1, WaitingHolder
<1>2. ASSUME NEW t \in V
      PROVE  Blocked(t) /\ \A r \in wanted(t) : lock[r] \in V
  <2>1. t \in group /\ pc[t] = "allocations" /\ Blocked(t)
    BY <1>0 DEF voidingMany, Stuck
  <2> QED
    BY <1>1, <2>1
<1>3. ASSUME V = {}
      PROVE  FALSE
  <2> DEFINE Last == {c \in Charges : \E t \in group :
                        pc[t] = "charges" /\ c \in nextCharges(t)}
  <2>1. \A t \in group : pc[t] # "allocations"
    BY <1>1, <1>3, Waiting
  <2>2. PICK t \in group : pc[t] = "charges"
    <3>1. PICK u \in group : TRUE
      BY DEF Stuck
    <3>2. CASE pc[u] = "payment"
      <4>1. PICK r \in wanted(u) : r \in Payments /\ lock[r] \in group
        BY <3>2, Waiting
      <4>2. pc[lock[r]] = "charges"
        BY <1>3, <4>1, WaitingHolder DEF Lockable
      <4> QED
        BY <4>1, <4>2
    <3> QED
      BY <2>1, <3>1, <3>2, Waiting
  <2>3. Last # {}
    BY <2>2, Waiting
  <2>4. PICK c \in Last : \A d \in Last : d <= c
    BY <2>3, LastCharge
  <2>5. PICK u \in group : pc[u] = "charges" /\ c \in nextCharges(u)
    BY <2>4
  <2>6. lock[c] \in group /\ c \in Lockable /\ c \in Charges
    BY <2>4, <2>5, Waiting
  <2>7. pc[lock[c]] = "charges" /\ \A d \in todo[lock[c]] : c < d
    BY <1>3, <2>6, WaitingHolder
  <2>8. PICK d \in nextCharges(lock[c]) : d \in Charges /\ d \in todo[lock[c]]
    BY <2>6, <2>7, Waiting
  <2>9. d \in Last /\ c < d
    BY <2>6, <2>7, <2>8
  <2> QED
    BY <2>4, <2>6, <2>8, <2>9, ChargeOrderAssumption
<1> HIDE DEF V
<1>4. Stuck(V)
  BY <1>2, <1>3 DEF Stuck
<1> QED
  BY <1>4 DEF V

(* At the core of every deadlock are the updateMany of voids: the order in *)
(* which applyAllocations locks the payment and then the charges by id     *)
(* (allocations.ts) closes no circle, with other allocations or with voids.*)
THEOREM OnlyVoidsDeadlock == TxSpec => []AllocatingNeverDeadlocks
<1>1. TxInv => AllocatingNeverDeadlocks
  BY VoidsAtTheCore DEF AllocatingNeverDeadlocks
<1> QED
  BY TxInvariant, <1>1, PTL

=============================================================================
