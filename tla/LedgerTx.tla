------------------------------ MODULE LedgerTx ------------------------------
(***************************************************************************)
(* The operations of the ledger as the code runs them: a transaction per   *)
(* request, its statements interleaved with those of the others.  The      *)
(* tables charge, payment and allocation hold what is committed; what a    *)
(* transaction wrote shows when it commits (PostgreSQL, READ COMMITTED).   *)
(* SELECT ... FOR UPDATE and UPDATE take row locks, held to the end.       *)
(*                                                                         *)
(* The checks of applyAllocations read rows that others may write: the     *)
(* locks taken first, on the payment and then on the charges in the order  *)
(* of their ids, are what makes every commit a step of the atomic Ledger.  *)
(* voidAllocation takes neither lock.                                      *)
(***************************************************************************)
EXTENDS Ledger

CONSTANT Txs          \* connections of the pool: concurrent transactions

ASSUME TxsAssumption == None \notin Txs

(* ORDER BY id needs an order on the ids of charges.                       *)
ASSUME ChargeOrderAssumption == Charges \subseteq Nat

(* Row locks belong to a table, so the ids of two tables never meet.       *)
ASSUME LockableAssumption ==
  /\ Charges \cap Payments = {}
  /\ Charges \cap Allocations = {}
  /\ Payments \cap Allocations = {}

(* The requests that run a transaction.                                    *)
TxRequest ==
  [op: {"create"}, payment: Payments, row: NewPayment, items: SUBSET Item]
    \cup [op: {"allocate"}, payment: Payments, items: SUBSET Item]
    \cup [op: {"voidPayment"}, payment: Payments]
    \cup [op: {"voidCharge"}, charge: Charges]
    \cup [op: {"voidAllocation"}, allocation: Allocations]

ASSUME RequestAssumption == None \notin TxRequest

VARIABLES
  req,      \* the request a transaction serves, or None
  pc,       \* the statement it is at
  todo,     \* rows the statement has still to lock
  mine,     \* allocations it has set voidedAt on, not committed yet
  lock      \* the transaction that holds the lock of a row, or None

txVars == <<charge, payment, allocation, req, pc, todo, mine, lock>>

Lockable == Charges \cup Payments \cup Allocations

Applying == {"create", "allocate"}      \* the callers of applyAllocations

Statements ==
  {"idle", "payment", "charges", "check", "free", "update", "allocations",
   "commit"}

Active(t) == req[t] # None

(* The payment row the request works on; a row being created is its own.   *)
pay(t) == IF req[t].op = "create" THEN req[t].row ELSE payment[req[t].payment]
spent(t) ==
  IF req[t].op = "create" THEN 0 ELSE activeAllocated(ofPayment(req[t].payment))

(* A request to allocate is a set of lines.                                *)
itemCharges(items) == {i.charge : i \in items}
itemsTotal(items) == sumMoney(items, [i \in items |-> i.amount])

(* Payments that running transactions are inserting.                       *)
ReservedPayments ==
  {req[t].payment : t \in {u \in Txs : Active(u) /\ req[u].op = "create"}}

-----------------------------------------------------------------------------
Begin(t, request, statement, rows) ==
  /\ ~Active(t)
  /\ req' = [req EXCEPT ![t] = request]
  /\ pc' = [pc EXCEPT ![t] = statement]
  /\ todo' = [todo EXCEPT ![t] = rows]
  /\ UNCHANGED <<charge, payment, allocation, mine, lock>>

(* Mutant of End: the transaction ends and keeps its row locks.            *)
EndKeepingLocks(t) ==
  /\ req' = [req EXCEPT ![t] = None]
  /\ pc' = [pc EXCEPT ![t] = "idle"]
  /\ todo' = [todo EXCEPT ![t] = {}]
  /\ mine' = [mine EXCEPT ![t] = {}]
  /\ lock' = lock

(* The end of a transaction, committed or rolled back.                     *)
End(t) ==
  /\ req' = [req EXCEPT ![t] = None]
  /\ pc' = [pc EXCEPT ![t] = "idle"]
  /\ todo' = [todo EXCEPT ![t] = {}]
  /\ mine' = [mine EXCEPT ![t] = {}]
  /\ lock' = [r \in Lockable |-> IF lock[r] = t THEN None ELSE lock[r]]

Rollback(t) == End(t) /\ UNCHANGED <<charge, payment, allocation>>

Continue(t, statement, rows) ==
  /\ pc' = [pc EXCEPT ![t] = statement]
  /\ todo' = [todo EXCEPT ![t] = rows]
  /\ UNCHANGED <<charge, payment, allocation, req, mine>>

Free(r) == lock[r] = None
(* Mutant of Take: SELECT without FOR UPDATE.                              *)
TakeNothing(t, r) == lock' = [lock EXCEPT ![r] = None]

Take(t, r) == lock' = [lock EXCEPT ![r] = t]

(* Requests name charges a client has seen, each once: the checks for      *)
(* duplicates and for amounts come before any query.                       *)
Requests ==
  {items \in SUBSET Item :
     /\ itemCharges(items) \subseteq Rows(charge)
     /\ \A i, j \in items : i.charge = j.charge => i = j
     /\ \A i \in items : i.amount > 0}

-----------------------------------------------------------------------------
(* The start of each operation.                                            *)

StartCreatePayment(t, p, row, items) ==
  /\ payment[p] = None
  /\ p \notin ReservedPayments
  /\ row.amount > 0
  /\ Begin(t, [op |-> "create", payment |-> p, row |-> row, items |-> items],
           IF items = {} THEN "commit" ELSE "charges",
           itemCharges(items))

StartAllocate(t, p, items) ==
  /\ payment[p] # None
  /\ items # {}
  /\ Begin(t, [op |-> "allocate", payment |-> p, items |-> items], "payment", {p})

StartVoidPayment(t, p) ==
  /\ payment[p] # None
  /\ Begin(t, [op |-> "voidPayment", payment |-> p], "payment", {p})

StartVoidCharge(t, c) ==
  /\ charge[c] # None
  /\ Begin(t, [op |-> "voidCharge", charge |-> c], "charges", {c})

(* No lock on the payment or the charge, only a read that finds the row.   *)
StartVoidAllocation(t, a) ==
  /\ allocation[a] # None
  /\ Begin(t, [op |-> "voidAllocation", allocation |-> a], "update", {})

-----------------------------------------------------------------------------
(* SELECT ... FROM "Payment" FOR UPDATE, then the row read under the lock. *)
LockPayment(t) ==
  /\ pc[t] = "payment"
  /\ Free(req[t].payment)
  /\ IF \/ pay(t).voided
        \/ req[t].op = "allocate" /\ pay(t).status # "confirmed"
       THEN Rollback(t)
       ELSE /\ Take(t, req[t].payment)
            /\ IF req[t].op = "allocate"
                 THEN Continue(t, "charges", itemCharges(req[t].items))
                 ELSE Continue(t, "update", {})

(* Mutant of nextCharges: the ORDER BY left out.                           *)
anyCharges(t) == todo[t]

(* SELECT ... FROM "Charge" ... ORDER BY id FOR UPDATE, a row at a time.   *)
nextCharges(t) == {c \in todo[t] : \A d \in todo[t] : c <= d}

LockCharge(t, c) ==
  /\ pc[t] = "charges"
  /\ c \in nextCharges(t)
  /\ Free(c)
  /\ IF req[t].op = "voidCharge" /\ charge[c].voided
       THEN Rollback(t)
       ELSE /\ Take(t, c)
            /\ IF todo[t] # {c}
                 THEN Continue(t, "charges", todo[t] \ {c})
                 ELSE Continue(t, IF req[t].op = "voidCharge" THEN "update"
                                                              ELSE "check", {})

(* charge.findMany with the active allocations, and the check of each line.*)
CheckCharges(t) ==
  /\ pc[t] = "check"
  /\ IF \A i \in req[t].items : ItemAllowed(pay(t), i)
       THEN Continue(t, "free", {}) /\ UNCHANGED lock
       ELSE Rollback(t)

(* allocation.findMany of the payment, and the check of its free amount.   *)
CheckFree(t) ==
  /\ pc[t] = "free"
  /\ IF itemsTotal(req[t].items) <= pay(t).amount - spent(t)
       THEN Continue(t, "commit", {}) /\ UNCHANGED lock
       ELSE Rollback(t)

(* The rows that match the WHERE of allocation.updateMany.                 *)
matching(t) ==
  CASE req[t].op = "voidPayment" -> ofPayment(req[t].payment)
    [] req[t].op = "voidCharge" -> ofCharge(req[t].charge)
    [] OTHER -> {req[t].allocation} \cap NotVoided(allocation)

(* allocation.updateMany: the rows that match when the statement starts... *)
BeginUpdate(t) ==
  LET rows == matching(t)
  IN  /\ pc[t] = "update"
      /\ IF rows = {} /\ req[t].op = "voidAllocation"
           THEN Rollback(t)
           ELSE /\ Continue(t, IF rows = {} THEN "commit" ELSE "allocations", rows)
                /\ UNCHANGED lock

(* ... each locked in turn, in the order of some index, and left out when  *)
(* it no longer matches once its lock is granted.                          *)
UpdateAllocation(t, a) ==
  LET rest == todo[t] \ {a}
      done == IF a \in NotVoided(allocation) THEN mine[t] \cup {a} ELSE mine[t]
  IN  /\ pc[t] = "allocations"
      /\ a \in todo[t]
      /\ Free(a)
      /\ IF done = {} /\ req[t].op = "voidAllocation"
           THEN Rollback(t)
           ELSE /\ Take(t, a)
                /\ mine' = [mine EXCEPT ![t] = done]
                /\ pc' = [pc EXCEPT ![t] = IF rest = {} THEN "commit" ELSE @]
                /\ todo' = [todo EXCEPT ![t] = rest]
                /\ UNCHANGED <<charge, payment, allocation, req>>

CommitApply(t) ==
  /\ pc[t] = "commit"
  /\ req[t].op \in Applying
  /\ \E rows \in Insertions(req[t].items) :
       allocation' = WithAllocations(req[t].payment, rows)
  /\ payment' = IF req[t].op = "create"
                  THEN [payment EXCEPT ![req[t].payment] = req[t].row]
                  ELSE payment
  /\ UNCHANGED charge
  /\ End(t)

(* The bound of the model: a request that finds no unused id is dropped.   *)
OutOfIds(t) ==
  /\ pc[t] = "commit"
  /\ req[t].op \in Applying
  /\ Insertions(req[t].items) = {}
  /\ Rollback(t)

CommitVoid(t) ==
  /\ pc[t] = "commit"
  /\ req[t].op \notin Applying
  /\ allocation' = VoidRows(allocation, mine[t])
  /\ payment' = IF req[t].op = "voidPayment"
                  THEN VoidRows(payment, {req[t].payment}) ELSE payment
  /\ charge' = IF req[t].op = "voidCharge"
                 THEN VoidRows(charge, {req[t].charge}) ELSE charge
  /\ End(t)

-----------------------------------------------------------------------------
(* Waiting for locks.                                                      *)

wanted(t) == IF pc[t] = "charges" THEN nextCharges(t) ELSE todo[t]

Blocked(t) == wanted(t) # {} /\ \A r \in wanted(t) : lock[r] \notin {None, t}

(* The sets of transactions in which everyone waits for another member.    *)
Stuck(group) ==
  /\ group # {}
  /\ \A t \in group : Blocked(t) /\ \A r \in wanted(t) : lock[r] \in group

(* deadlock_timeout: PostgreSQL aborts a transaction of a cycle.           *)
BreakDeadlock(t) ==
  /\ \E group \in SUBSET Txs : t \in group /\ Stuck(group)
  /\ Rollback(t)

(* The transaction timeout of Prisma, a lost connection or a crash.        *)
Abort(t) == Active(t) /\ Rollback(t)

-----------------------------------------------------------------------------
TxInit ==
  /\ Init
  /\ req = [t \in Txs |-> None]
  /\ pc = [t \in Txs |-> "idle"]
  /\ todo = [t \in Txs |-> {}]
  /\ mine = [t \in Txs |-> {}]
  /\ lock = [r \in Lockable |-> None]

(* An INSERT of a charge is a transaction of one statement.                *)
InsertCharge(c, row) ==
  /\ CreateCharge(c, row)
  /\ UNCHANGED <<req, pc, todo, mine, lock>>

Start(t) ==
  \/ \E p \in Payments, row \in NewPayment, items \in Requests :
       StartCreatePayment(t, p, row, items)
  \/ \E p \in Payments, items \in Requests : StartAllocate(t, p, items)
  \/ \E p \in Payments : StartVoidPayment(t, p)
  \/ \E c \in Charges : StartVoidCharge(t, c)
  \/ \E a \in Allocations : StartVoidAllocation(t, a)

Step(t) ==
  \/ LockPayment(t)
  \/ \E c \in Charges : LockCharge(t, c)
  \/ CheckCharges(t)
  \/ CheckFree(t)
  \/ BeginUpdate(t)
  \/ \E a \in Allocations : UpdateAllocation(t, a)
  \/ CommitApply(t)
  \/ OutOfIds(t)
  \/ CommitVoid(t)

TxNext ==
  \/ \E c \in Charges, row \in NewCharge : InsertCharge(c, row)
  \/ \E t \in Txs : Start(t) \/ Step(t) \/ BreakDeadlock(t) \/ Abort(t)

(* A connection keeps executing its statements, a row lock that becomes    *)
(* free is eventually granted to a waiter (they queue), and the server     *)
(* looks for deadlocks.                                                    *)
Fairness == \A t \in Txs : SF_txVars(Step(t)) /\ WF_txVars(BreakDeadlock(t))

TxSpec == TxInit /\ [][TxNext]_txVars

FairTxSpec == TxSpec /\ Fairness

-----------------------------------------------------------------------------
TxTypeOK ==
  /\ TypeOK
  /\ req \in [Txs -> TxRequest \cup {None}]
  /\ pc \in [Txs -> Statements]
  /\ todo \in [Txs -> SUBSET Lockable]
  /\ mine \in [Txs -> SUBSET Allocations]
  /\ lock \in [Lockable -> Txs \cup {None}]
  /\ \A t \in Txs : Active(t) <=> pc[t] # "idle"

(* The transactions of a group that have begun to lock the allocations of  *)
(* a payment or of a charge they void.                                     *)
voidingMany(group) ==
  {t \in group : /\ req[t].op \in {"voidPayment", "voidCharge"}
                 /\ pc[t] = "allocations"}

(* Allocating never causes a deadlock: the payment is locked first, then   *)
(* the charges by id.  Whoever else waits, at the core of every deadlock   *)
(* are the updateMany of voids alone, which lock allocations in no common  *)
(* order.                                                                  *)
AllocatingNeverDeadlocks ==
  \A group \in SUBSET Txs : Stuck(group) => Stuck(voidingMany(group))

(* Every commit is one step of the atomic ledger, so the integrity rules   *)
(* proved of it hold under concurrency: no payment is spent twice by two   *)
(* requests that read the same free amount, no charge is paid by a request *)
(* that read it before it was voided.                                      *)
ImplementsLedger == Spec

(* A request that has begun ends: no row lock is held for ever.            *)
EveryTransactionEnds == \A t \in Txs : Active(t) ~> ~Active(t)

=============================================================================
