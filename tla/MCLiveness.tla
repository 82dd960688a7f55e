----------------------------- MODULE MCLiveness -----------------------------
(***************************************************************************)
(* What must happen in the end, of three components that share no state.   *)
(* A behaviour runs one of them, its focus, and leaves the others alone,   *)
(* so that one run of TLC checks the promises of all on small instances.   *)
(***************************************************************************)
EXTENDS Billing

CONSTANTS
  Txs,           \* two transactions ...
  Payments,      \* ... on one payment ...
  Allocations,   \* ... and two allocations
  Children, Categories,
  r1, i1         \* a request of an online payment and an invoice

VARIABLES
  focus,
  \* LedgerTx
  ledgerCharge, payment, allocation, req, pc, todo, mine, lock,
  \* OnlinePayments
  request, invoice, credited, bank, drafts, cancelling, answers, now

Ledger ==
  INSTANCE LedgerTx WITH charge <- ledgerCharge, MaxAmount <- 2, Charges <- {1}

Online ==
  INSTANCE OnlinePayments
    WITH Requests <- {r1}, Invoices <- {i1}, LinkTtl <- 2, InvoiceTtl <- 1,
         MaxTime <- 2, MaxAnswers <- 2, Webhooks <- TRUE

(* Billing: an enrollment that may end, and a discount that makes its      *)
(* second period free.                                                     *)
MCMonthDays == <<2, 1, 1>>
MCEnrollments == {[start |-> 1, end |-> None, mode |-> None]}
MCAdjustments ==
  {[type |-> "discount_amount", value |-> 2, from |-> 3, to |-> None,
    voided |-> FALSE]}
MCPrices == {[from |-> 1, price |-> 1]}

ledgerVars == <<ledgerCharge, payment, allocation, req, pc, todo, mine, lock>>
onlineVars ==
  <<request, invoice, credited, bank, drafts, cancelling, answers, now>>

AllInit ==
  /\ focus \in {"ledger", "online", "billing"}
  /\ Ledger!TxInit
  /\ Online!Init
  /\ BillingInit /\ (focus # "billing" => leadDays = 1)

allVars == <<focus, ledgerVars, onlineVars, billingVars>>

(* A step of the component in focus.                                       *)
Only(ledgerStep, onlineStep, billingStep) ==
  /\ UNCHANGED focus
  /\ \/ focus = "ledger" /\ ledgerStep /\ UNCHANGED <<onlineVars, billingVars>>
     \/ focus = "online" /\ onlineStep /\ UNCHANGED <<ledgerVars, billingVars>>
     \/ focus = "billing" /\ billingStep /\ UNCHANGED <<ledgerVars, onlineVars>>

(* Two is charged and paid, and allocated one by one, so that what two     *)
(* requests void can share two allocations.                                *)
OneByOne ==
  /\ ledgerCharge'[1] # None => ledgerCharge'[1].amount = 2
  /\ \A t \in Txs : (req'[t] # None /\ req'[t].op \in Ledger!Applying) =>
       /\ req'[t].op = "create" => req'[t].row.amount = 2
       /\ \A i \in req'[t].items : i.amount = 1

AllNext == Only(Ledger!TxNext /\ OneByOne, Online!Next, BillingNext)

(* The fairness of each component.  Since a behaviour has one focus, the   *)
(* n-th strong or weak condition here is the n-th of that component, which *)
(* keeps the number of conditions TLC has to combine small.                *)
LedgerStep(n) == n \in Txs /\ Ledger!Step(n)

answered == <<"pending", "success", "partial", "failure", "expired">>

OnlineStep(n) ==
  \E i \in {i1} :
    \/ n = 1 /\ Online!SyncPending(i)
    \/ n = 2 /\ Online!ReceiveWebhook(i)
    \/ n > 2 /\ Online!Apply([invoice |-> i, says |-> answered[n - 2]])

BillingStep(n) ==
  \/ n \in Workers /\ BeginRun(n)
  \/ \E e \in Enrollments : n - 2 \in Days /\ BillPeriod(e, n - 2)

LedgerWeak(n) == n \in Txs /\ Ledger!BreakDeadlock(n)
OnlineWeak(n) == n = 1 /\ Online!ExpireRequests
BillingWeak(n) == n \in Workers /\ Finish(n)

AllFairness ==
  /\ \A n \in 1..7 :
       SF_allVars(Only(LedgerStep(n), OnlineStep(n), BillingStep(n)))
  /\ \A n \in 1..2 :
       WF_allVars(Only(LedgerWeak(n), OnlineWeak(n), BillingWeak(n)))

AllFairSpec == AllInit /\ [][AllNext]_allVars /\ AllFairness

EveryTransactionEnds == Ledger!EveryTransactionEnds
MoneyIsRecorded == Online!MoneyIsRecorded

=============================================================================
