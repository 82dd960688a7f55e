--------------------------- MODULE OnlinePayments ---------------------------
(***************************************************************************)
(* Paying online (src/src/online-payments): a payment request, opened by a *)
(* link or from the parent's cabinet, gets invoices at the bank; what the  *)
(* bank says of an invoice arrives by webhook, by the polling job or when  *)
(* the parent asks, and is applied by applyInvoiceStatus.                  *)
(*                                                                         *)
(* Every answer of the bank is read first and applied later, so answers to *)
(* one invoice are applied in any order, repeated or lost.  The bank is    *)
(* not part of the repository: it is modelled from the PaymentProvider     *)
(* interface.  Crediting an invoice creates a payment and its allocations  *)
(* in the same transaction (modules LedgerTx and Suggestion); here it is   *)
(* one step, which may fail as a whole.                                    *)
(***************************************************************************)
EXTENDS Nothing, Integers, FiniteSets

CONSTANTS
  Requests,      \* identifiers of PaymentRequest rows
  Invoices,      \* identifiers of PaymentInvoice rows
  LinkTtl,       \* LINK_DAYS
  InvoiceTtl,    \* INVOICE_TTL_HOURS
  MaxTime,       \* bound: the clock stops here
  MaxAnswers,    \* bound: answers of the bank read and not applied yet
  Webhooks       \* whether PAYMENT_WEBHOOK_URL is configured

ASSUME TtlAssumption ==
  /\ LinkTtl \in Nat /\ InvoiceTtl \in Nat
  /\ MaxTime \in Nat /\ MaxAnswers \in Nat \ {0}
  /\ Webhooks \in BOOLEAN

RequestStatus == {"open", "paid", "cancelled", "expired"}

(* A failure whose reason is AMOUNT_MISMATCH is a status of its own.       *)
InvoiceStatus == {"pending", "success", "failure", "mismatch", "expired"}

RequestRow == [status: RequestStatus, expiresAt: Nat \cup {None}]
InvoiceRow == [request: Requests, status: InvoiceStatus, createdAt: Nat]

(* What the bank says: "partial" is a success over another amount.         *)
BankStatus == {"pending", "success", "partial", "failure", "expired"}
Answer == [invoice: Invoices, says: BankStatus]

ASSUME NoneAssumption ==
  /\ None \notin RequestRow
  /\ None \notin InvoiceRow
  /\ None \notin BankStatus

VARIABLES
  request,      \* PaymentRequest rows
  invoice,      \* PaymentInvoice rows
  credited,     \* invoices with a Payment row (externalId is unique)
  bank,         \* the bank's own record of an invoice
  drafts,       \* invoices created at the bank, their row not yet inserted
  cancelling,   \* requests a cancel has found open and not yet updated
  answers,      \* answers of the bank read and not yet applied
  now

vars == <<request, invoice, credited, bank, drafts, cancelling, answers, now>>

rows == <<request, invoice, credited>>

-----------------------------------------------------------------------------
linkState(r) ==
  IF /\ request[r].status = "open"
     /\ request[r].expiresAt # None
     /\ request[r].expiresAt <= now
    THEN "expired"
    ELSE request[r].status

invoiceExpired(i) == invoice[i].createdAt + InvoiceTtl <= now

isFinal(status) == status # "pending"

(* Mutant of isSettled: a failure or an expiry is the end of an invoice.   *)
isSettledWhenFinal(status) == isFinal(status)

isSettled(status) == status \in {"success", "mismatch"}

SetStatus(r, status) == [request EXCEPT ![r].status = status]

(* Mutant of Close: update by id alone.                                    *)
CloseAlways(r, status) == SetStatus(r, status)

(* updateMany({ id, status: open }, { status }).                           *)
Close(r, status) ==
  IF request[r].status = "open" THEN SetStatus(r, status) ELSE request

-----------------------------------------------------------------------------
Init ==
  /\ request = [r \in Requests |-> None]
  /\ invoice = [i \in Invoices |-> None]
  /\ credited = {}
  /\ bank = [i \in Invoices |-> None]
  /\ drafts = {}
  /\ cancelling = {}
  /\ answers = {}
  /\ now = 0

(* createLink.                                                             *)
CreateLink(r) ==
  /\ request[r] = None
  /\ \A d \in drafts : d.request # r
  /\ request' = [request EXCEPT ![r] =
                   [status |-> "open", expiresAt |-> now + LinkTtl]]
  /\ UNCHANGED <<invoice, credited, bank, drafts, cancelling, answers, now>>

(* The bank creates an invoice; the row is inserted afterwards.            *)
Draft(r, i, cabinet) ==
  /\ bank[i] = None
  /\ bank' = [bank EXCEPT ![i] = "pending"]
  /\ drafts' = drafts \cup {[request |-> r, invoice |-> i, cabinet |-> cabinet]}

(* payFromCabinet, up to the answer of provider.createInvoice.             *)
PayFromCabinet(r, i) ==
  /\ request[r] = None
  /\ \A d \in drafts : d.request # r
  /\ Draft(r, i, TRUE)
  /\ UNCHANGED <<rows, cancelling, answers, now>>

(* payLink, up to the answer of provider.createInvoice.                    *)
PayLink(r, i) ==
  /\ request[r] # None
  /\ request[r].expiresAt # None
  /\ linkState(r) = "open"
  /\ Draft(r, i, FALSE)
  /\ UNCHANGED <<rows, cancelling, answers, now>>

(* findLink, for a link that is past its time: payLink and publicLink.     *)
OpenLateLink(r) ==
  /\ request[r] # None
  /\ request[r].expiresAt # None
  /\ linkState(r) = "expired"
  /\ request' = Close(r, "expired")
  /\ UNCHANGED <<invoice, credited, bank, drafts, cancelling, answers, now>>

(* The rest of both: insert the invoice, with its request from the cabinet.*)
InsertInvoice(d) ==
  /\ d \in drafts
  /\ drafts' = drafts \ {d}
  /\ invoice' = [invoice EXCEPT ![d.invoice] =
                   [request |-> d.request, status |-> "pending", createdAt |-> now]]
  /\ request' = IF d.cabinet
                  THEN [request EXCEPT ![d.request] =
                          [status |-> "open", expiresAt |-> None]]
                  ELSE request
  /\ UNCHANGED <<credited, bank, cancelling, answers, now>>

(* A crash or a database error: the bank keeps an invoice nobody was shown.*)
LoseDraft(d) ==
  /\ d \in drafts
  /\ drafts' = drafts \ {d}
  /\ UNCHANGED <<rows, bank, cancelling, answers, now>>

(* cancel, up to the check of linkState.                                   *)
BeginCancel(r) ==
  /\ request[r] # None
  /\ linkState(r) = "open"
  /\ cancelling' = cancelling \cup {r}
  /\ UNCHANGED <<rows, bank, drafts, answers, now>>

(* The rest of cancel: updateMany, which may find the request not open.    *)
Cancel(r) ==
  /\ r \in cancelling
  /\ cancelling' = cancelling \ {r}
  /\ request' = Close(r, "cancelled")
  /\ UNCHANGED <<invoice, credited, bank, drafts, answers, now>>

(* expireRequests, every night.                                            *)
ExpireRequests ==
  /\ \E r \in Requests :
       /\ request[r] # None
       /\ request[r].status = "open" /\ linkState(r) = "expired"
  /\ request' = [r \in Requests |->
                   IF request[r] # None /\ linkState(r) = "expired"
                     THEN [request[r] EXCEPT !.status = "expired"]
                     ELSE request[r]]
  /\ UNCHANGED <<invoice, credited, bank, drafts, cancelling, answers, now>>

-----------------------------------------------------------------------------
(* Reading the bank.                                                       *)

Read(i, says) ==
  /\ Cardinality(answers) < MaxAnswers
  /\ answers' = answers \cup {[invoice |-> i, says |-> says]}
  /\ UNCHANGED <<rows, bank, drafts, cancelling, now>>

(* handleWebhook: the bank announces a change of any of its invoices, more *)
(* than once if it likes, and is asked for the status.                     *)
ReceiveWebhook(i) ==
  /\ Webhooks
  /\ bank[i] \notin {None, "pending"}
  /\ Read(i, bank[i])

(* parentInvoice, while the invoice is pending.                            *)
PollByParent(i) ==
  /\ invoice[i] # None
  /\ invoice[i].status = "pending"
  /\ Read(i, bank[i])

(* syncPending, for one invoice: older ones are expired unless paid.       *)
SyncPending(i) ==
  /\ invoice[i] # None
  /\ invoice[i].status = "pending"
  /\ Read(i, IF invoiceExpired(i) /\ bank[i] \notin {"success", "partial"}
               THEN "expired" ELSE bank[i])

-----------------------------------------------------------------------------
(* applyInvoiceStatus.                                                     *)

Applied(a) == answers' = answers \ {a}

SetInvoice(i, status) == invoice' = [invoice EXCEPT ![i].status = status]

(* The answer changes nothing: no row, settled, late, or still pending.    *)
Ignore(a) ==
  /\ a \in answers
  /\ \/ invoice[a.invoice] = None
     \/ isSettled(invoice[a.invoice].status)
     \/ isFinal(invoice[a.invoice].status) /\ a.says \notin {"success", "partial"}
     \/ a.says = "pending"
  /\ Applied(a)
  /\ UNCHANGED <<rows, bank, drafts, cancelling, now>>

(* Mutant of RecordFailure: an answer that comes late is not ignored.      *)
RecordLateFailure(a) ==
  /\ a \in answers
  /\ invoice[a.invoice] # None
  /\ ~isSettled(invoice[a.invoice].status)
  /\ a.says \in {"failure", "expired"}
  /\ SetInvoice(a.invoice, a.says)
  /\ Applied(a)
  /\ UNCHANGED <<request, credited, bank, drafts, cancelling, now>>

(* A failure or an expiry of a pending invoice; the request stays as it is.*)
RecordFailure(a) ==
  /\ a \in answers
  /\ invoice[a.invoice] # None
  /\ ~isFinal(invoice[a.invoice].status)
  /\ a.says \in {"failure", "expired"}
  /\ SetInvoice(a.invoice, a.says)
  /\ Applied(a)
  /\ UNCHANGED <<request, credited, bank, drafts, cancelling, now>>

(* Money came, but not the amount of the invoice: nothing is credited.     *)
RecordMismatch(a) ==
  /\ a \in answers
  /\ invoice[a.invoice] # None
  /\ ~isSettled(invoice[a.invoice].status)
  /\ a.says = "partial"
  /\ SetInvoice(a.invoice, "mismatch")
  /\ Applied(a)
  /\ UNCHANGED <<request, credited, bank, drafts, cancelling, now>>

(* Mutant of Credit: the amount the bank took is not compared.             *)
CreditAnyAmount(a) ==
  /\ a \in answers
  /\ invoice[a.invoice] # None
  /\ ~isSettled(invoice[a.invoice].status)
  /\ a.says \in {"success", "partial"}
  /\ a.invoice \notin credited
  /\ credited' = credited \cup {a.invoice}
  /\ SetInvoice(a.invoice, "success")
  /\ request' = SetStatus(invoice[a.invoice].request, "paid")
  /\ Applied(a)
  /\ UNCHANGED <<bank, drafts, cancelling, now>>

(* Payment, allocations, invoice and request in one transaction, also for  *)
(* an invoice that was given up as failed or expired, and also for a       *)
(* request that is cancelled, expired or already paid by another invoice.  *)
Credit(a) ==
  /\ a \in answers
  /\ invoice[a.invoice] # None
  /\ ~isSettled(invoice[a.invoice].status)
  /\ a.says = "success"
  /\ a.invoice \notin credited
  /\ credited' = credited \cup {a.invoice}
  /\ SetInvoice(a.invoice, "success")
  /\ request' = SetStatus(invoice[a.invoice].request, "paid")
  /\ Applied(a)
  /\ UNCHANGED <<bank, drafts, cancelling, now>>

(* Mutant of FailToApply: the payment is created outside the transaction.  *)
FailAfterPayment(a) ==
  /\ a \in answers
  /\ Applied(a)
  /\ credited' = IF a.says = "success" THEN credited \cup {a.invoice} ELSE credited
  /\ UNCHANGED <<request, invoice, bank, drafts, cancelling, now>>

(* The transaction is rolled back: no root user to sign the allocations, a *)
(* deadlock, a lost connection.  The caller reports it and forgets.        *)
FailToApply(a) ==
  /\ a \in answers
  /\ Applied(a)
  /\ UNCHANGED <<rows, bank, drafts, cancelling, now>>

-----------------------------------------------------------------------------
(* The bank.  A payer is shown the page only once the row is inserted, and *)
(* may try again after a failure.                                          *)
BankMoves(i, to) ==
  /\ invoice[i] # None
  /\ bank[i] \in {"pending", "failure"}
  /\ to \in BankStatus \ {bank[i], "pending"}
  /\ bank' = [bank EXCEPT ![i] = to]
  /\ UNCHANGED <<rows, drafts, cancelling, answers, now>>

Tick ==
  /\ now < MaxTime
  /\ now' = now + 1
  /\ UNCHANGED <<rows, bank, drafts, cancelling, answers>>

Apply(a) ==
  Ignore(a) \/ RecordFailure(a) \/ RecordMismatch(a) \/ Credit(a)

Next ==
  \/ \E r \in Requests :
       CreateLink(r) \/ OpenLateLink(r) \/ BeginCancel(r) \/ Cancel(r)
  \/ \E r \in Requests, i \in Invoices : PayFromCabinet(r, i) \/ PayLink(r, i)
  \/ \E d \in drafts : InsertInvoice(d) \/ LoseDraft(d)
  \/ ExpireRequests
  \/ \E i \in Invoices : ReceiveWebhook(i) \/ PollByParent(i) \/ SyncPending(i)
  \/ \E a \in answers : Apply(a) \/ FailToApply(a)
  \/ \E i \in Invoices, to \in BankStatus : BankMoves(i, to)
  \/ Tick

Spec == Init /\ [][Next]_vars

(* The polling job runs for ever; the bank repeats a webhook until it is   *)
(* accepted; an answer that keeps being read is applied in the end, because*)
(* a failure (a deadlock, a lost connection) does not last for ever.       *)
Fairness ==
  /\ \A i \in Invoices : SF_vars(SyncPending(i)) /\ SF_vars(ReceiveWebhook(i))
  /\ \A i \in Invoices, says \in BankStatus :
       SF_vars(Apply([invoice |-> i, says |-> says]))
  /\ WF_vars(ExpireRequests)

FairSpec == Spec /\ Fairness

-----------------------------------------------------------------------------
TypeOK ==
  /\ request \in [Requests -> RequestRow \cup {None}]
  /\ invoice \in [Invoices -> InvoiceRow \cup {None}]
  /\ credited \in SUBSET Invoices
  /\ bank \in [Invoices -> BankStatus \cup {None}]
  /\ drafts \subseteq [request: Requests, invoice: Invoices, cabinet: BOOLEAN]
  /\ cancelling \in SUBSET Requests
  /\ answers \in SUBSET Answer
  /\ now \in 0..MaxTime

(* An invoice is shown as paid exactly when its payment exists, however    *)
(* often and in whatever order its answers are applied: applyInvoiceStatus *)
(* is one transaction.                                                     *)
SuccessMeansPayment ==
  credited = {i \in Invoices : invoice[i] # None /\ invoice[i].status = "success"}

(* A payment is only ever recorded for money the bank took, all of it.     *)
NoPaymentWithoutMoney == \A i \in credited : bank[i] = "success"

(* A request is paid exactly when one of its invoices is: a cancel or an   *)
(* expiry that was decided before the money came never hides it.           *)
PaidMeansPaidInvoice ==
  \A r \in Requests :
    request[r] # None =>
      (request[r].status = "paid" <=> \E i \in credited : invoice[i].request = r)

(* A payment has the bank behind it, and a paid request a payment.         *)
MoneyBacksPayments == NoPaymentWithoutMoney /\ PaidMeansPaidInvoice

(* The status of an invoice over a step: an outcome is final, except that  *)
(* a failure or an expiry gives way to news of money.                      *)
OutcomeStands(i) ==
  (invoice[i] # None /\ invoice[i].status # invoice'[i].status) =>
    \/ invoice[i].status = "pending"
    \/ /\ invoice[i].status \in {"failure", "expired"}
       /\ isSettled(invoice'[i].status)

(* Answers that come late or out of order never overturn an outcome: see   *)
(* isFinal, isSettled and the conditional updates of applyInvoiceStatus.   *)
OutcomesStand == [][\A i \in Invoices : OutcomeStands(i)]_vars

(* docs/superpowers/specs/2026-10-16-online-payments-design.md: "money     *)
(* received is always recorded".  Of the amount of the invoice, that is.   *)
MoneyIsRecorded ==
  \A i \in Invoices : bank[i] = "success" ~> i \in credited

=============================================================================
