------------------------------ MODULE Billing ------------------------------
(***************************************************************************)
(* Monthly enrollments and their billing (src/src/tariffs): one child on   *)
(* one tariff.  Requests and the nightly job are workers.  Each reads,     *)
(* checks or computes first and writes in a later step, in between which   *)
(* the others write: a run bills all enrollments from what it read when it *)
(* began, recalculate computes its bill before it locks the period, and    *)
(* end and addAdjustment check for overlaps without any lock.              *)
(***************************************************************************)
EXTENDS BillingEngine

CONSTANTS
  Enrollments,      \* identifiers of Enrollment rows
  Workers,          \* requests and jobs that run at the same time
  Ops,              \* the operations of the instance that take two steps
  Modes,            \* the modes a tariff may have
  EnrollmentRows,   \* what may be asked: enrollments ...
  EndDays,          \* ... the days they are ended on ...
  AdjustmentRows,   \* ... adjustments ...
  PriceRows,        \* ... prices, [from, price] ...
  LeadDays,         \* ... and numbers of days to charge in advance
  MaxAdjustments,   \* bound: adjustments of an enrollment
  MaxCharges        \* bound: charges of a period, by recalculating it

EnrollmentRow ==
  [start: Days, end: Days \cup {None}, mode: BillingMode \cup {None}]

AdjustmentRow ==
  [type: AdjustmentType, value: Nat \cup {None}, from: Days,
   to: Days \cup {None}, voided: BOOLEAN]

Bill == [start: Days, end: 1..LastDay, amount: Nat]
DueBill == [enrollment: Enrollments, bill: Bill]

ChargeRow == [amount: Nat, voided: BOOLEAN]

(* charge is the number of the charge among those of the period.           *)
BilledRow == [end: 1..LastDay, amount: Nat, charge: Nat \cup {None}]

ASSUME InputAssumption ==
  /\ Modes \subseteq BillingMode
  /\ \A r \in EnrollmentRows :
       r \in EnrollmentRow /\ (r.end = None \/ r.end >= r.start)
  /\ EndDays \subseteq Days
  /\ \A r \in AdjustmentRows :
       r \in AdjustmentRow /\ ~r.voided /\ (r.to = None \/ r.to >= r.from)
  /\ \A r \in PriceRows : r.from \in Days /\ r.price \in Nat \ {0}
  /\ LeadDays \subseteq Nat
  /\ MaxAdjustments \in Nat /\ MaxCharges \in Nat
  /\ None \notin Nat /\ None \notin EnrollmentRow /\ None \notin BilledRow
  /\ None \notin Bill

VARIABLES
  tariffMode,   \* billingMode of the tariff
  price,        \* its price history
  enrollment,   \* Enrollment rows
  adjustment,   \* the adjustments of each, in the order of their creation
  billed,       \* BilledPeriod rows, by enrollment and periodStart
  charge,       \* the charges of each period, in the order of their creation
  leadDays,     \* AppSetting chargeLeadDays
  today,
  task          \* what a worker has read and is going to write

terms == <<tariffMode, price, enrollment, adjustment>>
bills == <<billed, charge>>
billingVars == <<terms, bills, leadDays, today, task>>

-----------------------------------------------------------------------------
Enrolled == {e \in Enrollments : enrollment[e] # None}

(* toEngineInput.                                                          *)
input(e) ==
  [enrollment[e] EXCEPT !.mode = IF @ = None THEN tariffMode ELSE @]

billedStarts(e) == {s \in Days : billed[e][s] # None}

(* Mutant of due: the days of notice are forgotten.                        *)
dueToday(e) ==
  {[enrollment |-> e, bill |-> b] :
     b \in dueBills(input(e), price, adjustment[e], billedStarts(e), today)}

(* dueBills of one enrollment, with what is in the tables now.             *)
due(e) ==
  {[enrollment |-> e, bill |-> b] :
     b \in dueBills(input(e), price, adjustment[e], billedStarts(e),
                    today + leadDays)}

Idle(w) == task[w] = None
Begin(w, t) == Idle(w) /\ t.op \in Ops /\ task' = [task EXCEPT ![w] = t]
Doing(w, op) == ~Idle(w) /\ task[w].op = op
Done(w) == task' = [task EXCEPT ![w] = None]

(* Enrollments of the child on the tariff that meet a range of days.       *)
Meeting(start, end) ==
  {e \in Enrolled : overlaps(start, end, enrollment[e].start, enrollment[e].end)}

-----------------------------------------------------------------------------
BillingInit ==
  /\ tariffMode \in Modes
  /\ price = [d \in Days |-> None]
  /\ enrollment = [e \in Enrollments |-> None]
  /\ adjustment = [e \in Enrollments |-> <<>>]
  /\ billed = [e \in Enrollments |-> [s \in Days |-> None]]
  /\ charge = [e \in Enrollments |-> [s \in Days |-> <<>>]]
  /\ leadDays \in LeadDays
  /\ today = 1
  /\ task = [w \in Workers |-> None]

-----------------------------------------------------------------------------
(* The terms of an enrollment.                                             *)

(* TariffsService.addPrice: a new price or a new amount for its day.       *)
AddPrice(row) ==
  /\ price' = [price EXCEPT ![row.from] = row.price]
  /\ UNCHANGED <<tariffMode, enrollment, adjustment, bills, leadDays, today, task>>

(* TariffsService.update of the mode: the tariff must have no enrollments. *)
BeginSetMode(w, mode) ==
  /\ mode # tariffMode
  /\ Enrolled = {}
  /\ Begin(w, [op |-> "setMode", mode |-> mode])
  /\ UNCHANGED <<terms, bills, leadDays, today>>

SetMode(w) ==
  /\ Doing(w, "setMode")
  /\ tariffMode' = task[w].mode
  /\ Done(w)
  /\ UNCHANGED <<price, enrollment, adjustment, bills, leadDays, today>>

(* EnrollmentsService.create: the row lock on the child keeps other creates*)
(* out from the check to the insert.                                       *)
BeginEnroll(w, e, row) ==
  /\ enrollment[e] = None
  /\ priceOn(price, row.start) # None
  /\ \A v \in Workers : ~Doing(v, "enroll")
  /\ Meeting(row.start, row.end) = {}
  /\ Begin(w, [op |-> "enroll", enrollment |-> e, row |-> row])
  /\ UNCHANGED <<terms, bills, leadDays, today>>

Enroll(w) ==
  /\ Doing(w, "enroll")
  /\ enrollment' = [enrollment EXCEPT ![task[w].enrollment] = task[w].row]
  /\ Done(w)
  /\ UNCHANGED <<tariffMode, price, adjustment, bills, leadDays, today>>

(* EnrollmentsService.end: also moves an end that is already set.          *)
BeginEnd(w, e, day) ==
  /\ e \in Enrolled
  /\ day >= enrollment[e].start
  /\ Meeting(enrollment[e].start, day) \subseteq {e}
  /\ Begin(w, [op |-> "end", enrollment |-> e, day |-> day])
  /\ UNCHANGED <<terms, bills, leadDays, today>>

End(w) ==
  /\ Doing(w, "end")
  /\ enrollment' = [enrollment EXCEPT ![task[w].enrollment].end = task[w].day]
  /\ Done(w)
  /\ UNCHANGED <<tariffMode, price, adjustment, bills, leadDays, today>>

(* EnrollmentsService.addAdjustment.                                       *)
BeginAdjust(w, e, row) ==
  /\ e \in Enrolled
  /\ Len(adjustment[e]) < MaxAdjustments
  /\ \A n \in DOMAIN adjustment[e] :
       LET a == adjustment[e][n]
       IN  (a.type = row.type /\ ~a.voided) => ~overlaps(row.from, row.to, a.from, a.to)
  /\ Begin(w, [op |-> "adjust", enrollment |-> e, row |-> row])
  /\ UNCHANGED <<terms, bills, leadDays, today>>

Adjust(w) ==
  /\ Doing(w, "adjust")
  /\ adjustment' = [adjustment EXCEPT ![task[w].enrollment] = Append(@, task[w].row)]
  /\ Done(w)
  /\ UNCHANGED <<tariffMode, price, enrollment, bills, leadDays, today>>

VoidAdjustment(e, n) ==
  /\ n \in DOMAIN adjustment[e]
  /\ ~adjustment[e][n].voided
  /\ adjustment' = [adjustment EXCEPT ![e][n].voided = TRUE]
  /\ UNCHANGED <<tariffMode, price, enrollment, bills, leadDays, today, task>>

SetLeadDays(days) ==
  /\ leadDays' = days
  /\ UNCHANGED <<terms, bills, today, task>>

-----------------------------------------------------------------------------
(* Billing.                                                                *)

(* runAll: the nightly job or a request, over all enrollments as read now. *)
BeginRun(w) ==
  /\ Begin(w, [op |-> "run", todo |-> UNION {due(e) : e \in Enrolled}])
  /\ UNCHANGED <<terms, bills, leadDays, today>>

(* billEnrollment.                                                         *)
BeginBill(w, e) ==
  /\ e \in Enrolled
  /\ Begin(w, [op |-> "run", todo |-> due(e)])
  /\ UNCHANGED <<terms, bills, leadDays, today>>

(* A charge is only created for more than zero.                            *)
NewCharges(charges, amount) ==
  IF amount = 0 THEN charges
  ELSE Append(charges, [amount |-> amount, voided |-> FALSE])

ChargeOf(charges, amount) == IF amount = 0 THEN None ELSE Len(charges) + 1

(* Mutant of BillNext: the charge is not created in the transaction of the *)
(* billed period.                                                          *)
BillOutsideTransaction(w, d) ==
  LET e == d.enrollment  b == d.bill
  IN  /\ Doing(w, "run")
      /\ d \in task[w].todo
      /\ task' = [task EXCEPT ![w].todo = @ \ {d}]
      /\ charge' = [charge EXCEPT ![e][b.start] = NewCharges(@, b.amount)]
      /\ IF billed[e][b.start] # None
           THEN UNCHANGED billed
           ELSE billed' = [billed EXCEPT ![e][b.start] =
                             [end |-> b.end, amount |-> b.amount,
                              charge |-> ChargeOf(charge[e][b.start], b.amount)]]
      /\ UNCHANGED <<terms, leadDays, today>>

(* billLoaded, one bill: the charge and the billed period, or neither when *)
(* the period was billed in the meantime (the unique key).                 *)
BillNext(w, d) ==
  LET e == d.enrollment  b == d.bill
  IN  /\ Doing(w, "run")
      /\ d \in task[w].todo
      /\ task' = [task EXCEPT ![w].todo = @ \ {d}]
      /\ IF billed[e][b.start] # None
           THEN UNCHANGED bills
           ELSE /\ charge' = [charge EXCEPT ![e][b.start] = NewCharges(@, b.amount)]
                /\ billed' = [billed EXCEPT ![e][b.start] =
                                [end |-> b.end, amount |-> b.amount,
                                 charge |-> ChargeOf(charge[e][b.start], b.amount)]]
      /\ UNCHANGED <<terms, leadDays, today>>

(* Any other error ends the work on its enrollment, not the run.           *)
FailEnrollment(w, e) ==
  /\ Doing(w, "run")
  /\ \E d \in task[w].todo : d.enrollment = e
  /\ task' = [task EXCEPT ![w].todo = {d \in @ : d.enrollment # e}]
  /\ UNCHANGED <<terms, bills, leadDays, today>>

EndRun(w) ==
  /\ Doing(w, "run")
  /\ task[w].todo = {}
  /\ Done(w)
  /\ UNCHANGED <<terms, bills, leadDays, today>>

(* recalculate, before its transaction: the bill is computed from what is  *)
(* read here; a period that starts after the end of its enrollment is to be*)
(* zero.                                                                   *)
BeginRecalculate(w, e, s) ==
  /\ e \in Enrolled
  /\ billed[e][s] # None
  /\ LET found == findPeriod(input(e), s)
         bill == IF found # {}
                   THEN computePeriod(input(e), price, adjustment[e],
                                      CHOOSE p \in found : TRUE)
                   ELSE [start |-> s, end |-> billed[e][s].end, amount |-> 0]
     IN  /\ found = {} => enrollment[e].end # None /\ s > enrollment[e].end
         /\ bill # None
         /\ Begin(w, [op |-> "recalculate", enrollment |-> e, bill |-> bill])
  /\ UNCHANGED <<terms, bills, leadDays, today>>

VoidCharges(charges, n) ==
  IF n = None THEN charges ELSE [charges EXCEPT ![n].voided = TRUE]

(* Mutant of Recalculate: the old charge is not voided.                    *)
RecalculateOnTop(w) ==
  LET e == task[w].enrollment  b == task[w].bill
  IN  /\ Doing(w, "recalculate")
      /\ Len(charge[e][b.start]) < MaxCharges
      /\ charge' = [charge EXCEPT ![e][b.start] = NewCharges(@, b.amount)]
      /\ billed' = [billed EXCEPT ![e][b.start] =
                      [end |-> b.end, amount |-> b.amount,
                       charge |-> ChargeOf(charge[e][b.start], b.amount)]]
      /\ Done(w)
      /\ UNCHANGED <<terms, leadDays, today>>

(* Its transaction, under the row lock of the billed period: void the      *)
(* charge the row has now, unless it is voided, and create the new one.    *)
Recalculate(w) ==
  LET e == task[w].enrollment  b == task[w].bill
      kept == VoidCharges(charge[e][b.start], billed[e][b.start].charge)
  IN  /\ Doing(w, "recalculate")
      /\ Len(kept) < MaxCharges
      /\ charge' = [charge EXCEPT ![e][b.start] = NewCharges(kept, b.amount)]
      /\ billed' = [billed EXCEPT ![e][b.start] =
                      [end |-> b.end, amount |-> b.amount,
                       charge |-> ChargeOf(kept, b.amount)]]
      /\ Done(w)
      /\ UNCHANGED <<terms, leadDays, today>>

(* ChargesService.void, of a charge this module created.                   *)
VoidCharge(e, s, n) ==
  /\ n \in DOMAIN charge[e][s]
  /\ ~charge[e][s][n].voided
  /\ charge' = [charge EXCEPT ![e][s] = VoidCharges(@, n)]
  /\ UNCHANGED <<terms, billed, leadDays, today, task>>

(* A crash, or an error before the write.                                  *)
GiveUp(w) ==
  /\ ~Idle(w)
  /\ Done(w)
  /\ UNCHANGED <<terms, bills, leadDays, today>>

NextDay ==
  /\ \A l \in LeadDays : today + 1 + l \in Days
  /\ today' = today + 1
  /\ UNCHANGED <<terms, bills, leadDays, task>>

-----------------------------------------------------------------------------
Terms(w) ==
  \/ \E m \in Modes : BeginSetMode(w, m)
  \/ SetMode(w)
  \/ \E e \in Enrollments, row \in EnrollmentRows : BeginEnroll(w, e, row)
  \/ Enroll(w)
  \/ \E e \in Enrollments, day \in EndDays : BeginEnd(w, e, day)
  \/ End(w)
  \/ \E e \in Enrollments, row \in AdjustmentRows : BeginAdjust(w, e, row)
  \/ Adjust(w)

Billing(w) ==
  \/ BeginRun(w)
  \/ \E e \in Enrollments : BeginBill(w, e)
  \/ \E d \in IF Doing(w, "run") THEN task[w].todo ELSE {} : BillNext(w, d)
  \/ \E e \in Enrollments : FailEnrollment(w, e)
  \/ EndRun(w)
  \/ \E e \in Enrollments, s \in Days : BeginRecalculate(w, e, s)
  \/ Recalculate(w)

BillingNext ==
  \/ \E w \in Workers : Terms(w) \/ Billing(w) \/ GiveUp(w)
  \/ \E row \in PriceRows : AddPrice(row)
  \/ \E e \in Enrollments, n \in 1..MaxAdjustments : VoidAdjustment(e, n)
  \/ \E e \in Enrollments, s \in Days, n \in 1..MaxCharges : VoidCharge(e, s, n)
  \/ \E days \in LeadDays : SetLeadDays(days)
  \/ NextDay

BillingSpec == BillingInit /\ [][BillingNext]_billingVars

(* A step of a run that bills one period, whoever runs it.                 *)
BillPeriod(e, s) ==
  \E w \in Workers :
    /\ Doing(w, "run")
    /\ \E d \in task[w].todo :
         d.enrollment = e /\ d.bill.start = s /\ BillNext(w, d)

Finish(w) ==
  SetMode(w) \/ Enroll(w) \/ End(w) \/ Adjust(w) \/ Recalculate(w)
    \/ EndRun(w) \/ GiveUp(w)

(* The job runs every night, requests end, and an error or a crash does not*)
(* hit the same period every time.                                         *)
BillingFairness ==
  /\ \A w \in Workers : SF_billingVars(BeginRun(w)) /\ WF_billingVars(Finish(w))
  /\ \A e \in Enrollments, s \in Days : SF_billingVars(BillPeriod(e, s))

BillingFairSpec == BillingSpec /\ BillingFairness

-----------------------------------------------------------------------------
Task ==
  [op: {"setMode"}, mode: BillingMode]
    \cup [op: {"enroll"}, enrollment: Enrollments, row: EnrollmentRow]
    \cup [op: {"end"}, enrollment: Enrollments, day: Days]
    \cup [op: {"adjust"}, enrollment: Enrollments, row: AdjustmentRow]
    \cup [op: {"run"}, todo: SUBSET DueBill]
    \cup [op: {"recalculate"}, enrollment: Enrollments, bill: Bill]

BillingTypeOK ==
  /\ tariffMode \in BillingMode
  /\ price \in [Days -> Nat \cup {None}]
  /\ enrollment \in [Enrollments -> EnrollmentRow \cup {None}]
  /\ adjustment \in [Enrollments -> Seq(AdjustmentRow)]
  /\ billed \in [Enrollments -> [Days -> BilledRow \cup {None}]]
  /\ charge \in [Enrollments -> [Days -> Seq(ChargeRow)]]
  /\ leadDays \in LeadDays /\ today \in Days
  /\ task \in [Workers -> Task \cup {None}]

active(e, s) == {n \in DOMAIN charge[e][s] : ~charge[e][s][n].voided}

(* Integrity rules 1, 2 and 8 of the tariffs design: whatever runs and     *)
(* recalculations meet, a period has at most one charge that counts, the   *)
(* one its BilledPeriod row points to, and of the amount the row says.     *)
OneChargePerPeriod ==
  \A e \in Enrollments, s \in Days :
    LET row == billed[e][s]
    IN  /\ active(e, s) \subseteq IF row = None THEN {} ELSE {row.charge}
        /\ row # None =>
             IF row.amount = 0 THEN row.charge = None
             ELSE charge[e][s][row.charge].amount = row.amount

(* No day of an enrollment is billed twice, also when its end date moves   *)
(* back and forth between the runs that bill it.                           *)
NoDayBilledTwice ==
  \A e \in Enrollments, s, t \in Days :
    (billed[e][s] # None /\ billed[e][t] # None /\ s < t) =>
      billed[e][s].end < t

(* Whatever runs, requests and recalculations meet, neither a period nor a *)
(* day is charged twice.                                                   *)
NothingBilledTwice == OneChargePerPeriod /\ NoDayBilledTwice

(* A due period of an enrollment, without the engine's bookkeeping.        *)
IsDue(e, s) ==
  /\ e \in Enrolled
  /\ billed[e][s] = None
  /\ \E p \in periodsUntil(input(e), today + leadDays) : p.start = s

(* A period that becomes due is billed, unless its enrollment ends before  *)
(* it starts: a failing enrollment or a crash of a run only delays it.     *)
DueIsBilled ==
  \A e \in Enrollments, s \in Days : IsDue(e, s) ~> ~IsDue(e, s)

-----------------------------------------------------------------------------
(* The engine, on every enrollment that the operations can bring about.    *)

(* The periods of an enrollment are its days: each day from the start to   *)
(* the end is in exactly one, no other day is in any, and no month is      *)
(* charged twice or left out, also after a clamp to a short month.         *)
PeriodsTile ==
  \A e \in Enrolled :
    LET i == input(e)
        periods == periodsUntil(i, monthStart[Len(MonthDays)] - 1)
        served == {d \in Days : i.start <= d /\ (i.end = None \/ d <= i.end)}
    IN  /\ \A d \in Days :
             Cardinality({p \in periods : d \in p.start..p.end}) =
               IF d \in served THEN 1 ELSE 0
        /\ \A p, q \in periods :
             monthOf(p.start) = monthOf(q.start) => p = q

pausesDisjoint(e) ==
  \A m, n \in DOMAIN adjustment[e] :
    LET a == adjustment[e][m]  b == adjustment[e][n]
    IN  (/\ m # n /\ a.type = "pause" /\ b.type = "pause"
         /\ ~a.voided /\ ~b.voided) => ~overlaps(a.from, a.to, b.from, b.to)

(* While the pauses of an enrollment do not meet, a period is charged for  *)
(* exactly the days of its window that no pause covers.                    *)
PausedDaysAreFree ==
  \A e \in Enrolled :
    pausesDisjoint(e) =>
      \A p \in periodsUntil(input(e), monthStart[Len(MonthDays)] - 1) :
        LET paused(d) ==
              d >= p.start /\ \E n \in DOMAIN adjustment[e] :
                /\ adjustment[e][n].type = "pause"
                /\ isActiveOn(adjustment[e][n], d)
        IN  billableDays(input(e), adjustment[e], p) =
              Cardinality({d \in windowStart(input(e), p)..p.end : ~paused(d)})

(* Leaving earlier never costs more, a discount or a pause never raises a  *)
(* bill, and a bill is never above the price of the period.                *)
BillsAreFair ==
  \A e \in Enrolled :
    \A p \in periodsUntil(input(e), monthStart[Len(MonthDays)] - 1) :
      LET i == input(e)
          bill == computePeriod(i, price, adjustment[e], p)
          custom == findActive(adjustment[e], "custom_price", p.start)
      IN  bill # None =>
            /\ bill.amount <= IF custom # None THEN custom
                                               ELSE priceOn(price, p.start)
            /\ \A d \in p.start..p.end :
                 computePeriod(i, price, adjustment[e], [p EXCEPT !.end = d]).amount
                   <= bill.amount
            /\ \A n \in DOMAIN adjustment[e] :
                 adjustment[e][n].type # "custom_price" =>
                   bill.amount <=
                     computePeriod(i, price,
                       [adjustment[e] EXCEPT ![n].voided = TRUE], p).amount

(* The two halves of a calendar month, prorated, cost the month, up to one *)
(* unit of rounding: a child that leaves and one that comes the next day.  *)
SplitMonthCostsOneMonth ==
  \A m \in 1..Len(MonthDays) - 1 :
    \A d \in monthStart[m]..monthStart[m + 1] - 2 :
      LET base == [start |-> monthStart[m], end |-> d, mode |-> "calendar_prorated"]
          cost(e) == CHOOSE b \in dueBills(e, price, <<>>, {}, e.start) : TRUE
          rest == [start |-> d + 1, end |-> None, mode |-> "calendar_prorated"]
          full == priceOn(price, monthStart[m])
      IN  (full # None /\ full = priceOn(price, d + 1)) =>
            cost(base).amount + cost(rest).amount \in {full, full + 1}

(* What is asked for a period follows from the price and the days that are *)
(* paid for: see the three above.                                          *)
PricesAreFair ==
  BillsAreFair /\ PausedDaysAreFree /\ SplitMonthCostsOneMonth

-----------------------------------------------------------------------------
(* Integrity rule 8, of recalculation: "If the period now lies after the   *)
(* enrollment endDate, the new amount is 0."                               *)
RecalculatedAfterEndIsZero ==
  [][\A e \in Enrolled, s \in Days :
       (/\ billed[e][s] # None
        /\ billed'[e][s] # billed[e][s]
        /\ enrollment[e].end # None /\ s > enrollment[e].end) =>
         billed'[e][s].amount = 0]_billingVars

=============================================================================
