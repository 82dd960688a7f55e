------------------------------ MODULE Payroll ------------------------------
(***************************************************************************)
(* The payroll of one teacher (payroll/payroll.service.ts): a sheet for    *)
(* every month, a draft that is computed anew whenever it is looked at     *)
(* until it is approved, when its lines are written down.  Lessons of an   *)
(* approved month go on changing; what they change is made up for in the   *)
(* sheet of a later month.                                                 *)
(*                                                                         *)
(* A transaction locks the sheet of its month.  Approving takes three      *)
(* steps, as approvals read what other approvals write: it locks its sheet *)
(* and asks for the approved ones as they are then, computes once it holds *)
(* those that are still approved, and commits.  The other transactions     *)
(* touch only what their locks cover and are one step each, taken when no  *)
(* other transaction holds a row they lock.                                *)
(***************************************************************************)
EXTENDS Salary, Office

CONSTANTS
  Months,        \* the months there can be a sheet for: 1..n
  Lessons,       \* lessons, [id, day, type, key]
  Contracts,     \* the versions of the terms at the start
  CloseDays,     \* days the last version may be closed on
  Absences, AbsenceRows,
  Extras, ExtraRows,
  Adjustments, AdjustmentAmounts,
  Payments,
  WorkedDays     \* overrides of the days worked

SheetRows ==
  [status: {"draft", "approved"}, workedDays: WorkedDays \cup {None}]

(* The entries of a month, as they are and as they are voided.             *)
AbsenceEntries ==
  {r \in [start: Int, end: Int, paid: BOOLEAN, voided: BOOLEAN] :
     monthOf(r.start)..monthOf(r.end) \subseteq Months}
HourEntries ==
  [month: Months, day: Int \cup {None}, hours: Int, rate: Int \cup {None},
   voided: BOOLEAN]
AdjustmentEntries ==
  [month: Months, amount: AdjustmentAmounts, voided: BOOLEAN]
PaymentRows == [month: Months, afterApproval: BOOLEAN, voided: BOOLEAN]

ASSUME PayrollAssumption ==
  /\ Months \subseteq Int /\ MonthLength \in Nat \ {0}
  /\ AbsenceRows \subseteq AbsenceEntries /\ ExtraRows \subseteq HourEntries
  /\ \A row \in AbsenceRows : ~row.voided
  /\ \A row \in ExtraRows : ~row.voided
  /\ None \notin AbsenceEntries /\ None \notin HourEntries
  /\ None \notin AdjustmentEntries /\ None \notin PaymentRows
  /\ None \notin SheetRows

VARIABLES
  thisMonth,    \* the current month
  terms,        \* versions of the salary terms
  given,        \* the lessons that count for the teacher now
  sheet,        \* month -> its PayrollSheet, or None
  line,         \* month -> what approving it wrote down, or None
  absence, extra, adjustment, payment,
  tx            \* transaction -> what it is in the middle of

entries == <<absence, extra, adjustment, payment>>
books == <<sheet, line>>
payrollVars == <<thisMonth, terms, given, books, entries, tx>>

-----------------------------------------------------------------------------
(* Rows and locks                                                          *)

Draft == [status |-> "draft", workedDays |-> None]

(* A transaction that has not begun.                                       *)
Idle == [op |-> "idle"]

InFlight == {t \in Txs : tx[t].op # "idle"}

Live(table) == {k \in DOMAIN table : table[k] # None /\ ~table[k].voided}

inMonth(table, m) ==
  {k \in DOMAIN table : table[k] # None /\ table[k].month = m}

(* The absences a month overlaps, voided ones too.                         *)
absencesOf(m) ==
  {a \in Absences : /\ absence[a] # None
                    /\ monthOf(absence[a].start) <= m
                    /\ m <= monthOf(absence[a].end)}

approved(m) == sheet[m] # None /\ sheet[m].status = "approved"
Approved == {m \in Months : approved(m)}

status(m) == IF approved(m) THEN "approved" ELSE "draft"

locked(t, m) == t \in InFlight /\ m \in tx[t].held

lockable(ms, others) == \A t \in others, m \in ms : ~locked(t, m)

(* lockSheet creates the sheet when there is none.                         *)
sheetOf(m) == IF sheet[m] = None THEN Draft ELSE sheet[m]

(* A transaction of one step on the draft sheets of ms.                    *)
lockDrafts(ms) ==
  /\ lockable(ms, Txs)
  /\ \A m \in ms : status(m) = "draft"
  /\ sheet' = [m \in Months |-> IF m \in ms THEN sheetOf(m) ELSE sheet[m]]
  /\ UNCHANGED line

-----------------------------------------------------------------------------
(* PayrollBuilder.compute                                                  *)

lessonsIn(ms) == {l \in given : monthOf(l.day) \in ms}

(* The lesson and correction lines of every approved sheet, for lessons    *)
(* before the month.                                                       *)
booked(m) ==
  {b \in UNION {line[s].lessons : s \in Approved} :
     monthOf(b.lesson.day) < m}

computeSheet(m) ==
  LET past  == {s \in Approved : s < m}
      days  == sheetDays(m, terms, sheet[m].workedDays,
                         {absence[a] : a \in absencesOf(m)})
      fresh == lessonLines(lessonsIn({m}), terms)
      fixes == IF past = {} THEN {}
               ELSE correctionLines(lessonsIn(past), booked(m), terms)
      bonus == Live(adjustment) \cap inMonth(adjustment, m)
      hours == Live(extra) \cap inMonth(extra, m)
  IN [days |-> days,
      lessons |-> {[sheet |-> m, lesson |-> b.lesson, amount |-> b.amount] :
                     b \in fresh \cup fixes},
      other |-> basePay(m, terms, days) + allowances(m, terms, days)
                + extraHours(m, terms, {extra[k] : k \in hours})
                + MapThenSumSet(LAMBDA j : adjustment[j].amount, bonus),
      from |-> [extra |-> hours, adjustment |-> bonus,
                absence |-> Live(absence) \cap absencesOf(m)]]

-----------------------------------------------------------------------------
(* Approving a month and opening it again                                  *)

BeginApprove(t, m) ==
  /\ t \notin InFlight
  /\ m <= thisMonth
  /\ lockDrafts({m})
  /\ tx' = [tx EXCEPT ![t] = [op |-> "approve", month |-> m, want |-> Approved,
                              held |-> {m}]]
  /\ UNCHANGED <<thisMonth, terms, given, entries>>

(* Mutant of granted: the sheets are taken without waiting for their       *)
(* locks.                                                                  *)
grantedAtOnce(t) == t \in InFlight

(* lockApproved holds those of the sheets it asked for that are approved   *)
(* still when it gets them.                                                *)
granted(t) ==
  /\ t \in InFlight
  /\ lockable(tx[t].want, Txs \ {t})

ComputeApprove(t) ==
  /\ granted(t)
  /\ tx[t].op = "approve"
  /\ tx' = [tx EXCEPT ![t] = [op |-> "commit", month |-> tx[t].month,
                              want |-> tx[t].want,
                              held |-> tx[t].held \cup (tx[t].want \cap Approved),
                              lines |-> computeSheet(tx[t].month)]]
  /\ UNCHANGED <<thisMonth, terms, given, books, entries>>

CommitApprove(t) ==
  /\ tx[t].op = "commit"
  /\ sheet' = [sheet EXCEPT ![tx[t].month].status = "approved"]
  /\ line' = [line EXCEPT ![tx[t].month] = tx[t].lines]
  /\ payment' = [p \in Payments |->
       IF p \in inMonth(payment, tx[t].month)
       THEN [payment[p] EXCEPT !.afterApproval = FALSE] ELSE payment[p]]
  /\ tx' = [tx EXCEPT ![t] = Idle]
  /\ UNCHANGED <<thisMonth, terms, given, absence, extra, adjustment>>

BeginReopen(t, m) ==
  /\ t \notin InFlight
  /\ tx' = [tx EXCEPT ![t] = [op |-> "reopen", month |-> m, want |-> Approved,
                              held |-> {}]]
  /\ UNCHANGED <<thisMonth, terms, given, books, entries>>

paidAfter(m) ==
  \E p \in Live(payment) \cap inMonth(payment, m) : payment[p].afterApproval

corrected(m) ==
  \E s \in Approved \ {m} : \E b \in line[s].lessons :
    monthOf(b.lesson.day) = m

Reopen(t) ==
  /\ granted(t)
  /\ tx[t].op = "reopen"
  /\ LET m == tx[t].month IN
     IF approved(m) /\ m \in tx[t].want /\ ~paidAfter(m) /\ ~corrected(m)
     THEN /\ sheet' = [sheet EXCEPT ![m].status = "draft"]
          /\ line' = [line EXCEPT ![m] = None]
     ELSE UNCHANGED books
  /\ tx' = [tx EXCEPT ![t] = Idle]
  /\ UNCHANGED <<thisMonth, terms, given, entries>>

(* The connection is lost and the transaction rolled back.                 *)
Abort(t) ==
  /\ t \in InFlight
  /\ tx' = [tx EXCEPT ![t] = Idle]
  /\ UNCHANGED <<thisMonth, terms, given, books, entries>>

-----------------------------------------------------------------------------
(* What a draft is made of                                                 *)

setWorkedDays(m, n) ==
  /\ lockable({m}, Txs) /\ status(m) = "draft"
  /\ sheet' = [sheet EXCEPT ![m] = [sheetOf(m) EXCEPT !.workedDays = n]]
  /\ UNCHANGED <<thisMonth, terms, given, line, entries, tx>>

addAdjustment(j, m, amount) ==
  /\ adjustment[j] = None
  /\ lockDrafts({m})
  /\ adjustment' = [adjustment EXCEPT ![j] =
       [month |-> m, amount |-> amount, voided |-> FALSE]]
  /\ UNCHANGED <<thisMonth, terms, given, absence, extra, payment, tx>>

voidAdjustment(j) ==
  /\ j \in Live(adjustment)
  /\ lockDrafts({adjustment[j].month})
  /\ adjustment' = [adjustment EXCEPT ![j].voided = TRUE]
  /\ UNCHANGED <<thisMonth, terms, given, absence, extra, payment, tx>>

(* A payment is recorded whatever the status of the sheet.                 *)
addPayment(p, m) ==
  /\ payment[p] = None
  /\ lockable({m}, Txs)
  /\ sheet' = [sheet EXCEPT ![m] = sheetOf(m)]
  /\ payment' = [payment EXCEPT ![p] =
       [month |-> m, afterApproval |-> approved(m), voided |-> FALSE]]
  /\ UNCHANGED <<thisMonth, terms, given, line, absence, extra, adjustment, tx>>

voidPayment(p) ==
  /\ p \in Live(payment)
  /\ lockable({payment[p].month}, Txs)
  /\ payment' = [payment EXCEPT ![p].voided = TRUE]
  /\ UNCHANGED <<thisMonth, terms, given, books, absence, extra, adjustment, tx>>

(* The version whose rate the hours need: of their day, or the last of     *)
(* the month.                                                              *)
versionFor(row) ==
  IF row.day # None THEN termsOn(terms, row.day)
  ELSE LET ts == monthSegments(row.month, terms)
       IN IF ts = {} THEN None
          ELSE CHOOSE t \in ts : \A u \in ts : u.from <= t.from

addExtraHours(k, row) ==
  /\ extra[k] = None
  /\ row.month <= thisMonth
  /\ lockDrafts({row.month})
  /\ versionFor(row) # None
  /\ row.rate # None \/ versionFor(row).extraHourRate # None
  /\ extra' = [extra EXCEPT ![k] = row]
  /\ UNCHANGED <<thisMonth, terms, given, absence, adjustment, payment, tx>>

voidExtraHours(k) ==
  /\ k \in Live(extra)
  /\ lockDrafts({extra[k].month})
  /\ extra' = [extra EXCEPT ![k].voided = TRUE]
  /\ UNCHANGED <<thisMonth, terms, given, absence, adjustment, payment, tx>>

(* Mutant of lockMonths: an absence over two months locks the sheet of the *)
(* first.                                                                  *)
lockFirstMonth(row) == lockDrafts({monthOf(row.start)})

lockMonths(row) == lockDrafts(monthOf(row.start)..monthOf(row.end))

addAbsence(a, row) ==
  /\ absence[a] = None
  /\ lockMonths(row)
  /\ \A b \in Live(absence) :
       absence[b].start > row.end \/ absence[b].end < row.start
  /\ absence' = [absence EXCEPT ![a] = row]
  /\ UNCHANGED <<thisMonth, terms, given, extra, adjustment, payment, tx>>

voidAbsence(a) ==
  /\ a \in Live(absence)
  /\ lockMonths(absence[a])
  /\ absence' = [absence EXCEPT ![a].voided = TRUE]
  /\ UNCHANGED <<thisMonth, terms, given, extra, adjustment, payment, tx>>

-----------------------------------------------------------------------------
(* What happens elsewhere                                                  *)

(* A lesson is recorded, handed over to this teacher or attended after     *)
(* all; or the other way round.                                            *)
ChangeLesson(l) ==
  /\ given' = IF l \in given THEN given \ {l} ELSE given \cup {l}
  /\ UNCHANGED <<thisMonth, terms, books, entries, tx>>

(* SalaryTermsService.close: the open version ends, maybe in the past.     *)
close(t, day) ==
  /\ t.to = None /\ t.from <= day
  /\ terms' = (terms \ {t}) \cup {[t EXCEPT !.to = day]}
  /\ UNCHANGED <<thisMonth, given, books, entries, tx>>

NextMonth ==
  /\ thisMonth + 1 \in Months
  /\ thisMonth' = thisMonth + 1
  /\ UNCHANGED <<terms, given, books, entries, tx>>

-----------------------------------------------------------------------------
PayrollInit ==
  /\ thisMonth \in Months
  /\ terms = Contracts
  /\ given \in SUBSET Lessons
  /\ sheet = [m \in Months |-> None] /\ line = [m \in Months |-> None]
  /\ absence = [a \in Absences |-> None]
  /\ extra = [k \in Extras |-> None]
  /\ adjustment = [j \in Adjustments |-> None]
  /\ payment = [p \in Payments |-> None]
  /\ tx = [t \in Txs |-> Idle]

Approval(t) ==
  \/ \E m \in Months : BeginApprove(t, m) \/ BeginReopen(t, m)
  \/ ComputeApprove(t)
  \/ CommitApprove(t)
  \/ Reopen(t)
  \/ Abort(t)

Entry ==
  \/ \E m \in Months : \E n \in WorkedDays : setWorkedDays(m, n)
  \/ \E j \in Adjustments :
       \/ \E m \in Months : \E x \in AdjustmentAmounts : addAdjustment(j, m, x)
       \/ voidAdjustment(j)
  \/ \E p \in Payments : (\E m \in Months : addPayment(p, m)) \/ voidPayment(p)
  \/ \E k \in Extras :
       (\E row \in ExtraRows : addExtraHours(k, row)) \/ voidExtraHours(k)
  \/ \E a \in Absences :
       (\E row \in AbsenceRows : addAbsence(a, row)) \/ voidAbsence(a)

Elsewhere ==
  \/ \E l \in Lessons : ChangeLesson(l)
  \/ \E t \in terms : \E day \in CloseDays : close(t, day)
  \/ NextMonth

PayrollNext == (\E t \in Txs : Approval(t)) \/ Entry \/ Elsewhere

PayrollSpec == PayrollInit /\ [][PayrollNext]_payrollVars

-----------------------------------------------------------------------------
PayrollTypeOK ==
  /\ thisMonth \in Months /\ given \subseteq Lessons
  /\ sheet \in [Months -> SheetRows \cup {None}]
  /\ absence \in [Absences -> AbsenceEntries \cup {None}]
  /\ extra \in [Extras -> HourEntries \cup {None}]
  /\ adjustment \in [Adjustments -> AdjustmentEntries \cup {None}]
  /\ payment \in [Payments -> PaymentRows \cup {None}]
  /\ \A t \in Txs :
       /\ tx[t].op \in {"idle", "approve", "commit", "reopen"}
       /\ t \in InFlight =>
            /\ tx[t].month \in Months
            /\ tx[t].held \subseteq Months /\ tx[t].want \subseteq Months
  /\ line = [m \in Months |-> line[m]] /\ tx = [t \in Txs |-> tx[t]]

(* An approved month is frozen: its lines were made from exactly the extra *)
(* hours, the adjustments and the absences that stand for it now.  They    *)
(* were read under the lock of the sheet, and whatever would change them   *)
(* takes that lock and finds the month approved.                           *)
ApprovedIsFrozen ==
  \A m \in Approved : line[m].from =
    [extra |-> Live(extra) \cap inMonth(extra, m),
     adjustment |-> Live(adjustment) \cap inMonth(adjustment, m),
     absence |-> Live(absence) \cap absencesOf(m)]

(* A correction in an approved sheet is about a month that is approved, so *)
(* a month opened again is never paid both by its own lines and by the     *)
(* corrections of another.                                                 *)
CorrectionsHaveBase ==
  \A s \in Approved : \A b \in line[s].lessons :
    monthOf(b.lesson.day) \in Approved

(* What was approved rests on what is still there: the entries of its      *)
(* month, and the approval of the months it corrects.                      *)
BooksAreFrozen == ApprovedIsFrozen /\ CorrectionsHaveBase

(* Approving a month leaves every lesson of the approved months before it  *)
(* paid at its rate or not at all, over all the approved sheets together,  *)
(* however often the lesson came and went and months were opened again.    *)
(* (Rates of terms that have started never change.)                        *)
allLines == UNION {line[s].lessons : s \in Approved}

PaidBefore(m) ==
  \A l \in Lessons :
    monthOf(l.day) \in Approved /\ monthOf(l.day) < m =>
      net(allLines, l) \in {0, priceOf(Contracts, l)}

PaidOnce ==
  [][\A t \in Txs : \A m \in Months :
        CommitApprove(t) /\ tx[t].month = m => PaidBefore(m)']_payrollVars

=============================================================================
