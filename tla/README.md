# A TLA+ verification of EduNest's backend

EduNest is the backend of a private school and kindergarten: a NestJS
application over one PostgreSQL database, reached through Prisma. Almost
everything that can go wrong in it goes wrong in the database: requests, nightly
jobs, webhooks and several people at once read rows, decide, and write rows,
some under row locks, some in a transaction without a lock, some in no
transaction at all. This project models that: the rows are the variables, a
handler is an action, or several where the code reads first and writes later.

## 1. Inventory

Paths are relative to `src/src/`. "Hard" names what a unit test (the
repository's tests mock Prisma) does not reach.

| Component | State | Operations | Interacts with | Hard |
|---|---|---|---|---|
| Finance ledger, `finance/` | `Charge`, `Payment`, `Allocation` | create and void a charge, create and void a payment, allocate, void an allocation; balance, suggestion | everything that charges, online payments | concurrent spending of one amount, lock order, voids meeting allocations |
| Online payments, `online-payments/` | `PaymentRequest`, `PaymentInvoice`, the bank | link, pay from the cabinet or a link, cancel, webhook, poll, expire, credit | ledger, bank, scheduler | lost, repeated and late answers; crash between bank and insert; crediting as one transaction |
| Monthly billing, `tariffs/billing*`, `dates.ts` | `BilledPeriod`, `Charge`, `AppSetting` | nightly run, bill one, recalculate, lead days | ledger, enrollments, scheduler | double billing, stale recalculation, failing runs, calendar edges |
| Enrollments, `tariffs/enrollments*` | `Enrollment`, `EnrollmentAdjustment` | enrol, end, adjust, void an adjustment | billing | checks outside a transaction |
| Tariffs, `tariffs/tariffs*` | `Tariff`, `TariffPrice` | create, update, price, delete | billing, classes, meals | counts before a change of mode or a delete |
| Adaptation, `tariffs/adaptation*` | `AdaptationVisit`, `Charge` | create, void | ledger | voids that meet |
| Classes, `classes/` | `ClassGroup`, members, `Lesson`, `LessonAttendance`, `Package`, `SessionUsage` | mark a lesson, correct a mark, buy, extend, void and reconcile a package, migrate old subscriptions | ledger, tariffs | the last session taken twice, lock order, corrections |
| Old subscriptions, `subscriptions/`, `subscription-types/` | `Subscription`, `Attendance` | sell, mark, cancel | migration | counter of remaining sessions |
| Meals, `meals/` | `MenuDay`, `MealOrder`, directories, the order deadline | save, fill, copy, publish, unpublish and delete menus, order, cancel, charge | ledger, notices | a menu changed under orders that are being made, two orders of a day |
| Absence notices, `attendance/notices.service.ts` | `AbsenceNotice` | send, approve, reject, cancel | meals | an approval that meets an order, notices that overlap |
| Finance views, `finance/finance-view.ts`, `parent-cabinet/cabinet-calc.ts`, `reports/` | none | balances, the money of the cabinet, reports | ledger | five sums of the same money, each with filters of its own |
| Daily attendance, `attendance/` | `DailyAttendance`, `CalendarDay`, reasons, the window for corrections | save a register, calendar, five views of a day | notices, daily notes, payroll | a save that meets a save, a notice or a move; views that disagree |
| Payroll, `payroll/` | `PayrollSheet`, lines, absences, hours, adjustments, payments, salary terms | approve, reopen, pay; enter and void; create, close and delete terms | timetable, classes, attendance | building from data that changes; two approvals that correct the same months |
| Timetable, `timetable/` | `Timetable`, `LessonChange`, `SchoolLesson` | replace a timetable, change a day, record a lesson | payroll, attendance | conflicts over several classes and hours, managers who check and write later beside each other and beside teachers, one lesson recorded twice |
| Routine, `routine/` | templates, days | plan, copy, edit a day | groups | versions inserted and removed in any order |
| Daily notes, `daily-notes/` | sets, questions, answers | edit a set, answer | groups, attendance | a set edited while it is answered |
| Staff tasks, `staff-tasks/` | `StaffTask`, assignees | give, change, cancel, mark | users | marking while the task changes; two definitions of an open task |
| Users, positions, `users/`, `positions/` | `User`, `Position` | create, edit, assign, deactivate, delete | payroll, access | a position that changes while it is given to somebody |
| Institutions, groups, children | the tree of who belongs where | create, move, close, delete | enrollments, meals | moving what is enrolled or fed |
| Audit, `audit/` | `AuditEvent`, `AuditChange` | record beside a change, retain | all | a change without its record |
| Backups, `backups/` | `BackupRun`, files, a flag in memory | back up, retain, recover at start | scheduler | a crash at any statement; the order of the events of a child process |
| Access, auth, dashboard, parent cabinet, reports, glue | none of their own, or tokens | reads and decisions | all | - |

What makes the modelled components correct:

* **Ledger**: the integrity rules of `docs/superpowers/specs/2026-10-11-finance-design.md`
  (an allocation joins a charge and a payment of one child and one category,
  neither voided; no payment is overdrawn; no charge is overpaid), whatever
  requests meet; a balance that does not depend on how money is allocated; the
  oldest debt paid first; no request left waiting for ever.
* **Online payments**: a payment exactly for the money the bank took, once; a
  request paid exactly when an invoice of it is; outcomes that late answers do
  not overturn; money received is recorded in the end.
* **Billing**: one charge that counts for a period, no day billed twice, every
  due period billed; periods that partition an enrollment; prorated prices that
  add up to the month.
* **Meals**: one order of a child and day; what is ordered is on a published
  menu until the day comes; a child whose absence was approved in time is neither
  cooked for nor charged; no overlapping notices.
* **Classes**: one mark of a child at a lesson; a mark that stands is the only
  one that costs; no package overdrawn or voided in use; sessions taken while
  their package is valid.
* **Tariffs and visits**: a voided visit costs nothing, whoever voids it or its
  charge, or pays it, at the same time.
* **Register and notes**: one mark and one answer of a child and day; every page
  tells the same of a day; a marked day stays marked; answers are given only to
  questions that are asked.
* **Payroll**: what is approved does not change with what it was made of; a
  lesson is paid once over all months; no day belongs to two versions of terms.
* **Timetable**: nobody is needed in two places at once, if managers take turns; a
  lesson recorded in time stands.
* **Routine**: the versions of a group partition the days from the first on.
* **Tasks, staff, places**: cancelled tasks are frozen and nobody's task is
  overlooked; the role follows the position; whoever is enrolled or fed stays at
  the institution it is enrolled at.
* **Backups**: a file with the name of a copy is a whole copy; there is a copy
  where the status or the retention promises one.

`PROJECT.json` lists the hazards at the lines where they bite, with the
properties that would show them, or why none does.

## 2. Modules

| Module | Models |
|---|---|
| `Nothing` | `None`, the constant for what is not there |
| `Money` | amounts and their sums, written with `Cardinality` so that their laws follow from those of finite sets |
| `Ledger` | the ledger as the finance design describes it: each operation one step |
| `LedgerTx` | the ledger as the code runs it: statements of concurrent transactions, row locks, deadlocks; implements `Ledger` |
| `Suggestion` | `suggestAllocation`, and the credit of an online payment, on top of `Ledger` |
| `LedgerProofs` | the laws of sums, theorems about `Ledger`, that `LedgerTx` implements it, and what can deadlock |
| `OnlinePayments` | requests, invoices, the bank and its answers |
| `BillingEngine` | the calendar, periods and bills: pure operators |
| `Billing` | enrollments, adjustments, prices, runs and recalculation, by concurrent workers |
| `BillingProofs` | theorems about `Billing`, the operators of `BillingEngine`, and `OnlinePayments` |
| `Classes` | lessons marked and corrected in transactions of several statements, packages bought, extended, voided |
| `ClassesProofs` | theorems about `Classes` |
| `School` | the children, days and identities that `Meals`, `Register` and `DailyNotes` share |
| `Meals` | menus, orders and absence notices, with the locks they meet at |
| `FinanceViews` | balances, the cabinet's money and the reports, on top of `Suggestion` |
| `FinanceProofs` | that crediting implements `Ledger`; theorems about `Suggestion` and `FinanceViews` |
| `Tariffs` | the list of tariffs, adaptation visits and their charges |
| `Places` | institutions, groups and children, under the locks of `move-guard.ts` |
| `Routine` | the routine of kindergarten groups |
| `PlacesProofs` | theorems about `Places`, `Tariffs` and `Routine` |
| `Register`, `DailyNotes` | the register of a day; the notes of a day on top of it |
| `DayProofs` | theorems about `Meals`, `Register` and `DailyNotes` |
| `Salary`, `Payroll` | a sheet as operators; approving, reopening and entering on top of it |
| `Timetable` | versions, changes of a day, recorded lessons, managers' requests on their way |
| `TimetableProofs` | theorems about `Timetable` |
| `Backups` | a backup from the request to the record, the child process, retention, crashes and restores |
| `Office` | the constants that `SalaryTerms`, `Staff` and `StaffTasks` share |
| `SalaryTerms` | the versions of salary terms |
| `Staff` | users and positions |
| `StaffTasks` | tasks of the staff |
| `OfficeProofs` | theorems about `SalaryTerms`, `Payroll`, `Staff`, `StaffTasks` and `Backups` |
| `MCLedger`, `MCLedgerTx`, `MCOnlinePayments`, `MCBilling`, `MCClasses` | instances of one component for TLC |
| `MCFamilies`, `MCDay`, `MCOffice`, `MCLiveness` | instances of several components that share no state, one at a time |

Names follow the source: `applyAllocations` checks are `MayApply` and
`ItemAllowed`, `chargeRemaining`, `paymentFree`, `linkState`, `isSettled`,
`periodsUntil`, `computePeriod`, `dueBills` are themselves. A handler that reads,
decides and writes in one transaction under the right locks is one action; one
that does not is two (`BeginX`, `X`) with the others in between. Operators
written as a plausible bug ("Mutant of ...") stand before the definition they
alter; no specification uses them.

### Ledger

`charge`, `payment` and `allocation` map an identifier to a row or `None`. Rows
are created and voided, never edited. `CreatePayment` and `Allocate` are
`PaymentsService.create` and `allocate`: the guard is every check of
`applyAllocations`, which refuses the request whole. `items` maps the identifier
of each allocation to be created to its line, so that two lines for one charge
can be expressed (and must be refused).

`LedgerTx` adds what a transaction is at (`req`, `pc`), what it has still to
lock (`todo`), what it has changed without having committed (`mine`) and who
holds a row (`lock`). READ COMMITTED is modelled as the code relies on it: a
statement sees what is committed, `FOR UPDATE` and `UPDATE` wait for the holder,
and an `UPDATE` skips a row that no longer matches once its lock is granted.
`voidAllocation` takes no lock but that of the allocation, as in the code.
`BreakDeadlock` is PostgreSQL's detector, `Abort` is a timeout or a crash.

### OnlinePayments

`answers` holds what has been read from the bank and not applied: in the code
`getStatus` is awaited before the transaction of `applyInvoiceStatus` begins, so
any number of answers to one invoice can be on their way. `drafts` are invoices
the bank has created and the program has not inserted, `cancelling` the cancels
between check and update. The bank may succeed, fail, take another amount
(`partial`) or expire an invoice, and may succeed after a failure (the payer tries
again). A failure whose reason is `amount mismatch` has a status of its own in
the model, since `isSettled` tells it apart. The four cases of
`applyInvoiceStatus` are `Ignore`, `RecordFailure`, `RecordMismatch`, `Credit`;
`FailToApply` is its transaction rolled back.

### BillingEngine and Billing

Days are numbered; a calendar is a sequence of month lengths, so that clamping
(the 31st of a short month) happens on months of two and three days. Amounts are
counted in kopecks, so that rounding to two decimals is rounding to an integer.
`computePeriod` keeps the order of the code: custom price or the latest price,
percent, fixed discount, floor, days minus pauses, rounding half up.

In `Billing` a worker is a request or the job. `BeginRun` reads all enrollments
at once (the code's `findMany`) and the bills of all are processed in any order,
which includes the code's order. `BillNext` is the transaction that creates the
charge and the `BilledPeriod`; when the unique key refuses the period, neither
is kept. `BeginRecalculate` computes the bill, `Recalculate` is its transaction.
`Ops` names the operations an instance allows, to keep state spaces apart.
Left out: checks of rows that do not change here (activity, unit and institution
of a tariff), descriptions, notes and the audit trail. `no_price` cannot happen
to an enrolled child, because a price at the start is required and prices are
never removed.

### Classes

One direction. `tx` holds what a request has done and not committed: `LockLesson`
is the insert, the `FOR UPDATE` and the read of the marks that stand; then, for
each child in any order, `Skip` or `Mark` (with the reversal of the mark it
corrects), and if the rule takes a session `LockPackages`, `Pick` and `Use`, the
three statements of `consume`. Rows that are written stay in the transaction
until `Commit` or `Fail`. What a `FOR UPDATE` excludes is the `FOR UPDATE` of
others and the `FOR KEY SHARE` by which an insert holds the row it refers to.
Packages are numbered in the order of `createdAt`. `late` is an auxiliary
component: it says that a usage took a package which did not exist when the
packages of the child were locked, so that the promise the locks do keep
(`LocksProtectPackages`) can be told from the one they do not
(`VoidedPackagesUnused`).

Abstracted: membership and guests, dates in the future, who may correct a mark
and with which reason are conditions under which a request fails, and `Fail` may
happen at any point. A single lesson has a price or has none (`Priced`). The
charge of a usage or of a package is open or voided; what is allocated to it is
the subject of `Ledger`. Left out: the directory of directions, groups and
members, and the reconciliation of migrated packages.

### Meals

One institution: a request for several does the same for each of them in turn.
`menu` maps a working day to its `MenuDay` row and dishes, `order` and `notice`
hold rows, `tx` what each request has looked up and not yet used. The two locks
the program relies on are in the steps of an order. `LockChild` takes the row of
the child `FOR UPDATE`; `Cancel`, `Approve` and `BeginNotice` wait for it
(`ChildFree`). `Choose` takes the menus `FOR SHARE`; whatever locks a menu `FOR
UPDATE`, or updates it, waits for that (`MenusFree`). `Choose` reads the menus and
checks every day, `Write` commits the orders and charges of all days.

The kitchen's handlers look rows up first: `BeginSave`, `BeginUnpublish`,
`BeginDelete` in the transaction but before the lock, `BeginFill` before the
transaction. Their second step locks, reads again what the code reads again, and
no more: `Fill` trusts the first read for which days have a row, and fails as a
whole where a foreign key or the unique day refuses it. `saveDay` has three
endings: the row it found (`SaveExisting`), a new one (`SaveNew`), and a row that
appeared after its first read (`SaveOther`), which its upsert finds and whose
dishes it replaces with neither lock nor check. Whether an upsert with an empty
update touches the row is a matter of the database client; the model lets it go
ahead.

Three components of rows are auxiliary, no column of the program: `blind` marks
the menus `SaveOther` has replaced, so that the promise the locks keep
(`OrdersAreServed`) can be told from the one they do not (`OrderedDishesStay`);
`knew` has the notices that were approved when the order locked its child, since
the program lets a family order again after an approval; `cleared` has the days
an approval was in time for.

Abstracted: an instant is half a day, and a deadline lies before the first or
the second half; a price is left out and a charge is open or voided. Checks of
the calendar, the group, the category, the price and the activity of complex and
dish are ways in which a request fails, and `Fail` may happen at any point.

### FinanceViews

Each view is an operator over the same three tables, with the filters of its own
code: `balanceRow` and `getBalances` (the balances page), `childMoney` (the
cabinet), `chargesReport`, `paymentsReport` and `debtsReport`. `MoneyAddsUp`
relates them: what one page shows as due another shows as due, on every day, and
the reports of two consecutive periods add up to what is owed. Constants give a
charge its due date, its end and the time it was entered.

### Tariffs

`tariff` holds the rows with their prices, `link` the enrollments and class
groups that use them, `visit` and `visitCharge` the adaptation visits, and
`saving` what each request has read and is going to write. Nothing but a charge is locked, so creating, changing and deleting a tariff, and using one, are
two steps each; the foreign keys of the database are in the second. A charge is
voided and allocated to under its lock. What prices and modes do to bills is in
`Billing`.

### Places

`Begin*` is a request that has looked its rows up and locked the first of them;
the locks come in the order group, institution, children, as in the code. A
booking is an enrollment (`to` is its last day) or a meal order; both lock the
child and look it up again. A group that is deleted leaves its children without
one, and a child without a group may be put into any: the guard asks about the
institution the child leaves, so nothing is asked then. The restrictions of the
instance (the first institution and its group stand still, among others) are in
`MCFamilies`.

### Routine

`insertVersion`, `removeVersion` and `versionOn` are pure operators over the
versions of one group (`routine-calc.ts`). What a version says is the set of
weekdays it has items for. Every request locks the group first and is one step,
except a copy, which reads the other group before.

### Register and DailyNotes

`resolveDay` joins a mark, a notice and the calendar; `day`, `month`, `childDays`
and `expectedPresence` are the pages that use it, each with the group it looks
the calendar up for. A save checks first, then locks the children in the order of
their identities, then voids and writes. `DailyNotes` extends `Register`: an
answer needs the lock of the child and a shared lock of the sets of the group, and
changing a set needs the lock alone. The value of an answer is reduced to whether
it is valid for the type of the question.

### Salary, Payroll and SalaryTerms

`Salary` is `payroll-calc.ts` with exact quotients: a month is a run of
`MonthLength` days, and `round` rounds half up. `Payroll` gives approving three
steps (lock the sheet and ask for the approved ones; compute; commit), since it
reads what other approvals write; everything else takes its locks in one step and
waits for whoever holds them. Notices of absence, lessons, extra hours,
adjustments and payments come and go. `sheet` holds the row of a month (its
status and the days entered by hand), `line` what was written down when it was
approved, and `tx` what each transaction is at. A line remembers which entries it was made
from (`from`, no column of the program), so that `BooksAreFrozen` can compare it
with what stands now.

`SalaryTerms` is the versions alone: creating locks the teacher and closes the
open version, deleting locks the version and gives its days back, closing locks
nothing and is the interesting one.

### Timetable

A version of the timetable has entries for weekdays and parities, a change
cancels, replaces or adds a lesson of a day; the slots of a day are computed, not
stored. `slotsForDay` is the loop of the code over the changes of a class, as a
recursive function: a change applies to the first slot of its period and subgroup
that is not cancelled, or adds one. Conflicts compare intervals of the bells, so
classes with different hours meet as in the code.

A manager's request is two actions, since the code takes no lock and has no
transaction around both: `BeginCreateTimetable`, `BeginReplaceEntries`,
`BeginCreateChange` and `BeginVoidChange` read and check (what one check reads is
read in one step), `managing` holds what is going to be written, and
`CreateTimetable`, `ReplaceEntries`, `CreateChange` and `VoidChange` write it and
ask nothing again. Teachers and other managers may do anything in between. So
`NoDoubleBooking` is about managers who take turns (`TakeTurns`), and section 5
says what happens if they do not.

A teacher's save is three actions under the locks of the lesson and the children.
The lesson is inserted in the second, but in a transaction: managers see it, like
the marks, when the third commits (`WriteMarks`). A save that only says what the
lesson was about asks for no marks. `late` is an auxiliary component of a lesson:
it is true if, when it was committed, the lesson was not on the timetable, or a
request that takes it off was between its check and its write (`inTime`). Of late
lessons `RecordsStand` promises nothing, and nor does the code.

Two managers who make timetables for a class at once may leave two versions of one
day; the code takes the first it comes upon, the model any one. The transaction
that replaces entries is one action: two that overlap on one version could leave
the entries of both, since no unique key forbids it, and this is not modelled.

### StaffTasks and Staff

`task` and `assignee` hold the rows, `person` who is active and where. The lists
(`givenBy`, `olderGiven`, `mine`, `olderMine`) use the queries of the database,
`assigneeState`, `isClosed` and `overdue` the functions of `tasks-calc.ts`; that the
two agree is a property. A mark locks the task shared, a change or a cancel alone.

In `Staff` a position is locked shared by whoever gives it and alone by whoever
changes it; a user is locked alone. The role is copied from the position when the
position is given. Which changes an actor may ask for is left open. In `StaffTasks`
the roles are constants, so that a person may leave or be removed, but loses no role. The role of a
teacher is read before the transaction that creates salary terms, and the model
keeps that race (see findings).

### Backups

The child process is a record of what has happened to it (`exited`, `flushed`,
`drained`, `timedOut`, `writeFailed`, `settled`), and its events come in any order
the operating system allows; `maybeFinish` is the rule that settles the run.
A copy that is empty (`size === 0`, `backups.service.ts`, line 109) is one of the
ways to fail that `DumpFails` stands for, whatever the child settled as.
`create` is a chain of stages from the row to retention, and the server may stop
after each. A restore brings back the rows of the copy it reads. Since the code
does not await the record of a failed run (`return this.finish(...)`),
`ending` holds the rows that are still to be written.

## 3. Runs

| Run | Bounds | Shows |
|---|---|---|
| `ledger` | 2 charges, payments, allocations, children, categories; amounts to 2; one charge entered late; 2 days | the integrity rules; the suggestion pays the oldest debt first and an online credit is never refused; all views show the same money |
| `ledger_transactions` | 2 transactions, charges of 2 and 1, 2 payments of 2, 2 allocations of 1 (the action constraint `OneByOne`) | every commit is a step of `Ledger`; who can deadlock |
| `classes` | 2 requests, 1 child, lessons on days 1 and 3, an old package with a session left and a new one of a session that ends on day 1 and may be extended to day 2, 3 marks; the rule changes at most at the start (`Staged`) | one mark stands, only it costs, locks protect packages, sessions are taken while they are valid |
| `families` | six foci, below | periods and prices; billing by two workers; exact payments and outcomes that stand; visits; routines; children that move |
| `day` | five sides, below | meals, the register and the notes of a day |
| `office` | ten foci, below | salary terms, payroll, timetable, tasks, staff, backups |
| `eventually` | 2 transactions on 1 charge and 1 payment; 1 invoice with webhooks; 2 workers that enrol, end and bill | every transaction ends, money is recorded, due periods are billed |
| `money_recorded_polling` | 1 invoice, no webhooks | **violated**, see findings |
| `recalculated_after_end` | 2 workers | **violated**, see findings |
| `package_voided_in_use` | as `classes` | **violated**, see findings |
| `ordered_dishes_stay` | as `day` | **violated**, see findings |
| `payroll_reopened` | as the focus `books` of `office`, any month may be reopened | **violated**, see findings |

Four modules put components side by side that share no state: `MCFamilies`,
`MCDay`, `MCOffice` and, for liveness, `MCLiveness`. The first three extend the
modules of their components, so that TLC checks the very definitions the theorems are about and
their assumptions on the constants. A behaviour picks one (its
`focus` or `side`) at the start, runs it, and leaves the others as they are, so
the state spaces add up and do not multiply. The restrictions an instance puts on
its components are definitions of these modules, each with a comment; they choose
inputs, and take no step of a handler apart.

* `families`, where months have 3, 2, 3 and 2 days. *engine*: 1 worker, 3 modes,
  starts, ends, pairs of 5 adjustments, 2 prices. *billing*: 2 workers, 1
  enrollment from the first day on, two periods, a
  discount that makes the second one free; the mode of the tariff stays, as it
  must (section 6). *online*: 1 request, 2 invoices, 2
  answers on their way, time to 2. *tariffs*: 1 tariff, visit and enrollment, 2
  requests, 2 days. *routine*: 2 groups, of which the second copies the first, 3
  days. *places*: 1 child, 2 institutions with a group each, the second of which
  changes, closes, goes and comes; 1 enrollment or order; 2 requests, 2 days.
* `day`. *kitchen*: 2 requests, 2 days, 3 dishes of 2 courses, menus that start
  empty, one order of the staff. *family*: orders, cancels and notices against
  published menus while the deadline moves. *saves*: two saves of the register,
  a calendar that changes, a reason that goes. *views*: one save, with notices,
  calendar entries of every scope and a child that moves between groups. *notes*:
  1 set, 1 question, 3 answers, 2 requests.
* `office`. *terms*: 3 versions, 3 days, 2 requests. *books*: approvals of 3 months of 2
  days, 2 lessons that come and go; the first month is approved and paid, so that
  any two approvals lock a sheet in common (section 6 says what happens if they
  do not). *entries*: absences,
  hours, adjustments and payments beside an approval. *plans*, *changes*, *meet*,
  *marks*: 2 classes of different hours, one of them cut in two halves. In *plans* a
  manager makes and replaces timetables, in *changes* a manager changes days, each
  beside a teacher; in *meet* two managers (one adds a lesson of the second hour,
  one cancels the first, and each takes back either) and a teacher meet on one
  class; in *marks* two teachers. *tasks*:
  3 people, 1 task, 3 hours. *staff*: 2 users, 2 positions, 2 requests.
  *backups*: 3 copies, of which the first may be spoilt in every way.

Why the bounds are enough. Every rule relates at most two allocations of one row,
two children or two categories; two transactions are the least that race, and
each lock cycle the code can form already has length two. One charge may be
allocated to twice and a payment spent twice. Two invoices are two tabs of one
payer. Two answers on their way are a failure and a success that overtake each
other, and the theorems cover any number. Two periods and a half month suffice
for a period to be cut, to be extended and to be followed. Two lessons contend
for the last session, a third mark corrects the first of them, and one child
suffices because packages belong to a child. Of the meals, a row that was deleted
and created again is the second menu row, an order of two days takes two menus at
once; one child suffices because locks, orders and notices belong to a child. A
lesson of a paid month can be corrected from two later months, which is three
months. Three versions of terms are one closed, one open and one to come, and
three copies one that is kept, one that is spoilt and one that replaces them.

The mutants are the other half of the argument: each property is violated when
one definition is changed the way a plausible bug would change it, with these
bounds. `CHECK_DEADLOCK FALSE` is set because each model stops where its
identifiers or its clock are used up; that no transaction waits for ever is
checked as a property instead.

Every module with variables states its type invariant. All of them are theorems;
the runs repeat none of them.

## 4. Fairness

* `LedgerTx`: a connection keeps executing (strong fairness of `Step`, since a
  lock is granted from a queue), and the server resolves deadlocks. Nothing is
  assumed of requests.
* `OnlinePayments`: the polling job runs for ever (`online-payments.scheduler.ts`),
  the bank repeats a webhook until it is accepted, and an answer that keeps
  coming is applied some time: a deadlock or a lost connection is not for ever.
  Nothing is assumed of the payer or of `PollByParent`.
* `Billing`: the job runs every night (`billing.scheduler.ts`), requests end
  (they may end by failing), and the same period does not fail every night.

## 5. Findings

| Run | The code | Says otherwise |
|---|---|---|
| `money_recorded_polling` | `syncPending` polls pending invoices only; without webhooks a success after a recorded failure or expiry is not noticed | online payments design, lines 37 and 49 |
| `recalculated_after_end` | `recalculate` computes from an enrollment read before its transaction | rule 8 (line 246) |
| `package_voided_in_use` | `consume` locks the packages in one statement and reads them in the next, which also returns one bought in between | classes design, rule 9 (line 239) |
| `ordered_dishes_stay` | `saveDay` locks and checks only if its first read found the row; the upsert may find one that was created, published and ordered from since | meals design, line 174 |
| `payroll_reopened` | `correctionLines` takes the largest line of a lesson as its original amount, also when that line made good for two corrections at once after a month was reopened | `payroll-calc.spec.ts`, line 330; payroll design, line 113 |

Other races of this kind are in the models and have no run of their own:
`addAdjustment` checks for overlaps and inserts without a lock (tariffs design,
rule 5, line 243); `end` checks for overlapping enrollments without the lock that
`create` takes; a tariff's `update` counts enrollments before it changes the
mode; `payLink` inserts an invoice for a request that was closed while the bank
answered (online payments design, line 98); two extensions of a package are
stored in the order they finish; a tariff's `update` moves it to another
institution while somebody enrols (institutions design, line 79); salary terms
are created for somebody who stops being a teacher between the check and the
insert (payroll design, line 160, and positions design, line 40); an enrollment
that is over is extended after the child has moved (institutions design, line
75: `BookedWhereTheyAre` is violated when `PlacesNext` allows it, so the instance
does not).

Of the timetable (`docs/superpowers/specs/2026-10-12-school-timetable-design.md`):

* A cancel that found nothing recorded (`lesson-changes.service.ts`, line 107) is
  written (line 131) also if a teacher has recorded the lesson since, and a recorded
  lesson is off the timetable; line 202 of the design wants it refused. The same
  holds for a change that is taken back (lines 203 and 233), a timetable that is
  made from the day of the lesson on (`timetables.service.ts`, lines 210 and 217),
  and entries that are found not to have begun and written after midnight. Without
  `late` `RecordsStand` is violated in the instance.
* Two managers who check at once both find a teacher free and both book them (line
  235); without `TakeTurns` `NoDoubleBooking` does not follow.
* Two timetables made for a class at once leave versions that overlap (line 234).
* Line 235 asks that a new timetable be checked against changes that exist; the code
  checks it against other timetables (`PlansFirst`, section 6).

## 6. Proofs

The theorems hold for every number of rows, children, categories, requests and
invoices, every amount and every length of time, from the named assumptions on
the constants (identifiers are finite sets, `None` is not a row).

* `LedgerProofs!TypeCorrect`, `LedgerIntegrity`, `MoneySpentOnce`. `AllocationsMatch`,
  `PaymentNotOverdrawn` and `ChargeNotOverpaid` are inductive together with
  `TypeOK`. The two bounds are about sums, so the argument is: the active
  allocations of a row after a step are those before it, fewer (a void), or those
  before it and the new ones, which are disjoint from them; the lemmas on sums
  (`SumMonotone`, `SumDisjointUnion`, ...) give the sum of each, from the laws of
  `Cardinality`. `AllocationsMatch` is needed because a void must find all
  allocations of what it voids.
* `LedgerProofs!TransactionsImplementLedger`: `LedgerTx` refines `Ledger`, by the
  identity on the three tables. `TxInv` says of every transaction where it can be
  (`Shape`), what the client's request was checked for (`Asked`), which rows it
  holds and what it saw in them (`Locked`), that what its checks and its
  `updateMany` read is still so (`Read`), and that no lock is held but by the
  statements that take it (`Holding`). What keeps `Read` true is one lemma for
  every step of another transaction: `Keeps(u)` says that the step leaves the
  rows `u` has locked, that active allocations stay as they are or are voided,
  and that new ones belong to rows `u` has not locked; so what is allocated of a
  locked payment or charge only falls. A commit then meets the guard of the
  atomic operation; the sum over the rows it inserts is that over the lines,
  since the rows stand for them one for one (`InsertedRows`). `ConcurrentIntegrity`
  carries the integrity rules over to the committed tables, and `TxTypeCorrect`
  gives the types of transactions and locks.
* `LedgerProofs!OnlyVoidsDeadlock`. Who waits and holds an allocation is in the
  `updateMany` of a void, so those of a deadlocked group who are there wait for
  each other. There are some: otherwise somebody waits for a charge, everybody
  who holds one waits for a later one, and of finitely many charges one is last.
  With three transactions a fourth may wait for two voids that deadlock, which is
  why the property is about the core of a deadlock and not about who waits.
* `FinanceProofs!CreditImplementsLedger`, `CreditKeepsIntegrity`, `SuggestionAccepted`,
  `ViewsAddUp`. Crediting is `PaymentsService.create` with the lines the suggestion
  gives, so every step of `Suggestion` is one of `Ledger` and the invariant is that
  of `Ledger`; the two properties follow from it in every state, by what the views
  and the loop compute. Those are sums over children and categories and a loop over
  the charges, so the proofs are inductions, written in first order: what is false
  for some number, or some finite set, is false for a least one (`LeastOf`, `UpTo`,
  `OneByOne`). A sum is then determined by what one element more adds to it
  (`SumIs`), and money grouped by child or category is the money there is
  (`MoneyByKey`); a report that is split at any day loses and doubles nothing
  (`ReportsSplit`). Of the loop, what is left after some charges is the amount less
  what they need, down to zero (`LeftIs`), which makes each line exact: the oldest
  charges in full, one in part, the rest not at all (`PaysOldestFirst`). The lines
  add up to no more than the amount (`AppliedTotal`), and each is within what its
  charge has left, so `applyAllocations` accepts them. That the order of the charges
  exists is `OrderExists`, that it decides the first of them `FirstIsOldest`.
* `BillingProofs!TypeCorrect`, `PaymentsAreExact`, `PaymentsHaveMoney`,
  `LateAnswersNeverOverturn`. The three invariants are not inductive as they
  stand. `Linked` adds that every invoice belongs to a request that exists, that
  a draft does not yet have a row and no two drafts share an invoice or a new
  request, and that a cancel is of a request that exists; `Settled` adds that an
  answer on its way that says `success` is true of the bank for ever, since a
  success at the bank is final. The action property follows from `Linked` and
  the guards of the four cases.

* `ClassesProofs!TypeCorrect`, `OneMarkStands`, `CorrectionsGiveBack`. What a
  transaction read under the lock of its lesson must still be so when it commits:
  `Sound` says that the marks it read are those that stand, that what it is going
  to write is new, and that every mark of a child it has done again is among
  those it will void; `Apart` says that no other transaction holds its lesson or
  writes its rows, which is what keeps `Sound` true while others commit.
  `PickedPackage` is about the operator: the package chosen is usable and comes
  before every other usable one. Its `CHOOSE` needs a first package to exist,
  which is proved from the well-foundedness of the natural numbers.
* `ClassesProofs!SessionsWithinPackages`, `PackagesProtected`: `PackageInv`, which
  is inductive together with the invariant above. `Left` says that a package has
  a session left once the marks a transaction is about to reverse are gone;
  `Covered` that a row a transaction is about to write is of a package that
  serves its child that day and, unless it is `late`, is locked and has a session
  left; `Alone` that no package is locked twice, so that the commits of others
  take nothing of it. A commit then adds at most one session to a package, since
  a child has one row in a transaction (`Sound`). `WasValid` never becomes false
  again: `Kept` says that what a package was sold with stays and its extensions
  only grow. Assumed of the constants: finitely many marks, and that `None` is
  neither a package nor a day. Nothing is assumed of what was used of a migrated
  package: the old subscriptions do not keep it within what was sold, so the
  property speaks of packages of which a session is taken.

* `DayProofs!TypeCorrect`, `AskedTwiceHadOnce`, `AbsentNotServed`,
  `OrderedIsServed`, `FillSpares`: every property of `Meals` that holds. `Checked` is what is true
  because of the lock of the child: at most one request holds it; what its holder
  found missing (an order of the day, a notice in these days) is still missing;
  it knows every approved notice of its child. An order that is written is then
  new for its day, and knows the notices whose approval it missed. `Held` is what
  is true because of the lock of the menus: what a request has chosen is still on
  them. `OrdersAreServed` is inductive together with it, since every step of the
  kitchen either keeps the row of a day (`KeptRow`) or changes one that nobody
  holds (`FreeNotHeld`) and leaves those who have ordered from it their dishes.
  `FillSpares` follows from what `fill` reads again, and from no invariant.

* `OfficeProofs!TermsTypeCorrect`, `OneVersionADay`. `TermsInv` says that no version
  ends before it starts (`NonEmpty`), that of two versions one ends before the
  other starts (`Ordered`, from which the property follows), and what a request
  has read and may still rely on. One that creates holds the teacher, so no other
  does (`CreatesAlone`); unless the version it will close is deleted meanwhile,
  every other version ends before the new one and before that one
  (`CreateReads`). One that closes does not end its version before it starts, if
  it is still there (`CloseReads`). One that deletes holds its version, whose end
  stays as it was read (`RemoveReads`). The proof has a lemma per kind of request.
* `OfficeProofs!StaffTypeCorrect`, `RolesAreRight`. `UsersLockedAlone` and `ChangedAlone`
  say that no two requests hold a user, and that nobody gives a position that is
  being changed; `LockedExist` that what is held is still there. The role copied
  from a position is then the position's role when it is written.
* `OfficeProofs!TasksTypeCorrect`, `PartsStayFrozen`, `EveryTaskIsSeen`. `MarksHold`
  says that a mark on its way is of a task that is not cancelled and a part that
  is not taken away, since it holds the task shared; `PartsOfTasks` that a part
  belongs to a task that exists. The lists need no more than that: the proof
  compares the queries with the program case by case.

* `OfficeProofs!PayrollTypeCorrect`, `EntriesStayFrozen`, `BooksStayFrozen`.
  `BooksInv` says that a sheet is locked by one transaction at a time, and by one
  that approves it only while it is a draft (`SheetsAreLocked`), and that what is
  going to be written down was made from the entries that stand
  (`ComputedFromStanding`): whoever changes an entry of a month locks its sheet.
  That gives the first half of `BooksAreFrozen` without a hypothesis, an approved
  month rests on exactly the entries that stand (`ApprovedIsFrozen`). The second
  half, that every correction has an approved month it corrects, does not hold of
  every behaviour (see below). It holds from books in order for as long as some
  month `a` stays approved: everybody who approves or opens then locks the sheet
  of `a`, so of those who have computed there is one at a time, and nothing is
  opened before it has committed (`Anchored`).
* `OfficeProofs!BackupsTypeCorrect`, `WholeCopies`, `KeptCopies`. `ChildSound`
  says that output which has ended is all in the file unless writing it failed,
  and that nothing settles well before the exit and the output; `RunKnows` that
  time stands still for a run, that other copies are older than its own, and that
  its own is the newest once it has been renamed. So retention never removes the
  file that was just made, and `FilesFresh` stays: every run that succeeded has
  left a copy at least as new. `MonthsHold` is by an argument of its own: of the
  months that have lost their copies take the latest; all later months were kept,
  and if they were fewer than those promised this one would have been too.
* `BillingProofs!BillingTypeCorrect`, `OneCharge`. `BillsInv` says that the charge
  a period points to exists and has its amount and that all others are voided
  (`Charged`), and what a task has read and may rely on (`TaskKnows`): who
  recalculates has found the period billed, who ends an enrollment has found it.
* `BillingProofs!BilledOnce`. `DaysInv` says that what is billed or going to be are
  periods of the enrollment as its start and mode are (`RowsOfPeriods`,
  `TaskBills`), of which two that start apart do not overlap, whatever its end was
  when they were worked out. The lemmas on `BillingEngine` are about the calendar
  for every sequence of month lengths: months follow each other without a gap, a
  day is of one month, `monthDay` clamps, a period ends before the next starts. The
  hypothesis is `ModeKept`: a tariff with enrollments keeps its mode.
* `BillingProofs!DaysInOnePeriod`, `PricesFair`, about the engine for every calendar,
  price and enrollment. A day that is served is in the period of its own month or
  of the month before, whichever anniversary it is past, and in no other
  (`DaysTile`). A bill is a quotient rounded half up, which grows with the days and
  the price and splits into parts that are off by one at most (`RoundedGrows`,
  `RoundedParts`); pauses that do not meet count each paused day once
  (`PausedOnce`), and without a discount or a pause a period costs no less
  (`VoidingCostsNoLess`). `AdjustmentsInv` says that adjustments of a type do not
  meet, nor the one that is going to be inserted (`Apart`, `ApartFrom`). The
  hypothesis is `AdjustsAlone`: one request at a time adds adjustments.
* `DayProofs!NotesTypeCorrect`, `AnswersKept`, `ViewsOfADayAgree`,
  `MarkedStays`, `AnsweredAsked`. `RegisterInv` says that no child and no set is
  locked twice in ways that exclude each other (`LocksApart`), and that what a save
  found under its lock is all there is until it has written (`MarksKnow`,
  `NotesKnow`): the marks of the day that stand, the answers, the questions of the
  sets. A day has then one mark after a save as before it, and an answer is
  written while its question is asked. The two action properties follow from that.
* `PlacesProofs!PlacesTypeCorrect`, `KindsAlwaysMatch`, `ChildrenWhereTheyAre`.
  `PlacesInv` says what each kind of request knows from the locks it has taken
  (`Knows`), that locks are apart (`LocksApart`), and that groups of children and
  children of bookings exist (`RowsExist`). `PlacesBound` adds that the children a
  request has locked to move are bound by nothing but what is of the institution
  they move to (`Free`). The hypotheses are `EndsStand`, what is over stays over,
  and `GroupsStand`, no group is deleted around a child that is bound.
* `PlacesProofs!TariffsTypeCorrect`, `VisitsCostNothing`. `VoidersKnow`: whoever
  voids a visit and leaves its charge alone has seen that it is voided, for good.
* `PlacesProofs!RoutineTypeCorrect`, `RoutineFollows`. The versions of a group tile
  the days from the first on (`Tiled`), which `insertVersion` and `removeVersion`
  keep: the version that runs on a day is cut there, or takes over up to the next.

* `TimetableProofs!TimetableTypeCorrect`, `RecordedStands`. `Standing` adds to the
  types that ids are of one row each, that nothing is recorded of days to come
  (`Past`), and what a request on its way knows for good (`Requested`). `Tiled`: a
  class has one timetable on a day (`OneVersion`), and the version a request found
  to be the last still is. `LocksHold`: no two saves have locked one lesson, and the
  marks a save read are those that stand, so that a save leaves one mark of a child.
  The heart is `Spared`: no request on its way takes a lesson off that was recorded
  in time. Whoever checks afterwards finds the lesson; whoever checked before makes
  it late. So a write leaves such a lesson where it was: no timetable begins on its
  day or before, no entries of its day are replaced, and it is neither cancelled nor
  its change voided, unless the change cancelled a lesson.
  What a voided change does to the rest is found by comparing the loop of
  `slotsForDay` with itself, with the change and without it, by induction over its
  steps (`TwoLoops`, `ParallelOn`): the two differ at the period and subgroup of the
  change only (`Parallel`), and taking back a cancellation leaves held there what
  was, or a lesson more (`HeldAlike`). The hypothesis is `OneTimetableAtOnce`: no two
  managers make timetables for one class at the same time. Otherwise managers and
  teachers may meet in any way.
* `TimetableProofs!NobodyBookedTwice`. The code compares only what a request touches:
  the slot a new change made, or, when one is voided, the lessons at its period and
  subgroup. That is enough for a change that is made, being the last of the loop.
  Voiding one moves later changes of its period and subgroup to other slots, and by
  `Parallel` those are all among the lessons that are compared; for an added lesson
  nothing is compared, and by `HeldAlike` nothing is held afterwards that was not
  held before. `RequestsFit` says that what a request was checked for still holds
  when it is written, and `PlansFit` that timetables fit. The hypotheses are
  `TakeTurns`, a manager writes before the next checks, and `PlansFirst`, a timetable
  is not made or replaced so that a day that has changes comes out differently. The
  code sees to neither (section 5). The foci *plans* (no changes) and *changes* (the
  timetables made before) are instances of both. In *meet* managers do not take
  turns, but what they ask for needs no teacher twice.

Assumed of the constants is what the modules assume by name: identifiers and days
are numbers or finite sets, `None` is none of the rows, a month has a day.

What the attempts to prove showed of the code, and the instances do not reach:

* Two approvals of a teacher's first months lock no sheet in common. `approve`
  locks its own sheet and those that are approved when it asks
  (`payroll.service.ts`, lines 327 and 674), but computes from those that are
  approved later (`payroll-builder.service.ts`, line 225). One begins to approve
  February, another approves January, the first computes with January approved, a
  third opens January again, and the first commits a correction of lines that are
  gone. `BooksAreFrozen` and `PaidOnce` are then false, and
  `docs/superpowers/plans/2026-10-13-payroll.md`, line 38, says that two admins
  who approve two months cannot both book the same correction. The theorem has the
  month that stays approved as its hypothesis for that reason, and the run starts
  from one.
* A tariff's `update` counts enrollments before it changes the mode, and not in
  one transaction with it. An enrollment created in between has its periods change
  under it, and a day may be billed in two of them. So `BilledOnce` assumes
  `ModeKept`, and the focus *billing* leaves the change of mode out.
* `addAdjustment` checks that adjustments of a type do not overlap and inserts
  without a lock (`enrollments.service.ts`, line 262). Of two pauses that two
  requests add at once every common day counts twice, so that a period cut short
  may cost more than the whole. So `PricesFair` assumes `AdjustsAlone`, and the focus
  *engine* has one worker.
* `EnrollmentsService.end` moves the end of an enrollment that is over
  (`enrollments.service.ts`, line 197), and deleting a group leaves children who are
  bound without a group, after which they may be put anywhere. `EndsStand` and
  `GroupsStand` are the restrictions the focus *places* has, as hypotheses.
* A timetable that is made or replaced is compared with other timetables and not
  with the changes of single days (`timetables.service.ts`, line 111), so it may put
  a teacher into a lesson at an hour at which a change has put them elsewhere. So
  `NobodyBookedTwice` assumes `PlansFirst`.
* No manager's request asks again when it writes. So `NobodyBookedTwice` assumes
  `TakeTurns`, `RecordedStands` assumes `OneTimetableAtOnce`, and a lesson recorded
  between a check and its write is late (section 5).

Only model-checked:

* Liveness (`EveryTransactionEnds`, `MoneyIsRecorded`, `DueIsBilled`), which is
  outside the prover.
* `PaidOnce`, which is false in general: of the instance it holds because some month
  stays approved and months are not opened again over a later correction, of which
  `payroll_reopened` shows the other side.

## 7. Not modelled

* Access rules (`access/`), authentication (`auth/`) and the scopes of a user:
  decisions without state of their own. A request that is refused is one that
  does not happen, which every model allows.
* Audit (`audit/`): rows that are written and never read back by a decision. Most
  are written in the transaction of the change; some services write them after
  it, so a crash can lose the record of a change.
* Old subscriptions (`subscriptions/`, `subscription-types/`): superseded by
  packages; what carries them over is `Acquire` of `Classes`.
* The parent cabinet, the dashboard and the reports other than those of money:
  pages over what `Register`, `Timetable`, `StaffTasks` and `FinanceViews` compute.
* The test payment provider: it stands for the bank, which is modelled from the
  interface.
* Directories (dishes, complexes, subjects, rooms, bells, directions, class
  groups, members, reasons), names, notes and phones: constants of the models.
* Database access, the seed, decorators, filters and configuration.

Components marked `partly` in `PROJECT.json` say there which of their operations
are left out. What would come next: replacements of entries that overlap, people
who lose a role while they have tasks, and the reconciliation of migrated packages.
