------------------------------ MODULE MCOffice ------------------------------
(***************************************************************************)
(* What the office does: the versions of salary terms, the payroll, the    *)
(* timetable, tasks, positions and backups.                                *)
(* They share no state here, so a behaviour runs one of them, its focus,   *)
(* on an instance small enough for TLC, and leaves the others alone.       *)
(***************************************************************************)
EXTENDS SalaryTerms, Payroll, Staff, StaffTasks, Backups, Timetable, TLC

CONSTANTS
  open,                    \* the kind of calendar
  A, B,                    \* classes, ...
  ann, bob,                \* ... teachers, ...
  g1, g2, k1, k2,          \* ... the halves of a class and their children
  m1, m2,                  \* requests of managers
  w1, w2,                  \* requests to save a lesson
  root, admin, teacher,    \* people ...
  inst                     \* ... of an institution

VARIABLE focus

(* Identities are numbers, and the lowest free one is taken first, so that *)
(* states that differ in nothing but identities are visited once.          *)
lowestFirst(old, new) ==
  \A i \in DOMAIN old : old[i] = None /\ new[i] # None =>
    \A j \in DOMAIN old : j < i => old[j] # None

-----------------------------------------------------------------------------
(* SalaryTerms: three versions on three days.                              *)
VersionsNext ==
  /\ TermsNext
  /\ lowestFirst(version, version') /\ lowestFirst(saving, saving')

-----------------------------------------------------------------------------
(* Payroll: three months of two days, one lesson in each of two months.    *)

lesson(i, d) == [id |-> i, day |-> d, type |-> "school_lesson", key |-> None]

Contract ==
  [from |-> 1, to |-> None, monthlyRate |-> 3, allowance |-> 1,
   extraHourRate |-> 3, kind |-> open,
   rates |-> {[type |-> "school_lesson", key |-> None, amount |-> 2]}]

MCWorking == open :> 1..6
MCLessons == {lesson(1, 1), lesson(2, 3)}
MCContracts == {Contract}
MCAbsences ==
  {[start |-> 2, end |-> 3, paid |-> FALSE, voided |-> FALSE],
   [start |-> 1, end |-> 1, paid |-> TRUE, voided |-> FALSE]}
MCExtras ==
  {[month |-> 1, day |-> None, hours |-> 1, rate |-> None, voided |-> FALSE],
   [month |-> 2, day |-> 3, hours |-> 1, rate |-> 2, voided |-> FALSE]}

(* The first month is approved and paid, so that it stays approved and     *)
(* every later approval has a sheet to share with the others.              *)
Paid == [status |-> "approved", workedDays |-> None]
PaidLines ==
  [days |-> [default |-> 2, unpaid |-> 0, worked |-> 2],
   lessons |-> {[sheet |-> 1, lesson |-> l, amount |-> 2] :
                  l \in {k \in given : k.day = 1}},
   other |-> 4,
   from |-> [extra |-> {}, adjustment |-> {}, absence |-> {}]]

BooksInit ==
  /\ thisMonth = 2
  /\ given = Lessons
  /\ sheet = <<Paid, None, None>> /\ line = <<PaidLines, None, None>>
  /\ payment = <<[month |-> 1, afterApproval |-> TRUE, voided |-> FALSE]>>

EntriesInit ==
  /\ thisMonth = 2 /\ given = {}
  /\ sheet = <<None, None, None>> /\ line = <<None, None, None>>
  /\ payment = <<None>>

MCPayrollInit ==
  /\ IF focus = "books" THEN BooksInit ELSE EntriesInit
  /\ terms = Contracts
  /\ absence = <<None>> /\ extra = <<None>> /\ adjustment = <<None>>
  /\ tx = [t \in Txs |-> Idle]

(* Approvals, while lessons change.                                        *)
BooksStep ==
  /\ PayrollNext
  /\ UNCHANGED entries \/ \E t \in Txs : CommitApprove(t)
  /\ tx'[2].op # "reopen"

(* Only the latest approved month is opened again (ReopenSpec opens any).  *)
BooksNext ==
  /\ BooksStep
  /\ \A m \in Approved : sheet'[m].status = "draft" =>
       \A s \in Approved : s <= m

(* What sheets are made of, while one of the first two months is approved. *)
EntriesNext ==
  /\ PayrollNext
  /\ UNCHANGED <<thisMonth, given, terms>>
  /\ tx'[2] = Idle
  /\ tx'[1] # Idle => tx'[1].month < 3
  /\ sheet'[3] = None
  /\ \A p \in {1} : payment'[p] # None =>
       payment'[p].month = 1 /\ absence'[p] = None /\ extra'[p] = None
         /\ adjustment'[p] = None
  /\ \A j \in {1} : adjustment'[j] # None =>
       adjustment'[j].month = 1

-----------------------------------------------------------------------------
(* Timetable: two classes of different hours, the first of which is cut in *)
(* two halves for some lessons.                                            *)

from(start, end) == [start |-> start, end |-> end]

entry(p, g, t, parity) ==
  [weekday |-> 1, parity |-> parity, period |-> p, subgroup |-> g,
   teacher |-> t, room |-> None]

plain == A :> {entry(1, None, ann, "every")} @@ B :> {entry(1, None, bob, "every")}

change(p, type, t) ==
  [day |-> 1, period |-> p, subgroup |-> None, type |-> type, teacher |-> t,
   room |-> None]

MCWeek == <<[weekday |-> 1, parity |-> "odd"], [weekday |-> 1, parity |-> "even"]>>
MCSchoolDays == A :> {1, 2} @@ B :> {1, 2}
MCBell == A :> <<from(0, 2), from(2, 4)>> @@ B :> <<from(1, 3)>>
MCMembers == g1 :> {k1} @@ g2 :> {k2}
MCPupils == A :> {k1, k2} @@ B :> {}
MCPlans ==
  A :> {plain[A], {entry(1, g1, ann, "every"), entry(1, g2, bob, "odd")}}
    @@ B :> {plain[B], {entry(1, None, ann, "even")}}
MCChangeRows ==
  A :> {change(1, "cancel", None), change(1, "replace", bob),
        change(2, "extra", ann), change(1, "extra", ann)}
    @@ B :> {change(1, "cancel", None), change(1, "extra", ann)}

MCTimetableInit ==
  /\ today = 1
  /\ versions = [c \in Classes |->
       IF focus = "plans" THEN {}
       ELSE {[id |-> 1, from |-> 1, to |-> None, entries |-> plain[c]]}]
  /\ changes = [c \in Classes |-> <<>>]
  /\ lessons = {} /\ marks = {}
  /\ managing = [m \in Managers |-> None]
  /\ save = [w \in Savers |-> None]

(* One teacher, who marks one child present.                               *)
OneSaver ==
  /\ save'[w2] = None
  /\ save'[w1] # None => DOMAIN save'[w1].wanted = {k1}
                         /\ save'[w1].wanted[k1] = "present"

(* One manager and a teacher: timetables are made and replaced, ...        *)
OneManager == managing'[m2] = None

asks(m, ops) == managing'[m] # None => managing'[m].op \in ops

PlansNext ==
  /\ TimetableNext
  /\ UNCHANGED changes
  /\ asks(m1, {"timetable", "entries"})
  /\ \A c \in Classes : {v.id : v \in versions'[c]} # {2}
  /\ OneManager /\ OneSaver

(* ... and days are changed.                                               *)
ChangesNext ==
  /\ TimetableNext
  /\ UNCHANGED <<versions, today>>
  /\ asks(m1, {"change", "void"})
  /\ Len(changes'[B]) < 2
  /\ OneManager /\ OneSaver

(* Two managers at once and a teacher: the first lesson of a class is      *)
(* cancelled, the second added, and either taken back.                     *)
MeetNext ==
  /\ TimetableNext
  /\ UNCHANGED <<versions, today>>
  /\ \A m \in Managers : managing'[m] # None =>
       /\ managing'[m].class = A
       /\ managing'[m].op \in {"change", "void"}
       /\ managing'[m].op = "change" => managing'[m].row =
            IF m = m1 THEN change(2, "extra", ann) ELSE change(1, "cancel", None)
  /\ OneSaver

(* Two teachers who mark the same lessons.                                 *)
MarksNext == TimetableNext /\ UNCHANGED <<versions, changes, today, managing>>

-----------------------------------------------------------------------------
(* StaffTasks: one task, and a teacher who may leave the institution.      *)
MCRoles == root :> "root" @@ admin :> "admin" @@ teacher :> "teacher"
MCToday == <<3, 3, 5>>

OneTaskNext ==
  /\ TasksNext
  /\ \A p \in {root, admin} : person'[p] = person[p]
  /\ person'[teacher].scope \in {None, {inst}}
  /\ begun'[2] # None =>
       begun'[2].op = "mark" /\ (begun[2] = None => begun[1] # None)

-----------------------------------------------------------------------------
(* Staff: two users, two positions.                                        *)
TwoUsersNext ==
  /\ StaffNext
  /\ lowestFirst(position, position') /\ lowestFirst(user, user')
  /\ lowestFirst(work, work') /\ 2 \notin salaried'

-----------------------------------------------------------------------------
(* Backups: days and months of one tick, and retention that keeps a copy   *)
(* and those of two months.                                                *)
(* A child with which nothing went wrong.                                  *)
flawless(child) ==
  /\ ~child.timedOut /\ ~child.writeFailed
  /\ child.exited => child.ok
  /\ child.drained => child.exited
  /\ child.settled => child.drained

(* Copies are numbered in the order they are made, only the first can be   *)
(* spoilt or made by hand, and the database is restored while it knows no  *)
(* other.                                                                  *)
made(id) == run[id] # None \/ \E f \in files : f.id = id

ThreeCopiesNext ==
  /\ BackupsNext
  /\ copy = None /\ copy' # None => \A id \in 1..3 : id < copy'.id => made(id)
  /\ copy' # None => copy'.id = 1 \/
       (flawless(copy'.child) /\ copy'.kind = "scheduled")
  /\ \A id \in {2, 3} : run[id] # None => run'[id] # None

-----------------------------------------------------------------------------
allVars ==
  <<focus, termsVars, payrollVars, timetableVars, taskVars, staffVars,
    backupVars>>

MCInit ==
  /\ focus \in {"terms", "books", "entries", "plans", "changes", "meet",
                "marks", "tasks", "staff", "backups"}
  /\ TermsInit
  /\ MCPayrollInit
  /\ MCTimetableInit
  /\ TasksInit
  /\ StaffInit
  /\ BackupsInit

OthersThan(own) ==
  /\ UNCHANGED focus
  /\ own # "terms" => UNCHANGED termsVars
  /\ own # "payroll" => UNCHANGED payrollVars
  /\ own # "timetable" => UNCHANGED timetableVars
  /\ own # "tasks" => UNCHANGED taskVars
  /\ own # "staff" => UNCHANGED staffVars
  /\ own # "backups" => UNCHANGED backupVars

MCNext ==
  \/ focus = "terms" /\ VersionsNext /\ OthersThan("terms")
  \/ focus = "books" /\ BooksNext /\ OthersThan("payroll")
  \/ focus = "entries" /\ EntriesNext /\ OthersThan("payroll")
  \/ focus = "plans" /\ PlansNext /\ OthersThan("timetable")
  \/ focus = "changes" /\ ChangesNext /\ OthersThan("timetable")
  \/ focus = "meet" /\ MeetNext /\ OthersThan("timetable")
  \/ focus = "marks" /\ MarksNext /\ OthersThan("timetable")
  \/ focus = "tasks" /\ OneTaskNext /\ OthersThan("tasks")
  \/ focus = "staff" /\ TwoUsersNext /\ OthersThan("staff")
  \/ focus = "backups" /\ ThreeCopiesNext /\ OthersThan("backups")

MCSpec == MCInit /\ [][MCNext]_allVars

ReopenSpec ==
  /\ MCInit /\ focus = "books"
  /\ [][BooksStep /\ OthersThan("payroll")]_allVars

=============================================================================
