------------------------------ MODULE Classes ------------------------------
(***************************************************************************)
(* Classes of one direction (src/src/classes): lessons are marked, a mark  *)
(* takes a session of a package or is charged by itself, a correction      *)
(* gives back what the corrected mark took.  Marking is a transaction of   *)
(* several statements under row locks, which are modelled one by one: the  *)
(* lesson is locked first, the packages of a child before they are read.   *)
(* A package bought in between is read without being locked.               *)
(***************************************************************************)
EXTENDS Integers, FiniteSets, Sequences

CONSTANTS
  Lessons,        \* a class group on a day
  DayOf,          \* ... and that day
  Children,
  Packages,       \* identifiers of Package rows, in the order of createdAt
  Marks,          \* identifiers of LessonAttendance rows
  Txs,            \* requests that run at the same time
  Rules,          \* the rules a direction may have
  Statuses,       \* what may be marked
  PackageRows,    \* what may be bought: [child, total, from, expires] ...
  OldPackageRows, \* ... or migrated, with usedBefore
  Expiries,       \* the days a package may be extended to
  MaxExtensions,  \* bound: extensions of a package
  Priced,         \* the lessons with a price of a single lesson
  None

MissedLessonRule == {"always", "unexcused_only", "no_charge"}
AttendanceStatus == {"present", "absent_excused", "absent_unexcused"}
ChargeState == {"none", "open", "voided"}

(* A migrated package may have had more sessions used than sold.           *)
PackageRow ==
  [child: Children, total: Nat, usedBefore: Int, from: Nat,
   expires: Nat \cup {None}, voided: BOOLEAN, charge: ChargeState]

(* A LessonAttendance row with its SessionUsage (attendanceId is unique)   *)
(* and the charge of the usage.  late says that the usage took a package   *)
(* which did not exist when the packages of the child were locked: no      *)
(* column of the program, it is there to be spoken of.                     *)
MarkRow ==
  [lesson: Lessons, child: Children, status: AttendanceStatus, voided: BOOLEAN,
   usage: {"none", "active", "voided"}, package: Packages \cup {None},
   charge: ChargeState, late: BOOLEAN]

(* What a request is doing: mark, or extend.                               *)
MarkTx ==
  [op: {"mark"}, lesson: Lessons, rule: MissedLessonRule,
   marks: UNION {[cs -> AttendanceStatus] : cs \in SUBSET Children},
   step: {"lesson", "marks", "packages", "pick", "use"},
   new: Marks \cup {None}, pick: Packages \cup {None},
   locked: SUBSET Packages, seen: SUBSET Packages, active: SUBSET Marks,
   reversed: SUBSET Marks, rows: [Marks -> MarkRow \cup {None}]]

ExtendTx == [op: {"extend"}, package: Packages, expiry: Expiries]

ASSUME InputAssumption ==
  /\ DayOf \in [Lessons -> Nat]
  /\ Rules \subseteq MissedLessonRule /\ Statuses \subseteq AttendanceStatus
  /\ Packages \subseteq Nat /\ Expiries \subseteq Nat
  /\ PackageRows \cup OldPackageRows \subseteq PackageRow
  /\ Priced \subseteq Lessons
  /\ IsFiniteSet(Marks)
  /\ MaxExtensions \in Nat

ASSUME NoneAssumption ==
  /\ None \notin MarkRow /\ None \notin PackageRow
  /\ None \notin MarkTx \cup ExtendTx
  /\ None \notin Packages \cup Expiries

VARIABLES
  rule,        \* missedRule of the direction
  package,     \* Package rows
  extension,   \* the extensions of each, in the order of createdAt
  mark,        \* LessonAttendance rows
  tx           \* the transaction or request of each worker

vars == <<rule, package, extension, mark, tx>>

-----------------------------------------------------------------------------
(* consumption.ts                                                          *)

shouldConsume(missedRule, status) ==
  \/ status = "present"
  \/ missedRule = "always"
  \/ missedRule = "unexcused_only" /\ status = "absent_unexcused"

effectiveExpiry(p) ==
  IF extension[p] = <<>> THEN package[p].expires
  ELSE extension[p][Len(extension[p])]

Rows(table) == {r \in DOMAIN table : table[r] # None}

(* The active usages of a package, less those a transaction has voided.    *)
usages(p, reversed) ==
  {m \in Rows(mark) \ reversed : mark[m].package = p /\ mark[m].usage = "active"}

packageRemaining(p, reversed) ==
  package[p].total - package[p].usedBefore - Cardinality(usages(p, reversed))

(* Mutant of isValidOn: an extended package is valid for ever.             *)
isValidOnceExtended(p, day) ==
  /\ ~package[p].voided
  /\ package[p].from <= day
  /\ \/ effectiveExpiry(p) = None
     \/ day <= effectiveExpiry(p)
     \/ extension[p] # <<>>

isValidOn(p, day) ==
  /\ ~package[p].voided
  /\ package[p].from <= day
  /\ effectiveExpiry(p) = None \/ day <= effectiveExpiry(p)

(* The order of pickPackage: by expiry, none last, by purchase, by entry.  *)
sooner(p, q) ==
  LET e == effectiveExpiry(p)  f == effectiveExpiry(q)
  IN  \/ e # None /\ (f = None \/ e < f)
      \/ e = f /\ package[p].from < package[q].from
      \/ e = f /\ package[p].from = package[q].from /\ p < q

packagesOf(c) == {p \in Rows(package) : package[p].child = c}

usable(c, day, reversed) ==
  {p \in packagesOf(c) : isValidOn(p, day) /\ packageRemaining(p, reversed) > 0}

pickPackage(c, day, reversed) ==
  LET ps == usable(c, day, reversed)
  IN  IF ps = {} THEN None
      ELSE CHOOSE p \in ps : \A q \in ps \ {p} : sooner(p, q)

-----------------------------------------------------------------------------
Idle(t) == tx[t] = None
Marking(t) == ~Idle(t) /\ tx[t].op = "mark"

(* FOR UPDATE locks of a lesson and of packages; the insert of a usage     *)
(* locks its package FOR KEY SHARE, which only keeps FOR UPDATE away.      *)
locksLesson(t, l) == Marking(t) /\ tx[t].step # "lesson" /\ tx[t].lesson = l
locks(t, p) == Marking(t) /\ p \in tx[t].locked
shares(t, p) ==
  Marking(t) /\ \E m \in Rows(tx[t].rows) : tx[t].rows[m].package = p

MayLock(t, p) == \A u \in Txs \ {t} : ~locks(u, p) /\ ~shares(u, p)

Continue(t, next) == tx' = [tx EXCEPT ![t] = next]
End(t) == tx' = [tx EXCEPT ![t] = None]

tables == <<rule, package, extension, mark>>

(* mark, up to the transaction.  marks gives the children their status.    *)
BeginMark(t, l, marks) ==
  /\ Idle(t)
  /\ Continue(t, [op |-> "mark", lesson |-> l, rule |-> rule, marks |-> marks,
                  step |-> "lesson", new |-> None, pick |-> None, locked |-> {}, seen |-> {},
                  active |-> {}, reversed |-> {},
                  rows |-> [m \in Marks |-> None]])
  /\ UNCHANGED tables

ActiveMarks(l) == {m \in Rows(mark) : mark[m].lesson = l /\ ~mark[m].voided}

(* Mutant of LockLesson: the row is created or found, and not locked.      *)
FindLesson(t) ==
  /\ Marking(t) /\ tx[t].step = "lesson"
  /\ Continue(t, [tx[t] EXCEPT !.step = "marks",
                               !.active = ActiveMarks(tx[t].lesson)])
  /\ UNCHANGED tables

(* INSERT ... ON CONFLICT DO NOTHING, SELECT ... FOR UPDATE, and the marks *)
(* that stand.                                                             *)
LockLesson(t) ==
  /\ Marking(t) /\ tx[t].step = "lesson"
  /\ \A u \in Txs \ {t} : ~locksLesson(u, tx[t].lesson)
  /\ Continue(t, [tx[t] EXCEPT !.step = "marks",
                               !.active = ActiveMarks(tx[t].lesson)])
  /\ UNCHANGED tables

(* What the child c has at this lesson already.                            *)
existing(t, c) == {m \in tx[t].active : mark[m].child = c}

Without(marks, c) == [d \in DOMAIN marks \ {c} |-> marks[d]]

(* The mark is the one the child has.                                      *)
Skip(t, c) ==
  /\ Marking(t) /\ tx[t].step = "marks" /\ c \in DOMAIN tx[t].marks
  /\ \E m \in existing(t, c) : mark[m].status = tx[t].marks[c]
  /\ Continue(t, [tx[t] EXCEPT !.marks = Without(@, c)])
  /\ UNCHANGED tables

(* The uuid m is not in use.                                               *)
Fresh(m) ==
  mark[m] = None /\ \A t \in Txs : Marking(t) => tx[t].rows[m] = None

(* A new mark, after the one it corrects has been reversed.                *)
Mark(t, c, m) ==
  /\ Marking(t) /\ tx[t].step = "marks" /\ c \in DOMAIN tx[t].marks
  /\ \A o \in existing(t, c) : mark[o].status # tx[t].marks[c]
  /\ Fresh(m)
  /\ LET status == tx[t].marks[c]
         row == [lesson |-> tx[t].lesson, child |-> c, status |-> status,
                 voided |-> FALSE, usage |-> "none", package |-> None,
                 charge |-> "none", late |-> FALSE]
     IN  Continue(t, [tx[t] EXCEPT
                        !.marks = Without(@, c),
                        !.reversed = @ \cup existing(t, c),
                        !.rows[m] = row,
                        !.new = IF shouldConsume(tx[t].rule, status)
                                  THEN m ELSE None,
                        !.step = IF shouldConsume(tx[t].rule, status)
                                   THEN "packages" ELSE "marks"])
  /\ UNCHANGED tables

childOf(t) == tx[t].rows[tx[t].new].child

(* Mutant of LockPackages: the packages are looked up without FOR UPDATE.  *)
FindPackages(t) ==
  /\ Marking(t) /\ tx[t].step = "packages"
  /\ Continue(t, [tx[t] EXCEPT !.step = "pick",
                               !.seen = packagesOf(childOf(t))])
  /\ UNCHANGED tables

(* consume: SELECT ... FOR UPDATE of the packages of the child, ...        *)
LockPackages(t) ==
  /\ Marking(t) /\ tx[t].step = "packages"
  /\ \A p \in packagesOf(childOf(t)) : MayLock(t, p)
  /\ Continue(t, [tx[t] EXCEPT !.step = "pick",
                               !.locked = @ \cup packagesOf(childOf(t)),
                               !.seen = packagesOf(childOf(t))])
  /\ UNCHANGED tables

(* ... a second statement that reads them and picks one, ...               *)
Pick(t) ==
  /\ Marking(t) /\ tx[t].step = "pick"
  /\ LET p == pickPackage(childOf(t), DayOf[tx[t].lesson], tx[t].reversed)
     IN  /\ p = None => tx[t].lesson \in Priced
         /\ Continue(t, [tx[t] EXCEPT !.pick = p, !.step = "use"])
  /\ UNCHANGED tables

(* The row of a mark with its usage: of the package p or a charge.         *)
Charged(row, p, seen) ==
  [row EXCEPT !.usage = "active", !.package = p,
              !.charge = IF p = None THEN "open" ELSE @,
              !.late = p # None /\ p \notin seen]

(* ... and the insert of the usage, or of a charge and the usage.          *)
Use(t) ==
  /\ Marking(t) /\ tx[t].step = "use"
  /\ LET p == tx[t].pick
         m == tx[t].new
     IN  /\ \A u \in Txs \ {t} : ~locks(u, p)
         /\ Continue(t, [tx[t] EXCEPT
                           !.rows[m] = Charged(@, p, tx[t].seen),
                           !.new = None, !.pick = None, !.seen = {},
                           !.step = "marks"])
  /\ UNCHANGED tables

(* Mutant of Reversed: the charge of a single lesson is forgotten.         *)
ReversedWithoutCharge(row) ==
  [row EXCEPT !.voided = TRUE, !.usage = IF @ = "active" THEN "voided" ELSE @]

(* reverse: the mark, its usage, and the charge unless voided already.     *)
Reversed(row) ==
  [row EXCEPT !.voided = TRUE,
              !.usage = IF @ = "active" THEN "voided" ELSE @,
              !.charge = IF @ = "open" THEN "voided" ELSE @]

Commit(t) ==
  /\ Marking(t) /\ tx[t].step = "marks" /\ DOMAIN tx[t].marks = {}
  /\ mark' = [m \in Marks |-> IF tx[t].rows[m] # None THEN tx[t].rows[m]
                              ELSE IF m \in tx[t].reversed THEN Reversed(mark[m])
                              ELSE mark[m]]
  /\ End(t)
  /\ UNCHANGED <<rule, package, extension>>

(* A request that is refused (a child that is not a member and no guest, a *)
(* correction by who may not or without a reason, no price, a charge that  *)
(* was voided meanwhile), a deadlock, a timeout or a crash.                *)
Fail(t) == ~Idle(t) /\ End(t) /\ UNCHANGED tables

-----------------------------------------------------------------------------
NextPackage == Cardinality(Rows(package)) + 1

(* purchase: a package with its charge.                                    *)
Purchase(row) ==
  /\ NextPackage \in Packages
  /\ package' = [package EXCEPT ![NextPackage] = row]
  /\ UNCHANGED <<rule, extension, mark, tx>>

(* LegacyService.migrate makes packages without a charge.                  *)
Acquire ==
  \/ \E row \in PackageRows : Purchase(row)
  \/ \E row \in OldPackageRows : Purchase(row)

(* extend: no transaction, no lock.                                        *)
BeginExtend(t, p, day) ==
  /\ Idle(t)
  /\ package[p] # None /\ ~package[p].voided
  /\ effectiveExpiry(p) # None => day > effectiveExpiry(p)
  /\ Continue(t, [op |-> "extend", package |-> p, expiry |-> day])
  /\ UNCHANGED tables

Extend(t) ==
  /\ ~Idle(t) /\ tx[t].op = "extend"
  /\ Len(extension[tx[t].package]) < MaxExtensions
  /\ extension' = [extension EXCEPT ![tx[t].package] = Append(@, tx[t].expiry)]
  /\ End(t)
  /\ UNCHANGED <<rule, package, mark>>

(* void: under the lock of the package, and with its charge.               *)
VoidPackage(p) ==
  /\ package[p] # None /\ ~package[p].voided
  /\ \A t \in Txs : ~locks(t, p) /\ ~shares(t, p)
  /\ usages(p, {}) = {}
  /\ package' = [package EXCEPT ![p].voided = TRUE,
                                ![p].charge = IF @ = "open" THEN "voided" ELSE @]
  /\ UNCHANGED <<rule, extension, mark, tx>>

(* ChargesService.void of the charge of a single lesson or of a package.   *)
VoidSingle(m) ==
  /\ mark[m] # None /\ mark[m].charge = "open"
  /\ \A t \in Txs : Marking(t) => m \notin tx[t].reversed
  /\ mark' = [mark EXCEPT ![m].charge = "voided"]
  /\ UNCHANGED <<rule, package, extension, tx>>

VoidPackageCharge(p) ==
  /\ package[p] # None /\ package[p].charge = "open"
  /\ package' = [package EXCEPT ![p].charge = "voided"]
  /\ UNCHANGED <<rule, extension, mark, tx>>

(* DirectionsService.update.                                               *)
ChangeRule(r) ==
  /\ r # rule
  /\ rule' = r
  /\ UNCHANGED <<package, extension, mark, tx>>

-----------------------------------------------------------------------------
Init ==
  /\ rule \in Rules
  /\ package = [p \in Packages |-> None]
  /\ extension = [p \in Packages |-> <<>>]
  /\ mark = [m \in Marks |-> None]
  /\ tx = [t \in Txs |-> None]

MarkStep(t) ==
  \/ LockLesson(t)
  \/ \E c \in Children : Skip(t, c)
  \/ \E c \in Children, m \in Marks : Mark(t, c, m)
  \/ LockPackages(t)
  \/ Pick(t)
  \/ Use(t)
  \/ Commit(t)

Next ==
  \/ \E t \in Txs, l \in Lessons, cs \in SUBSET Children :
       \E marks \in [cs -> Statuses] : BeginMark(t, l, marks)
  \/ \E t \in Txs : MarkStep(t) \/ Extend(t) \/ Fail(t)
  \/ \E t \in Txs, p \in Packages, day \in Expiries : BeginExtend(t, p, day)
  \/ Acquire
  \/ \E p \in Packages : VoidPackage(p) \/ VoidPackageCharge(p)
  \/ \E m \in Marks : VoidSingle(m)
  \/ \E r \in Rules : ChangeRule(r)

Spec == Init /\ [][Next]_vars

-----------------------------------------------------------------------------
TypeOK ==
  /\ rule \in MissedLessonRule
  /\ package \in [Packages -> PackageRow \cup {None}]
  /\ extension \in [Packages -> Seq(Expiries)]
  /\ mark \in [Marks -> MarkRow \cup {None}]
  /\ tx \in [Txs -> MarkTx \cup ExtendTx \cup {None}]

(* Integrity rule 2 of the design of classes: "A child has at most one     *)
(* active attendance per lesson", whatever requests mark it: the lock of   *)
(* the lesson, since no unique key says so.                                *)
OneStandingMark ==
  \A m, n \in Rows(mark) :
    (/\ ~mark[m].voided /\ ~mark[n].voided
     /\ mark[m].lesson = mark[n].lesson
     /\ mark[m].child = mark[n].child) => m = n

(* Integrity rule 3: a corrected mark costs nothing, neither a session nor *)
(* a charge, and one that stands has not lost what it took: nobody else    *)
(* voids its usage.                                                        *)
OnlyStandingMarksCost ==
  \A m \in Rows(mark) :
    IF mark[m].voided
      THEN mark[m].usage # "active" /\ mark[m].charge # "open"
      ELSE mark[m].usage # "voided"

(* Integrity rules 1 and 9: a package that every mark has locked before    *)
(* it read what is left is never overdrawn, by two lessons that take the   *)
(* last session, and never voided under a mark.                            *)
LocksProtectPackages ==
  \A p \in Rows(package) :
    (\A m \in usages(p, {}) : ~mark[m].late) =>
      /\ usages(p, {}) # {} => packageRemaining(p, {}) >= 0
      /\ package[p].voided => usages(p, {}) = {}

(* No session is taken outside the time of its package, as it was when the *)
(* session was taken: not before its purchase, and not after each of its   *)
(* expiries.                                                               *)
UsedWhileValid ==
  \A p \in Rows(package) : \A m \in usages(p, {}) :
    LET day == DayOf[mark[m].lesson]
    IN  /\ package[p].from <= day
        /\ \/ package[p].expires = None
           \/ day <= package[p].expires
           \/ \E n \in DOMAIN extension[p] : day <= extension[p][n]

-----------------------------------------------------------------------------
(* What the design says and a package bought during a mark breaks.         *)

(* Integrity rule 9: "A package with active usages cannot be voided (400)."*)
VoidedPackagesUnused ==
  \A p \in Rows(package) : package[p].voided => usages(p, {}) = {}

=============================================================================
