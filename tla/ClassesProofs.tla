--------------------------- MODULE ClassesProofs ---------------------------
(***************************************************************************)
(* Theorems about Classes: its types; that whatever requests mark a        *)
(* lesson, a child has one mark that stands and pays for no other; and     *)
(* that the sessions taken are within their packages.                      *)
(***************************************************************************)
EXTENDS Classes, TLAPS, FiniteSetTheorems, WellFoundedInduction

(* The statements of consume work on a mark that has been created.         *)
Consuming(t) == tx[t].step \in {"packages", "pick", "use"}

(* What a transaction has read and is going to write, against the tables.  *)
(* The marks it read under the lock of the lesson are still those that     *)
(* stand; what it writes is new, one mark for a child that is done, whose  *)
(* earlier marks it voids.                                                 *)
Sound(t) ==
  Marking(t) =>
    /\ Consuming(t) => tx[t].new \in Marks /\ tx[t].rows[tx[t].new] # None
    /\ tx[t].reversed \subseteq tx[t].active
    /\ IF tx[t].step = "lesson" THEN tx[t].active = {}
                                ELSE tx[t].active = ActiveMarks(tx[t].lesson)
    /\ \A m \in Rows(tx[t].rows) :
         /\ tx[t].step # "lesson"
         /\ mark[m] = None
         /\ tx[t].rows[m].lesson = tx[t].lesson
         /\ ~tx[t].rows[m].voided
         /\ tx[t].rows[m].usage # "voided"
         /\ tx[t].rows[m].child \notin DOMAIN tx[t].marks
         /\ existing(t, tx[t].rows[m].child) \subseteq tx[t].reversed
         /\ \A n \in Rows(tx[t].rows) :
              tx[t].rows[m].child = tx[t].rows[n].child => m = n

(* Two transactions never hold one lesson, nor write one row.              *)
Apart(t, u) ==
  (Marking(t) /\ Marking(u)) =>
    /\ \/ tx[t].step = "lesson" \/ tx[u].step = "lesson"
       \/ tx[t].lesson # tx[u].lesson
    /\ Rows(tx[t].rows) \cap Rows(tx[u].rows) = {}

Inv ==
  /\ TypeOK
  /\ \A t \in Txs : Sound(t)
  /\ \A t, u \in Txs : t # u => Apart(t, u)
  /\ OneStandingMark
  /\ OnlyStandingMarksCost

-----------------------------------------------------------------------------
(* A child taken off the list leaves a list.                               *)
LEMMA WithoutType ==
  ASSUME NEW marks \in UNION {[cs -> AttendanceStatus] : cs \in SUBSET Children},
         NEW c
  PROVE  /\ Without(marks, c)
              \in UNION {[cs -> AttendanceStatus] : cs \in SUBSET Children}
         /\ DOMAIN Without(marks, c) = DOMAIN marks \ {c}
         /\ DOMAIN marks \subseteq Children
         /\ \A d \in DOMAIN marks : marks[d] \in AttendanceStatus
<1>1. PICK cs \in SUBSET Children : marks \in [cs -> AttendanceStatus]
  OBVIOUS
<1>2. Without(marks, c) \in [cs \ {c} -> AttendanceStatus]
  BY <1>1 DEF Without
<1>3. cs \ {c} \in SUBSET Children
  OBVIOUS
<1> QED
  BY <1>1, <1>2, <1>3 DEF Without

(* A marking transaction is a record of its type.                          *)
LEMMA MarkingType ==
  ASSUME TypeOK, NEW t \in Txs, Marking(t)
  PROVE  tx[t] \in MarkTx
BY NoneAssumption DEF TypeOK, Marking, Idle, MarkTx, ExtendTx

-----------------------------------------------------------------------------
(* Every set of natural numbers that is not empty has a least element.     *)
LEMMA LeastNatural ==
  ASSUME NEW S \in SUBSET Nat, S # {}
  PROVE  \E n \in S : \A m \in S : n <= m
<1> DEFINE R == OpToRel(<, Nat)
<1>1. \A m, n \in Nat : m < n => <<m, n>> \in R
  BY DEF OpToRel
<1>2. IsWellFoundedOn(R, Nat)
  BY NatLessThanWellFounded
<1> HIDE DEF R
<1>3. PICK n \in S : \A m \in S : <<m, n>> \notin R
  BY <1>2, WFMin
<1>4. \A m \in S : ~(m < n)
  BY <1>1, <1>3
<1> QED
  BY <1>4

(* Among packages there is one that comes before all others: of those that *)
(* end first (or of all, if none ends) those bought first, and of them the *)
(* one entered first.                                                      *)
LEMMA SoonestExists ==
  ASSUME TypeOK, NEW ps \in SUBSET Rows(package), ps # {}
  PROVE  \E p \in ps : \A q \in ps \ {p} : sooner(p, q)
<1>1. \A p \in ps : /\ p \in Packages /\ p \in Nat
                    /\ package[p] \in PackageRow
                    /\ package[p].from \in Nat
                    /\ package[p].expires \in Nat \cup {None}
  BY InputAssumption DEF TypeOK, Rows, PackageRow
<1>2. \A p \in ps : effectiveExpiry(p) \in Nat \cup {None}
  <2> SUFFICES ASSUME NEW p \in ps, extension[p] # <<>>
               PROVE  extension[p][Len(extension[p])] \in Nat
    BY <1>1 DEF effectiveExpiry
  <2>1. extension[p] \in Seq(Expiries)
    BY <1>1 DEF TypeOK
  <2> DEFINE e == extension[p]
  <2>2. e \in Seq(Expiries) /\ e # <<>>
    BY <2>1
  <2> HIDE DEF e
  <2>3. e[Len(e)] \in Expiries
    BY <2>2
  <2> QED
    BY <2>3, InputAssumption DEF e
<1> DEFINE ends == {p \in ps : effectiveExpiry(p) # None}
<1>3. PICK first \in SUBSET ps :
        /\ first # {}
        /\ \A p \in first, q \in first : effectiveExpiry(p) = effectiveExpiry(q)
        /\ \A p \in first, q \in ps \ first :
             /\ effectiveExpiry(p) # None
             /\ effectiveExpiry(q) = None \/ effectiveExpiry(p) < effectiveExpiry(q)
  <2>1. CASE ends = {}
    <3>1. \A p \in ps, q \in ps : effectiveExpiry(p) = effectiveExpiry(q)
      BY <2>1
    <3>2. ps \ ps = {} /\ ps \in SUBSET ps
      OBVIOUS
    <3> HIDE DEF ends
    <3> WITNESS ps \in SUBSET ps
    <3> QED
      BY <3>1, <3>2
  <2>2. CASE ends # {}
    <3> DEFINE days == {effectiveExpiry(p) : p \in ends}
    <3>1. days \in SUBSET Nat /\ days # {}
      BY <1>2, <2>2
    <3>2. PICK day \in days : \A d \in days : day <= d
      BY <3>1, LeastNatural
    <3> DEFINE f == {p \in ps : effectiveExpiry(p) = day}
    <3>3. f # {} /\ f \in SUBSET ps /\ day # None
      BY <3>2
    <3>4. ASSUME NEW q \in ps \ f
          PROVE  effectiveExpiry(q) = None \/ day < effectiveExpiry(q)
      BY <1>2, <3>1, <3>2
    <3>5. \A p \in f : effectiveExpiry(p) = day
      OBVIOUS
    <3> HIDE DEF f, ends
    <3> USE <3>3
    <3> WITNESS f \in SUBSET ps
    <3> QED
      BY <3>3, <3>4, <3>5
  <2> QED
    BY <2>1, <2>2
<1>4. PICK p0 \in first : \A q \in first : package[p0].from <= package[q].from
  <2> DEFINE days == {package[p].from : p \in first}
  <2>1. days \in SUBSET Nat /\ days # {}
    BY <1>1, <1>3
  <2>2. PICK day \in days : \A d \in days : day <= d
    BY <2>1, LeastNatural
  <2>3. PICK p0 \in first : package[p0].from = day
    BY <2>2
  <2>4. \A q \in first : package[q].from \in days
    OBVIOUS
  <2> HIDE DEF days
  <2> WITNESS p0 \in first
  <2> QED
    BY <2>2, <2>3, <2>4
<1> DEFINE eldest == {p \in first : package[p].from = package[p0].from}
<1>5. PICK p \in eldest : \A q \in eldest : p <= q
  <2>1. eldest \in SUBSET Nat /\ eldest # {}
    BY <1>1, <1>4
  <2> QED
    BY <2>1, LeastNatural
<1>6. p \in ps /\ p \in first /\ package[p].from = package[p0].from
  BY <1>5
<1>7. ASSUME NEW q \in ps \ {p} PROVE sooner(p, q)
  <2>1. CASE q \notin first
    BY <2>1, <1>3, <1>6 DEF sooner
  <2>2. CASE q \in eldest
    <3>1. p < q
      BY <1>1, <1>5, <1>6, <2>2
    <3> QED
      BY <2>2, <3>1, <1>3, <1>6 DEF sooner
  <2>3. CASE q \in first /\ q \notin eldest
    <3>1. package[p].from < package[q].from
      BY <1>1, <1>4, <1>6, <2>3
    <3> QED
      BY <2>3, <3>1, <1>3, <1>6 DEF sooner
  <2> QED
    BY <2>1, <2>2, <2>3
<1> QED
  BY <1>6, <1>7

(* consume takes a session of a package of the child that is valid on the  *)
(* day of the lesson and has a session left, of these the one that runs    *)
(* out first, and none only when there is none.                            *)
THEOREM PickedPackage ==
  ASSUME TypeOK, NEW c, NEW day, NEW reversed,
         NEW p, p = pickPackage(c, day, reversed)
  PROVE  /\ p \in Packages \cup {None}
         /\ usable(c, day, reversed) = {} => p = None
         /\ usable(c, day, reversed) # {} =>
              /\ p \in usable(c, day, reversed)
              /\ \A q \in usable(c, day, reversed) \ {p} : sooner(p, q)
<1> DEFINE ps == usable(c, day, reversed)
<1>1. ps \in SUBSET Rows(package) /\ Rows(package) \subseteq Packages
  BY DEF usable, packagesOf, Rows, TypeOK
<1>2. p = IF ps = {} THEN None ELSE CHOOSE q \in ps : \A r \in ps \ {q} : sooner(q, r)
  BY DEF pickPackage
<1> HIDE DEF ps
<1>3. ps # {} => \E q \in ps : \A r \in ps \ {q} : sooner(q, r)
  BY <1>1, SoonestExists
<1>4. ps # {} => p \in ps /\ \A q \in ps \ {p} : sooner(p, q)
  BY <1>2, <1>3
<1>5. p \in Packages \cup {None}
  BY <1>1, <1>2, <1>4
<1> QED
  BY <1>2, <1>4, <1>5 DEF ps

-----------------------------------------------------------------------------
(* Most steps are of one transaction and store nothing.                    *)
LEMMA OneMoves ==
  ASSUME Inv, NEW t \in Txs, NEW next \in MarkTx \cup ExtendTx \cup {None},
         tx' = [tx EXCEPT ![t] = next], UNCHANGED tables,
         Sound(t)',
         \A u \in Txs \ {t} : Apart(t, u)'
  PROVE  Inv'
<1> USE DEF Inv
<1>1. TypeOK'
  BY DEF TypeOK, tables
<1>2. \A u \in Txs \ {t} : tx'[u] = tx[u]
  BY DEF TypeOK
<1>3. ASSUME NEW u \in Txs PROVE Sound(u)'
  <2>1. CASE u = t
    BY <2>1
  <2>2. CASE u # t
    <3>1. tx'[u] = tx[u] /\ mark' = mark
      BY <1>2, <2>2 DEF tables
    <3>2. Sound(u)
      OBVIOUS
    <3> QED
      BY <3>1, <3>2 DEF Sound, Marking, Idle, Consuming, ActiveMarks, existing, Rows
  <2> QED
    BY <2>1, <2>2
<1>4. ASSUME NEW u \in Txs, NEW v \in Txs, u # v PROVE Apart(u, v)'
  <2>1. CASE u # t /\ v # t
    <3>1. tx'[u] = tx[u] /\ tx'[v] = tx[v]
      BY <1>2, <2>1
    <3>2. Apart(u, v)
      BY <1>4
    <3> QED
      BY <3>1, <3>2 DEF Apart, Marking, Idle, Rows
  <2>2. CASE u = t
    BY <2>2, <1>4
  <2>3. CASE v = t
    <3>1. Apart(t, u)'
      BY <2>3, <1>4
    <3> QED
      BY <3>1, <2>3 DEF Apart
  <2> QED
    BY <2>1, <2>2, <2>3
<1>5. OneStandingMark' /\ OnlyStandingMarksCost'
  BY DEF OneStandingMark, OnlyStandingMarksCost, tables, Rows
<1> QED
  BY <1>1, <1>3, <1>4, <1>5

LEMMA InitInv == Init => Inv
<1> SUFFICES ASSUME Init PROVE Inv
  OBVIOUS
<1>1. TypeOK
  <2>1. extension \in [Packages -> Seq(Expiries)]
    BY DEF Init
  <2> QED
    BY <2>1, InputAssumption DEF Init, TypeOK
<1>2. \A t \in Txs : ~Marking(t)
  BY DEF Init, Marking, Idle
<1>3. Rows(mark) = {}
  BY DEF Init, Rows
<1> QED
  BY <1>1, <1>2, <1>3
  DEF Inv, Sound, Apart, OneStandingMark, OnlyStandingMarksCost

(* A step that keeps the lesson, its lock and the written rows.            *)
LEMMA StaysApart ==
  ASSUME Inv, NEW t \in Txs, Marking(t), NEW next \in MarkTx,
         tx' = [tx EXCEPT ![t] = next],
         next.lesson = tx[t].lesson,
         next.step = "lesson" => tx[t].step = "lesson",
         tx[t].step = "lesson" => next.step = "lesson",
         Rows(next.rows) = Rows(tx[t].rows)
  PROVE  \A u \in Txs \ {t} : Apart(t, u)'
<1> SUFFICES ASSUME NEW u \in Txs \ {t} PROVE Apart(t, u)'
  OBVIOUS
<1>1. tx'[t] = next /\ tx'[u] = tx[u]
  BY DEF Inv, TypeOK
<1>2. Apart(t, u)
  BY DEF Inv
<1> QED
  BY <1>1, <1>2 DEF Apart, Marking, Idle, Rows

LEMMA BeginMarkInv ==
  ASSUME Inv, NEW t \in Txs, NEW l \in Lessons, NEW cs \in SUBSET Children,
         NEW marks \in [cs -> Statuses], BeginMark(t, l, marks)
  PROVE  Inv'
<1> DEFINE next == [op |-> "mark", lesson |-> l, rule |-> rule, marks |-> marks,
                    step |-> "lesson", new |-> None, pick |-> None,
                    locked |-> {}, seen |-> {}, active |-> {}, reversed |-> {},
                    rows |-> [m \in Marks |-> None]]
<1>1. next \in MarkTx
  <2>1. marks \in [cs -> AttendanceStatus]
    BY InputAssumption
  <2>2. rule \in MissedLessonRule
    BY DEF Inv, TypeOK
  <2> QED
    BY <2>1, <2>2 DEF MarkTx
<1>2. tx' = [tx EXCEPT ![t] = next] /\ UNCHANGED tables
  BY DEF BeginMark, Continue
<1>3. tx'[t] = next
  BY <1>2 DEF Inv, TypeOK
<1>4. Rows(next.rows) = {}
  BY DEF Rows
<1>5. Sound(t)'
  BY <1>3, <1>4 DEF Sound, Consuming
<1>6. \A u \in Txs \ {t} : Apart(t, u)'
  BY <1>3, <1>4 DEF Apart
<1> HIDE DEF next
<1> QED
  BY <1>1, <1>2, <1>5, <1>6, OneMoves

LEMMA LockLessonInv ==
  ASSUME Inv, NEW t \in Txs, LockLesson(t)
  PROVE  Inv'
<1> DEFINE next == [tx[t] EXCEPT !.step = "marks", !.active = ActiveMarks(tx[t].lesson)]
<1>1. Marking(t) /\ tx[t].step = "lesson"
  BY DEF LockLesson
<1>2. tx[t] \in MarkTx /\ Sound(t)
  BY <1>1, MarkingType DEF Inv
<1>3. next \in MarkTx
  BY <1>2 DEF MarkTx, ActiveMarks, Rows, Inv, TypeOK
<1>4. tx' = [tx EXCEPT ![t] = next] /\ UNCHANGED tables
  BY DEF LockLesson, Continue
<1>5. tx'[t] = next /\ \A u \in Txs \ {t} : tx'[u] = tx[u]
  BY <1>4 DEF Inv, TypeOK
<1>6. Rows(tx[t].rows) = {} /\ tx[t].reversed = {}
  BY <1>1, <1>2 DEF Sound
<1>7. Sound(t)'
  <2>1. ActiveMarks(tx[t].lesson)' = ActiveMarks(tx[t].lesson)
    BY <1>4, <1>5, <1>2 DEF ActiveMarks, Rows, tables, MarkTx
  <2>2. /\ next.step = "marks" /\ next.rows = tx[t].rows
        /\ next.reversed = tx[t].reversed /\ next.lesson = tx[t].lesson
        /\ next.active = ActiveMarks(tx[t].lesson)
    BY <1>2 DEF MarkTx
  <2>3. tx'[t].active = ActiveMarks(tx[t].lesson)'
    BY <1>5, <2>1, <2>2
  <2>4. Rows(tx[t].rows)' = {} /\ tx'[t].reversed = {} /\ tx'[t].step = "marks"
    BY <1>5, <1>6, <2>2 DEF Rows
  <2> HIDE DEF next
  <2> QED
    BY <2>3, <2>4 DEF Sound, Consuming
<1>8. ASSUME NEW u \in Txs \ {t} PROVE Apart(t, u)'
  <2>1. Marking(u) => tx[u].step = "lesson" \/ tx[u].lesson # tx[t].lesson
    BY DEF LockLesson, locksLesson
  <2>2. next.lesson = tx[t].lesson /\ next.rows = tx[t].rows
    BY <1>2 DEF MarkTx
  <2> QED
    BY <1>5, <1>6, <2>1, <2>2 DEF Apart, Marking, Idle, Rows
<1> HIDE DEF next
<1> QED
  BY <1>3, <1>4, <1>7, <1>8, OneMoves

(* The marks of the children that are not done are still a list.           *)
LEMMA SkipInv ==
  ASSUME Inv, NEW t \in Txs, NEW c \in Children, Skip(t, c)
  PROVE  Inv'
<1> DEFINE next == [tx[t] EXCEPT !.marks = Without(@, c)]
<1>1. Marking(t) /\ tx[t].step = "marks"
  BY DEF Skip
<1>2. tx[t] \in MarkTx /\ Sound(t)
  BY <1>1, MarkingType DEF Inv
<1>3. /\ next.marks = Without(tx[t].marks, c)
      /\ next.step = "marks" /\ next.rows = tx[t].rows /\ next.new = tx[t].new
      /\ next.reversed = tx[t].reversed /\ next.lesson = tx[t].lesson
      /\ next.active = tx[t].active
  BY <1>1, <1>2 DEF MarkTx
<1>4. /\ DOMAIN next.marks \subseteq DOMAIN tx[t].marks
      /\ next \in MarkTx
  <2>1. tx[t].marks \in UNION {[cs -> AttendanceStatus] : cs \in SUBSET Children}
    BY <1>2 DEF MarkTx
  <2>2. /\ Without(tx[t].marks, c)
             \in UNION {[cs -> AttendanceStatus] : cs \in SUBSET Children}
        /\ DOMAIN Without(tx[t].marks, c) = DOMAIN tx[t].marks \ {c}
    BY <2>1, WithoutType
  <2>3. next \in MarkTx
    BY <1>2, <2>2 DEF MarkTx
  <2> QED
    BY <1>3, <2>2, <2>3
<1>5. tx' = [tx EXCEPT ![t] = next] /\ UNCHANGED tables
  BY DEF Skip, Continue
<1> HIDE DEF next
<1>6. tx'[t] = next /\ mark' = mark
  BY <1>5 DEF Inv, TypeOK, tables
<1>7. Sound(t)'
  BY <1>1, <1>2, <1>3, <1>4, <1>6
  DEF Sound, Consuming, ActiveMarks, existing, Rows, Marking, Idle
<1>8. \A u \in Txs \ {t} : Apart(t, u)'
  BY <1>1, <1>3, <1>4, <1>5, StaysApart
<1> QED
  BY <1>4, <1>5, <1>7, <1>8, OneMoves

(* A step of consume that has not written yet.                             *)
LEMMA ConsumeInv ==
  ASSUME Inv, NEW t \in Txs, Marking(t), Consuming(t), NEW next \in MarkTx,
         tx' = [tx EXCEPT ![t] = next], UNCHANGED tables,
         next.step \in {"pick", "use"},
         next.marks = tx[t].marks, next.rows = tx[t].rows, next.new = tx[t].new,
         next.reversed = tx[t].reversed, next.lesson = tx[t].lesson,
         next.active = tx[t].active
  PROVE  Inv'
<1>1. tx'[t] = next /\ mark' = mark
  BY DEF Inv, TypeOK, tables
<1>2. Sound(t)
  BY DEF Inv
<1>3. Sound(t)'
  BY <1>1, <1>2
  DEF Sound, Consuming, ActiveMarks, existing, Rows, Marking, Idle
<1>4. \A u \in Txs \ {t} : Apart(t, u)'
  BY StaysApart DEF Consuming
<1> QED
  BY <1>3, <1>4, OneMoves

LEMMA LockPackagesInv ==
  ASSUME Inv, NEW t \in Txs, LockPackages(t)
  PROVE  Inv'
<1> DEFINE ps == packagesOf(childOf(t))
           next == [tx[t] EXCEPT !.step = "pick", !.locked = @ \cup ps, !.seen = ps]
<1>1. Marking(t) /\ Consuming(t)
  BY DEF LockPackages, Consuming
<1>2. tx[t] \in MarkTx
  BY <1>1, MarkingType DEF Inv
<1>3. ps \subseteq Packages
  BY DEF packagesOf, Rows, Inv, TypeOK
<1>4. tx' = [tx EXCEPT ![t] = next] /\ UNCHANGED tables
  BY DEF LockPackages, Continue
<1> HIDE DEF ps
<1>5. /\ next \in MarkTx /\ next.step = "pick"
      /\ next.marks = tx[t].marks /\ next.rows = tx[t].rows /\ next.new = tx[t].new
      /\ next.reversed = tx[t].reversed /\ next.lesson = tx[t].lesson
      /\ next.active = tx[t].active
  BY <1>2, <1>3 DEF MarkTx
<1> HIDE DEF next
<1> QED
  BY <1>1, <1>4, <1>5, ConsumeInv

LEMMA PickInv ==
  ASSUME Inv, NEW t \in Txs, Pick(t)
  PROVE  Inv'
<1> DEFINE p == pickPackage(childOf(t), DayOf[tx[t].lesson], tx[t].reversed)
           next == [tx[t] EXCEPT !.pick = p, !.step = "use"]
<1>1. Marking(t) /\ Consuming(t)
  BY DEF Pick, Consuming
<1>2. tx[t] \in MarkTx
  BY <1>1, MarkingType DEF Inv
<1>3. tx' = [tx EXCEPT ![t] = next] /\ UNCHANGED tables
  BY DEF Pick, Continue
<1>4. p \in Packages \cup {None}
  BY PickedPackage DEF Inv
<1> HIDE DEF p
<1>5. /\ next \in MarkTx /\ next.step = "use"
      /\ next.marks = tx[t].marks /\ next.rows = tx[t].rows /\ next.new = tx[t].new
      /\ next.reversed = tx[t].reversed /\ next.lesson = tx[t].lesson
      /\ next.active = tx[t].active
  BY <1>2, <1>4 DEF MarkTx
<1> HIDE DEF next
<1> QED
  BY <1>1, <1>3, <1>5, ConsumeInv

(* What a mark is to write is a row of the table.                          *)
LEMMA MarkInv ==
  ASSUME Inv, NEW t \in Txs, NEW c \in Children, NEW m \in Marks, Mark(t, c, m)
  PROVE  Inv'
<1> DEFINE status == tx[t].marks[c]
           row == [lesson |-> tx[t].lesson, child |-> c, status |-> status,
                   voided |-> FALSE, usage |-> "none", package |-> None,
                   charge |-> "none", late |-> FALSE]
           new == IF shouldConsume(tx[t].rule, status) THEN m ELSE None
           step == IF shouldConsume(tx[t].rule, status) THEN "packages" ELSE "marks"
           next == [tx[t] EXCEPT !.marks = Without(@, c),
                                 !.reversed = @ \cup existing(t, c),
                                 !.rows[m] = row, !.new = new, !.step = step]
<1>1. /\ Marking(t) /\ tx[t].step = "marks" /\ c \in DOMAIN tx[t].marks
      /\ Fresh(m)
      /\ tx' = [tx EXCEPT ![t] = next] /\ UNCHANGED tables
  BY DEF Mark, Continue
<1>2. tx[t] \in MarkTx /\ Sound(t)
  BY <1>1, MarkingType DEF Inv
<1>3. /\ tx[t].marks \in UNION {[cs -> AttendanceStatus] : cs \in SUBSET Children}
      /\ tx[t].lesson \in Lessons
      /\ tx[t].rows \in [Marks -> MarkRow \cup {None}]
  BY <1>2 DEF MarkTx
<1>4. /\ Without(tx[t].marks, c)
           \in UNION {[cs -> AttendanceStatus] : cs \in SUBSET Children}
      /\ DOMAIN Without(tx[t].marks, c) = DOMAIN tx[t].marks \ {c}
      /\ status \in AttendanceStatus
  BY <1>1, <1>3, WithoutType
<1>5. row \in MarkRow /\ row # None
  <2> HIDE DEF status
  <2>1. row \in MarkRow
    BY <1>3, <1>4 DEF MarkRow, ChargeState
  <2> QED
    BY <2>1, NoneAssumption
<1>6. new \in Marks \cup {None} /\ step \in {"packages", "marks"}
  OBVIOUS
<1>7. existing(t, c) \subseteq tx[t].active
  BY DEF existing
<1> HIDE DEF new, step
<1>8. /\ next.marks = Without(tx[t].marks, c)
      /\ next.reversed = tx[t].reversed \cup existing(t, c)
      /\ next.rows = [tx[t].rows EXCEPT ![m] = row]
      /\ next.new = new /\ next.step = step
      /\ next.lesson = tx[t].lesson /\ next.active = tx[t].active
      /\ next.op = "mark"
  BY <1>2 DEF MarkTx
<1>9. next \in MarkTx
  <2>1. next.rows \in [Marks -> MarkRow \cup {None}]
    BY <1>3, <1>5, <1>8
  <2>2. next.reversed \subseteq Marks
    BY <1>2, <1>7, <1>8 DEF MarkTx
  <2> QED
    BY <1>2, <1>4, <1>6, <1>8, <2>1, <2>2 DEF MarkTx
<1>10. tx'[t] = next /\ mark' = mark /\ \A u \in Txs \ {t} : tx'[u] = tx[u]
  BY <1>1 DEF Inv, TypeOK, tables
<1>11. /\ next.rows[m] = row
       /\ Rows(next.rows) = Rows(tx[t].rows) \cup {m}
       /\ \A n \in Rows(tx[t].rows) : n # m /\ next.rows[n] = tx[t].rows[n]
       /\ mark[m] = None
  <2>1. tx[t].rows[m] = None /\ mark[m] = None
    BY <1>1 DEF Fresh
  <2> QED
    BY <1>3, <1>5, <1>8, <2>1 DEF Rows
<1>12. new # None => new = m /\ step = "packages"
  BY DEF new, step
<1>13. step = "packages" => new = m
  BY DEF new, step
<1> HIDE DEF next
<1>14. Sound(t)'
  <2>1. Consuming(t)' => tx'[t].new \in Marks /\ tx'[t].rows[tx'[t].new] # None
    BY <1>5, <1>6, <1>8, <1>10, <1>11, <1>13 DEF Consuming
  <2>2. tx'[t].reversed \subseteq tx'[t].active
    BY <1>2, <1>1, <1>7, <1>8, <1>10 DEF Sound
  <2>3. tx'[t].step # "lesson" /\ tx'[t].active = ActiveMarks(tx[t].lesson)'
    BY <1>1, <1>2, <1>6, <1>8, <1>10 DEF Sound, ActiveMarks, Rows
  <2>4. \A d : existing(t, d)' = existing(t, d)
    BY <1>8, <1>10 DEF existing
  <2>5. ASSUME NEW n \in Rows(tx[t].rows)'
        PROVE  /\ mark'[n] = None
               /\ tx'[t].rows[n].lesson = tx'[t].lesson
               /\ ~tx'[t].rows[n].voided
               /\ tx'[t].rows[n].usage # "voided"
               /\ tx'[t].rows[n].child \notin DOMAIN tx'[t].marks
               /\ existing(t, tx'[t].rows[n].child) \subseteq tx'[t].reversed
               /\ \A o \in Rows(tx'[t].rows) :
                    tx'[t].rows[n].child = tx'[t].rows[o].child => n = o
    <3>1. n \in Rows(next.rows)
      BY <1>10 DEF Rows
    <3>2. /\ row.child = c /\ row.lesson = tx[t].lesson
          /\ ~row.voided /\ row.usage = "none"
      OBVIOUS
    <3> HIDE DEF row
    <3>3. /\ tx'[t].rows = next.rows /\ tx'[t].lesson = tx[t].lesson
          /\ tx'[t].marks = Without(tx[t].marks, c)
          /\ tx'[t].reversed = tx[t].reversed \cup existing(t, c)
          /\ next.rows[m] = row
          /\ Rows(next.rows) = Rows(tx[t].rows) \cup {m}
          /\ \A o \in Rows(tx[t].rows) : next.rows[o] = tx[t].rows[o]
      BY <1>8, <1>10, <1>11
    <3>4. \A o \in Rows(tx[t].rows) :
            /\ mark[o] = None
            /\ tx[t].rows[o].lesson = tx[t].lesson
            /\ ~tx[t].rows[o].voided /\ tx[t].rows[o].usage # "voided"
            /\ tx[t].rows[o].child \notin DOMAIN tx[t].marks
            /\ existing(t, tx[t].rows[o].child) \subseteq tx[t].reversed
            /\ \A r \in Rows(tx[t].rows) : tx[t].rows[o].child = tx[t].rows[r].child => o = r
      BY <1>1, <1>2 DEF Sound
    <3>5. \A o \in Rows(tx[t].rows) : tx[t].rows[o].child # c
      BY <1>1, <3>4
    <3>6. CASE n = m
      BY <3>2, <3>3, <3>5, <3>6, <1>4, <1>10, <1>11
    <3>7. CASE n \in Rows(tx[t].rows)
      BY <3>2, <3>3, <3>4, <3>5, <3>7, <1>4, <1>10
    <3> QED
      BY <3>1, <3>3, <3>6, <3>7
  <2>6. Rows(tx[t].rows)' = Rows(tx'[t].rows)
    BY DEF Rows
  <2> QED
    BY <2>1, <2>2, <2>3, <2>4, <2>5, <2>6 DEF Sound
<1>15. ASSUME NEW u \in Txs \ {t} PROVE Apart(t, u)'
  <2>1. Apart(t, u)
    BY DEF Inv
  <2>2. Marking(u) => m \notin Rows(tx[u].rows)
    BY <1>1 DEF Fresh, Rows
  <2>3. /\ tx'[u] = tx[u] /\ Marking(u)' = Marking(u)
        /\ Rows(tx[u].rows)' = Rows(tx[u].rows)
    BY <1>10 DEF Marking, Idle, Rows
  <2>4. Rows(tx[t].rows)' = Rows(tx[t].rows) \cup {m}
    BY <1>10, <1>11 DEF Rows
  <2> QED
    BY <1>1, <1>8, <1>10, <2>1, <2>2, <2>3, <2>4 DEF Apart
<1> QED
  BY <1>1, <1>9, <1>14, <1>15, OneMoves

(* The usage is written to the row of the mark, and changes nothing else.  *)
LEMMA UseInv ==
  ASSUME Inv, NEW t \in Txs, Use(t)
  PROVE  Inv'
<1> DEFINE p == tx[t].pick
           m == tx[t].new
           old == tx[t].rows[m]
           row == Charged(old, p, tx[t].seen)
           next == [tx[t] EXCEPT
                      !.rows[m] = row,
                      !.new = None, !.pick = None, !.seen = {},
                      !.step = "marks"]
<1>1. /\ Marking(t) /\ tx[t].step = "use" /\ Consuming(t)
      /\ tx' = [tx EXCEPT ![t] = next] /\ UNCHANGED tables
  BY DEF Use, Continue, Consuming
<1>2. tx[t] \in MarkTx /\ Sound(t)
  BY <1>1, MarkingType DEF Inv
<1>3. /\ m \in Marks /\ p \in Packages \cup {None}
      /\ tx[t].rows \in [Marks -> MarkRow \cup {None}]
      /\ old \in MarkRow /\ m \in Rows(tx[t].rows)
  BY <1>1, <1>2 DEF MarkTx, Sound, Rows
<1>4. /\ next.rows = [tx[t].rows EXCEPT ![m] = row]
      /\ next.new = None /\ next.pick = None /\ next.seen = {}
      /\ next.step = "marks" /\ next.op = "mark"
      /\ next.marks = tx[t].marks /\ next.reversed = tx[t].reversed
      /\ next.lesson = tx[t].lesson /\ next.active = tx[t].active
      /\ next.locked = tx[t].locked /\ next.rule = tx[t].rule
  <2> HIDE DEF row
  <2> QED
    BY <1>2, <1>3 DEF MarkTx
<1>5. /\ row \in MarkRow /\ row # None
      /\ row.lesson = old.lesson /\ row.child = old.child
      /\ row.voided = old.voided /\ row.usage = "active"
  <2>1. row \in MarkRow
    BY <1>3 DEF MarkRow, ChargeState, Charged
  <2> QED
    BY <1>3, <2>1, NoneAssumption DEF MarkRow, Charged
<1>6. next \in MarkTx
  <2> HIDE DEF row
  <2>1. next.rows \in [Marks -> MarkRow \cup {None}]
    BY <1>3, <1>4, <1>5
  <2> QED
    BY <1>2, <1>4, <2>1 DEF MarkTx
<1> HIDE DEF row, next, old
<1>7. tx'[t] = next /\ mark' = mark
  BY <1>1 DEF Inv, TypeOK, tables
<1>8. /\ Rows(next.rows) = Rows(tx[t].rows)
      /\ \A n \in Rows(tx[t].rows) :
           /\ next.rows[n].lesson = tx[t].rows[n].lesson
           /\ next.rows[n].child = tx[t].rows[n].child
           /\ next.rows[n].voided = tx[t].rows[n].voided
           /\ next.rows[n].usage = tx[t].rows[n].usage \/ next.rows[n].usage = "active"
  BY <1>3, <1>4, <1>5, ZenonT(60) DEF Rows, old
<1>9. Sound(t)'
  <2>1. \A d : existing(t, d)' = existing(t, d)
    BY <1>4, <1>7 DEF existing
  <2>2. /\ tx'[t].step = "marks" /\ tx'[t].marks = tx[t].marks
        /\ tx'[t].reversed = tx[t].reversed /\ tx'[t].lesson = tx[t].lesson
        /\ tx'[t].active = tx[t].active /\ tx'[t].rows = next.rows
        /\ ActiveMarks(tx[t].lesson)' = ActiveMarks(tx[t].lesson)
    BY <1>4, <1>7 DEF ActiveMarks, Rows
  <2>3. Rows(tx[t].rows)' = Rows(tx[t].rows)
    BY <1>7, <1>8 DEF Rows
  <2> QED
    BY <1>1, <1>2, <1>7, <1>8, <2>1, <2>2, <2>3 DEF Sound, Consuming
<1>10. \A u \in Txs \ {t} : Apart(t, u)'
  BY <1>1, <1>4, <1>6, <1>8, StaysApart
<1> QED
  BY <1>1, <1>6, <1>9, <1>10, OneMoves

LEMMA FailInv ==
  ASSUME Inv, NEW t \in Txs, Fail(t)
  PROVE  Inv'
<1>1. tx' = [tx EXCEPT ![t] = None] /\ UNCHANGED tables
  BY DEF Fail, End
<1>2. ~Marking(t)'
  BY <1>1 DEF Marking, Idle, Inv, TypeOK
<1> QED
  BY <1>1, <1>2, OneMoves DEF Sound, Apart

LEMMA BeginExtendInv ==
  ASSUME Inv, NEW t \in Txs, NEW p \in Packages, NEW day \in Expiries,
         BeginExtend(t, p, day)
  PROVE  Inv'
<1> DEFINE next == [op |-> "extend", package |-> p, expiry |-> day]
<1>1. tx' = [tx EXCEPT ![t] = next] /\ UNCHANGED tables /\ next \in ExtendTx
  BY DEF BeginExtend, Continue, ExtendTx
<1>2. ~Marking(t)'
  BY <1>1 DEF Marking, Inv, TypeOK
<1> HIDE DEF next
<1> QED
  BY <1>1, <1>2, OneMoves DEF Sound, Apart

(* Steps that leave the marks alone, and may end a request.                *)
LEMMA SameMarks ==
  ASSUME Inv, TypeOK', mark' = mark,
         \A t \in Txs : tx'[t] = tx[t] \/ tx'[t] = None
  PROVE  Inv'
<1>1. ASSUME NEW t \in Txs PROVE Sound(t)'
  <2>1. Sound(t)
    BY DEF Inv
  <2> QED
    BY <2>1 DEF Sound, Consuming, ActiveMarks, existing, Rows, Marking, Idle
<1>2. ASSUME NEW t \in Txs, NEW u \in Txs, t # u PROVE Apart(t, u)'
  <2>1. Apart(t, u)
    BY <1>2 DEF Inv
  <2> QED
    BY <2>1 DEF Apart, Marking, Idle, Rows
<1>3. OneStandingMark' /\ OnlyStandingMarksCost'
  BY DEF Inv, OneStandingMark, OnlyStandingMarksCost, Rows
<1> QED
  BY <1>1, <1>2, <1>3 DEF Inv

LEMMA ExtendInv ==
  ASSUME Inv, NEW t \in Txs, Extend(t)
  PROVE  Inv'
<1> DEFINE p == tx[t].package
           next == Append(extension[p], tx[t].expiry)
<1>1. /\ tx[t] # None /\ tx[t].op = "extend"
      /\ extension' = [extension EXCEPT ![p] = next]
      /\ tx' = [tx EXCEPT ![t] = None]
      /\ UNCHANGED <<rule, package, mark>>
  BY DEF Extend, End, Idle
<1>2. tx[t] \in ExtendTx
  BY <1>1 DEF Inv, TypeOK, MarkTx
<1>3. p \in Packages /\ tx[t].expiry \in Expiries
  BY <1>2 DEF ExtendTx
<1>4. next \in Seq(Expiries)
  BY <1>3 DEF Inv, TypeOK
<1> HIDE DEF next
<1>5. TypeOK'
  BY <1>1, <1>3, <1>4 DEF Inv, TypeOK
<1>6. \A u \in Txs : tx'[u] = tx[u] \/ tx'[u] = None
  BY <1>1 DEF Inv, TypeOK
<1> QED
  BY <1>1, <1>5, <1>6, SameMarks

LEMMA PurchaseInv ==
  ASSUME Inv, NEW row \in PackageRow, Purchase(row)
  PROVE  Inv'
<1>1. TypeOK'
  BY DEF Inv, TypeOK, Purchase
<1> QED
  BY <1>1, SameMarks DEF Purchase

LEMMA VoidPackageInv ==
  ASSUME Inv, NEW p \in Packages, VoidPackage(p) \/ VoidPackageCharge(p)
  PROVE  Inv'
<1>1. package[p] \in PackageRow
  BY DEF Inv, TypeOK, VoidPackage, VoidPackageCharge
<1>2. CASE VoidPackage(p)
  <2> DEFINE row == [package[p] EXCEPT !.voided = TRUE,
                                       !.charge = IF @ = "open" THEN "voided" ELSE @]
  <2>1. row \in PackageRow
    BY <1>1 DEF PackageRow, ChargeState
  <2>2. package' = [package EXCEPT ![p] = row]
    BY <1>2 DEF VoidPackage
  <2> HIDE DEF row
  <2>3. TypeOK'
    BY <1>2, <2>1, <2>2 DEF Inv, TypeOK, VoidPackage
  <2> QED
    BY <1>2, <2>3, SameMarks DEF VoidPackage
<1>3. CASE VoidPackageCharge(p)
  <2> DEFINE row == [package[p] EXCEPT !.charge = "voided"]
  <2>1. row \in PackageRow
    BY <1>1 DEF PackageRow, ChargeState
  <2>2. package' = [package EXCEPT ![p] = row]
    BY <1>3 DEF VoidPackageCharge
  <2> HIDE DEF row
  <2>3. TypeOK'
    BY <1>3, <2>1, <2>2 DEF Inv, TypeOK, VoidPackageCharge
  <2> QED
    BY <1>3, <2>3, SameMarks DEF VoidPackageCharge
<1> QED
  BY <1>2, <1>3

LEMMA ChangeRuleInv ==
  ASSUME Inv, NEW r \in Rules, ChangeRule(r)
  PROVE  Inv'
<1>1. TypeOK'
  BY InputAssumption DEF Inv, TypeOK, ChangeRule
<1> QED
  BY <1>1, SameMarks DEF ChangeRule

LEMMA VoidSingleInv ==
  ASSUME Inv, NEW m \in Marks, VoidSingle(m)
  PROVE  Inv'
<1> DEFINE row == [mark[m] EXCEPT !.charge = "voided"]
<1>1. /\ mark[m] \in MarkRow /\ mark[m] # None
      /\ mark' = [mark EXCEPT ![m] = row] /\ tx' = tx
      /\ UNCHANGED <<rule, package, extension>>
  BY DEF Inv, TypeOK, VoidSingle
<1>2. /\ row \in MarkRow /\ row # None
      /\ row.lesson = mark[m].lesson /\ row.child = mark[m].child
      /\ row.voided = mark[m].voided /\ row.usage = mark[m].usage
      /\ row.charge = "voided"
  <2>1. row \in MarkRow
    BY <1>1 DEF MarkRow, ChargeState
  <2> QED
    BY <1>1, <2>1, NoneAssumption DEF MarkRow
<1> HIDE DEF row
<1>3. TypeOK'
  BY <1>1, <1>2 DEF Inv, TypeOK
<1>4. /\ Rows(mark)' = Rows(mark)
      /\ \A n \in Marks :
           /\ mark'[n] = None <=> mark[n] = None
           /\ mark'[n].lesson = mark[n].lesson /\ mark'[n].child = mark[n].child
           /\ mark'[n].voided = mark[n].voided /\ mark'[n].usage = mark[n].usage
           /\ mark'[n].charge = mark[n].charge \/ mark'[n].charge = "voided"
  BY <1>1, <1>2 DEF Inv, TypeOK, Rows
<1>5. Rows(mark) \subseteq Marks
  BY DEF Inv, TypeOK, Rows
<1>6. ASSUME NEW t \in Txs PROVE Sound(t)'
  <2>1. Sound(t)
    BY DEF Inv
  <2>2. CASE Marking(t)
    <3>1. tx[t] \in MarkTx
      BY <2>2, MarkingType DEF Inv
    <3>2. Rows(tx[t].rows) \subseteq Marks /\ tx[t].active \subseteq Marks
      BY <3>1 DEF MarkTx, Rows
    <3>3. ActiveMarks(tx[t].lesson)' = ActiveMarks(tx[t].lesson)
      BY <1>1, <1>4, <1>5 DEF ActiveMarks
    <3>4. \A c : existing(t, c)' = existing(t, c)
      BY <1>1, <1>4, <3>2 DEF existing
    <3>5. \A n \in Rows(tx[t].rows) : mark[n] = None => mark'[n] = None
      BY <1>4, <3>2
    <3> QED
      BY <1>1, <2>1, <3>3, <3>4, <3>5 DEF Sound, Consuming, Marking, Idle, Rows
  <2>3. CASE ~Marking(t)
    BY <1>1, <2>3 DEF Sound, Marking, Idle
  <2> QED
    BY <2>2, <2>3
<1>7. ASSUME NEW t \in Txs, NEW u \in Txs, t # u PROVE Apart(t, u)'
  <2>1. Apart(t, u)
    BY <1>7 DEF Inv
  <2> QED
    BY <1>1, <2>1 DEF Apart, Marking, Idle, Rows
<1>8. OneStandingMark' /\ OnlyStandingMarksCost'
  BY <1>4, <1>5 DEF Inv, OneStandingMark, OnlyStandingMarksCost
<1> QED
  BY <1>3, <1>6, <1>7, <1>8 DEF Inv

(* The commit: a mark it voids is of its lesson, which nobody else holds,  *)
(* and a mark it adds finds no other of its child that stands.             *)
LEMMA CommitInv ==
  ASSUME Inv, NEW t \in Txs, Commit(t)
  PROVE  Inv'
<1>1. /\ Marking(t) /\ tx[t].step = "marks"
      /\ tx' = [tx EXCEPT ![t] = None]
      /\ UNCHANGED <<rule, package, extension>>
  BY DEF Commit, End
<1>2. tx[t] \in MarkTx /\ Sound(t)
  BY <1>1, MarkingType DEF Inv
<1> DEFINE new == Rows(tx[t].rows)
           gone == tx[t].reversed
<1>3. /\ new \subseteq Marks /\ gone \subseteq Marks
      /\ tx[t].lesson \in Lessons
      /\ \A n \in new : tx[t].rows[n] \in MarkRow
      /\ Rows(mark) \subseteq Marks
      /\ \A n \in Rows(mark) : mark[n] \in MarkRow
  BY <1>2 DEF MarkTx, Rows, Inv, TypeOK
<1>4. /\ gone \subseteq ActiveMarks(tx[t].lesson)
      /\ tx[t].active = ActiveMarks(tx[t].lesson)
      /\ gone \subseteq Rows(mark) /\ new \cap Rows(mark) = {}
      /\ \A n \in gone : mark[n].lesson = tx[t].lesson
  BY <1>1, <1>2 DEF Sound, ActiveMarks, Rows
<1>5. \A n \in new :
        /\ tx[t].rows[n].lesson = tx[t].lesson
        /\ ~tx[t].rows[n].voided /\ tx[t].rows[n].usage # "voided"
        /\ existing(t, tx[t].rows[n].child) \subseteq gone
        /\ \A o \in new : tx[t].rows[n].child = tx[t].rows[o].child => n = o
  BY <1>1, <1>2 DEF Sound
<1>6. \A n \in gone :
        /\ Reversed(mark[n]) \in MarkRow /\ Reversed(mark[n]) # None
        /\ Reversed(mark[n]).voided /\ Reversed(mark[n]).usage # "active"
        /\ Reversed(mark[n]).charge # "open"
        /\ Reversed(mark[n]).lesson = mark[n].lesson
        /\ Reversed(mark[n]).child = mark[n].child
  <2> SUFFICES ASSUME NEW n \in gone
               PROVE  /\ Reversed(mark[n]) \in MarkRow /\ Reversed(mark[n]) # None
                      /\ Reversed(mark[n]).voided /\ Reversed(mark[n]).usage # "active"
                      /\ Reversed(mark[n]).charge # "open"
                      /\ Reversed(mark[n]).lesson = mark[n].lesson
                      /\ Reversed(mark[n]).child = mark[n].child
    OBVIOUS
  <2>1. mark[n] \in MarkRow
    BY <1>3, <1>4
  <2>2. Reversed(mark[n]) \in MarkRow
    BY <2>1 DEF Reversed, MarkRow, ChargeState
  <2> QED
    BY <2>1, <2>2, NoneAssumption DEF Reversed, MarkRow
<1> HIDE DEF new, gone
<1>7. /\ \A n \in new : mark'[n] = tx[t].rows[n]
      /\ \A n \in gone : mark'[n] = Reversed(mark[n])
      /\ \A n \in Marks \ (new \cup gone) : mark'[n] = mark[n]
      /\ DOMAIN mark' = Marks
  <2>1. mark' = [n \in Marks |-> IF n \in new THEN tx[t].rows[n]
                                ELSE IF n \in gone THEN Reversed(mark[n])
                                ELSE mark[n]]
    <3>1. tx[t].rows \in [Marks -> MarkRow \cup {None}]
      BY <1>2 DEF MarkTx
    <3> QED
      BY <3>1 DEF Commit, new, gone, Rows
  <2> QED
    BY <1>3, <1>4, <2>1
<1>8. TypeOK'
  <2>1. mark' = [n \in Marks |-> mark'[n]]
    BY DEF Commit
  <2>2. \A n \in Marks : mark'[n] \in MarkRow \cup {None}
    BY <1>3, <1>6, <1>7 DEF Inv, TypeOK
  <2>3. mark' \in [Marks -> MarkRow \cup {None}]
    BY <2>1, <2>2
  <2> QED
    BY <1>1, <2>3 DEF Inv, TypeOK
<1>9. /\ Rows(mark)' = Rows(mark) \cup new
      /\ \A n \in Rows(mark) :
           /\ mark'[n].lesson = mark[n].lesson /\ mark'[n].child = mark[n].child
           /\ mark'[n].voided <=> (mark[n].voided \/ n \in gone)
  <2>1. \A n \in new : tx[t].rows[n] # None
    BY DEF new, Rows
  <2>2. \A n \in Marks : mark'[n] # None <=> (n \in Rows(mark) \/ n \in new)
    BY <1>3, <1>4, <1>6, <1>7, <2>1 DEF Rows, Inv, TypeOK
  <2>3. Rows(mark)' = {n \in Marks : mark'[n] # None}
    BY <1>7 DEF Rows
  <2>4. ASSUME NEW n \in Rows(mark)
        PROVE  /\ mark'[n].lesson = mark[n].lesson /\ mark'[n].child = mark[n].child
               /\ mark'[n].voided <=> (mark[n].voided \/ n \in gone)
    <3>1. CASE n \in gone
      BY <3>1, <1>6, <1>7
    <3>2. CASE n \notin gone
      <4>1. n \in Marks \ (new \cup gone)
        BY <3>2, <1>3, <1>4
      <4> QED
        BY <3>2, <4>1, <1>7
    <3> QED
      BY <3>1, <3>2
  <2> QED
    BY <1>3, <2>2, <2>3, <2>4
<1>10. ASSUME NEW u \in Txs PROVE Sound(u)'
  <2>1. CASE u = t
    BY <2>1, <1>1 DEF Sound, Marking, Idle, Inv, TypeOK
  <2>2. CASE u # t /\ ~Marking(u)
    BY <2>2, <1>1 DEF Sound, Marking, Idle, Inv, TypeOK
  <2>3. CASE u # t /\ Marking(u)
    <3>1. tx'[u] = tx[u] /\ Marking(u)' /\ Sound(u) /\ Apart(t, u) /\ tx[u] \in MarkTx
      BY <2>3, <1>1, MarkingType DEF Inv, TypeOK, Marking, Idle
    <3>2. Rows(tx[u].rows) \cap new = {}
      BY <1>1, <2>3, <3>1 DEF Apart, new
    <3>3. \A n \in Rows(tx[u].rows) : mark'[n] = None
      <4>1. \A n \in Rows(tx[u].rows) : n \in Marks /\ n \notin Rows(mark)
        BY <2>3, <3>1 DEF Sound, MarkTx, Rows
      <4> QED
        BY <1>7, <1>9, <3>2, <4>1 DEF Rows
    <3>4. CASE tx[u].step = "lesson"
      BY <3>1, <3>3, <3>4, <2>3 DEF Sound, Consuming, Rows
    <3>5. CASE tx[u].step # "lesson"
      <4>1. tx[u].lesson # tx[t].lesson
        BY <1>1, <2>3, <3>1, <3>5 DEF Apart
      <4>2. ActiveMarks(tx[u].lesson)' = ActiveMarks(tx[u].lesson)
        <5>1. \A n \in new : mark'[n].lesson = tx[t].lesson
          BY <1>5, <1>7
        <5>2. \A n \in Rows(mark) : mark[n].lesson = tx[u].lesson => n \notin gone
          BY <1>4, <4>1
        <5> QED
          BY <1>9, <3>1, <4>1, <5>1, <5>2 DEF ActiveMarks
      <4>3. tx[u].active \subseteq Rows(mark) /\ tx[u].active = ActiveMarks(tx[u].lesson)
        BY <2>3, <3>1, <3>5 DEF Sound, ActiveMarks
      <4>4. \A d : existing(u, d)' = existing(u, d)
        BY <1>9, <3>1, <4>3 DEF existing
      <4>5. Rows(tx[u].rows)' = Rows(tx[u].rows) /\ (tx[u].active = ActiveMarks(tx[u].lesson))'
        BY <3>1, <4>2, <4>3 DEF Rows
      <4> QED
        BY <2>3, <3>1, <3>3, <3>5, <4>4, <4>5 DEF Sound, Consuming
    <3> QED
      BY <3>4, <3>5
  <2> QED
    BY <2>1, <2>2, <2>3
<1>11. ASSUME NEW u \in Txs, NEW v \in Txs, u # v PROVE Apart(u, v)'
  <2>1. Apart(u, v)
    BY <1>11 DEF Inv
  <2>2. \A w \in Txs : tx'[w] = tx[w] \/ tx'[w] = None
    BY <1>1 DEF Inv, TypeOK
  <2> QED
    BY <2>1, <2>2 DEF Apart, Marking, Idle, Rows
<1>12. OneStandingMark'
  <2> SUFFICES ASSUME NEW m \in Rows(mark)', NEW n \in Rows(mark)',
                      ~mark'[m].voided, ~mark'[n].voided,
                      mark'[m].lesson = mark'[n].lesson,
                      mark'[m].child = mark'[n].child
               PROVE  m = n
    BY DEF OneStandingMark
  <2>1. \A o \in Rows(mark), r \in new :
          ~(/\ ~mark'[o].voided /\ mark'[o].lesson = mark'[r].lesson
            /\ mark'[o].child = mark'[r].child)
    <3> SUFFICES ASSUME NEW o \in Rows(mark), NEW r \in new, ~mark'[o].voided,
                        mark'[o].lesson = mark'[r].lesson,
                        mark'[o].child = mark'[r].child
                 PROVE  FALSE
      OBVIOUS
    <3>1. mark'[r].lesson = tx[t].lesson /\ existing(t, mark'[r].child) \subseteq gone
      BY <1>5, <1>7
    <3>2. o \in ActiveMarks(tx[t].lesson) /\ o \notin gone
      BY <1>9, <3>1 DEF ActiveMarks
    <3>3. o \in existing(t, mark'[r].child)
      BY <1>4, <1>9, <3>2 DEF existing
    <3> QED
      BY <3>1, <3>2, <3>3
  <2>2. CASE m \in Rows(mark) /\ n \in Rows(mark)
    BY <2>2, <1>9 DEF Inv, OneStandingMark
  <2>3. CASE m \in new /\ n \in new
    BY <2>3, <1>5, <1>7
  <2> QED
    BY <1>9, <2>1, <2>2, <2>3
<1>13. OnlyStandingMarksCost'
  <2> SUFFICES ASSUME NEW m \in Rows(mark)'
               PROVE  IF mark'[m].voided
                        THEN mark'[m].usage # "active" /\ mark'[m].charge # "open"
                        ELSE mark'[m].usage # "voided"
    BY DEF OnlyStandingMarksCost
  <2>1. CASE m \in new
    BY <2>1, <1>5, <1>7
  <2>2. CASE m \in gone
    BY <2>2, <1>6, <1>7
  <2>3. CASE m \notin new /\ m \notin gone
    BY <2>3, <1>3, <1>7, <1>9 DEF Inv, OnlyStandingMarksCost
  <2> QED
    BY <2>1, <2>2, <2>3
<1> QED
  BY <1>8, <1>10, <1>11, <1>12, <1>13 DEF Inv

-----------------------------------------------------------------------------
LEMMA NextInv ==
  ASSUME Inv, [Next]_vars
  PROVE  Inv'
<1>1. ASSUME NEW t \in Txs, NEW l \in Lessons, NEW cs \in SUBSET Children,
             NEW marks \in [cs -> Statuses], BeginMark(t, l, marks)
      PROVE  Inv'
  BY <1>1, BeginMarkInv
<1>2. ASSUME NEW t \in Txs, MarkStep(t) PROVE Inv'
  <2>1. CASE LockLesson(t)
    BY <2>1, LockLessonInv
  <2>2. ASSUME NEW c \in Children, Skip(t, c) PROVE Inv'
    BY <2>2, SkipInv
  <2>3. ASSUME NEW c \in Children, NEW m \in Marks, Mark(t, c, m) PROVE Inv'
    BY <2>3, MarkInv
  <2>4. CASE LockPackages(t)
    BY <2>4, LockPackagesInv
  <2>5. CASE Pick(t)
    BY <2>5, PickInv
  <2>6. CASE Use(t)
    BY <2>6, UseInv
  <2>7. CASE Commit(t)
    BY <2>7, CommitInv
  <2> QED
    BY <1>2, <2>1, <2>2, <2>3, <2>4, <2>5, <2>6, <2>7 DEF MarkStep
<1>3. ASSUME NEW t \in Txs, Extend(t) \/ Fail(t) PROVE Inv'
  BY <1>3, ExtendInv, FailInv
<1>4. ASSUME NEW t \in Txs, NEW p \in Packages, NEW day \in Expiries,
             BeginExtend(t, p, day)
      PROVE  Inv'
  BY <1>4, BeginExtendInv
<1>5. CASE Acquire
  <2>1. PICK row \in PackageRows \cup OldPackageRows : Purchase(row)
    BY <1>5 DEF Acquire
  <2>2. row \in PackageRow
    BY InputAssumption
  <2> QED
    BY <2>1, <2>2, PurchaseInv
<1>6. ASSUME NEW p \in Packages, VoidPackage(p) \/ VoidPackageCharge(p) PROVE Inv'
  BY <1>6, VoidPackageInv
<1>7. ASSUME NEW m \in Marks, VoidSingle(m) PROVE Inv'
  BY <1>7, VoidSingleInv
<1>8. ASSUME NEW r \in Rules, ChangeRule(r) PROVE Inv'
  BY <1>8, ChangeRuleInv
<1>9. CASE UNCHANGED vars
  <2>1. TypeOK'
    BY <1>9 DEF vars, Inv, TypeOK
  <2> QED
    BY <1>9, <2>1, SameMarks DEF vars
<1> QED
  BY <1>1, <1>2, <1>3, <1>4, <1>5, <1>6, <1>7, <1>8, <1>9 DEF Next

LEMMA SpecInv == Spec => []Inv
  BY InitInv, NextInv, PTL DEF Spec

(* Whatever is marked, bought, extended and voided, the tables hold rows.  *)
THEOREM TypeCorrect == Spec => []TypeOK
<1>1. Inv => TypeOK
  BY DEF Inv
<1> QED
  BY <1>1, SpecInv, PTL

(* A child has at most one mark that stands at a lesson, for any number of *)
(* requests that mark it at once and any number of children on a list.     *)
THEOREM OneMarkStands == Spec => []OneStandingMark
<1>1. Inv => OneStandingMark
  BY DEF Inv
<1> QED
  BY <1>1, SpecInv, PTL

(* A correction gives back what the corrected mark took, and nothing else  *)
(* takes the session of a mark that stands.                                *)
THEOREM CorrectionsGiveBack == Spec => []OnlyStandingMarksCost
<1>1. Inv => OnlyStandingMarksCost
  BY DEF Inv
<1> QED
  BY <1>1, SpecInv, PTL

-----------------------------------------------------------------------------
(* The packages are numbered in the order they were bought, so that the    *)
(* next number is free.                                                    *)
Numbered == \E n \in Nat : Rows(package) = 1..n

(* The day is within the package as it was at some time.                   *)
WasValid(p, day) ==
  /\ package[p].from <= day
  /\ \/ package[p].expires = None
     \/ day <= package[p].expires
     \/ \E n \in DOMAIN extension[p] : day <= extension[p][n]

(* The sessions taken of a package by marks that had it locked.            *)
taken(p) == {m \in usages(p, {}) : ~mark[m].late}

(* A session is left of the package, once the marks of gone are reversed.  *)
Left(p, gone) ==
  /\ ~package[p].voided
  /\ Cardinality(taken(p) \ gone) < package[p].total - package[p].usedBefore

(* The package is one that the child may take a session of on the day.     *)
Serves(p, c, day) ==
  /\ p \in Rows(package)
  /\ package[p].child = c
  /\ WasValid(p, day)

(* A row that takes a session keeps the package locked until the commit.   *)
Covered(t, row) ==
  row.package # None =>
    /\ Serves(row.package, row.child, DayOf[tx[t].lesson])
    /\ ~row.late => row.package \in tx[t].locked /\ Left(row.package, tx[t].reversed)

(* What a marking transaction has picked and written, against the tables.  *)
Holds(t) ==
  Marking(t) =>
    /\ tx[t].seen \subseteq tx[t].locked
    /\ (tx[t].step = "use" /\ tx[t].pick # None) =>
         /\ Serves(tx[t].pick, childOf(t), DayOf[tx[t].lesson])
         /\ tx[t].pick \in tx[t].seen => Left(tx[t].pick, tx[t].reversed)
    /\ \A m \in Rows(tx[t].rows) : Covered(t, tx[t].rows[m])

(* No package is locked by two transactions.                               *)
Alone(t, u) ==
  (Marking(t) /\ Marking(u)) => tx[t].locked \cap tx[u].locked = {}

(* A session that was taken is within its package.                         *)
Stored(m) ==
  (mark[m].usage = "active" /\ mark[m].package # None) =>
    /\ mark[m].package \in Rows(package)
    /\ WasValid(mark[m].package, DayOf[mark[m].lesson])

(* The marks that locked the package left it as LocksProtectPackages says. *)
Protected(p) ==
  /\ taken(p) # {} =>
       Cardinality(taken(p)) <= package[p].total - package[p].usedBefore
  /\ package[p].voided => taken(p) = {}

PackageInv ==
  /\ Numbered
  /\ \A m \in Rows(mark) : Stored(m)
  /\ \A p \in Rows(package) : Protected(p)
  /\ \A t \in Txs : Holds(t)
  /\ \A t, u \in Txs : t # u => Alone(t, u)

-----------------------------------------------------------------------------
LEMMA RowTypes ==
  ASSUME TypeOK
  PROVE  /\ Rows(mark) \subseteq Marks /\ Rows(package) \subseteq Packages
         /\ \A m \in Rows(mark) : mark[m] \in MarkRow
         /\ \A p \in Rows(package) :
              /\ package[p] \in PackageRow /\ p # None
              /\ package[p].total \in Nat /\ package[p].usedBefore \in Int
BY NoneAssumption DEF TypeOK, Rows, PackageRow

(* The sessions of a package are finitely many, and fewer without some.    *)
LEMMA TakenFinite ==
  ASSUME TypeOK, NEW p, NEW S, NEW T, T \subseteq Marks, S \subseteq T
  PROVE  /\ taken(p) \subseteq Marks
         /\ IsFiniteSet(S) /\ IsFiniteSet(T)
         /\ Cardinality(S) \in Nat /\ Cardinality(T) \in Nat
         /\ Cardinality(S) <= Cardinality(T)
<1>1. taken(p) \subseteq Marks
  BY RowTypes DEF taken, usages
<1>2. IsFiniteSet(T) /\ IsFiniteSet(S) /\ Cardinality(S) <= Cardinality(T)
  <2>1. IsFiniteSet(T)
    BY FS_Subset, InputAssumption
  <2> QED
    BY <2>1, FS_Subset
<1>3. Cardinality(S) \in Nat /\ Cardinality(T) \in Nat
  BY <1>2, FS_CardinalityType
<1> QED
  BY <1>1, <1>2, <1>3

LEMMA InitPackages == Init => PackageInv
<1> SUFFICES ASSUME Init PROVE PackageInv
  OBVIOUS
<1>1. Rows(mark) = {} /\ Rows(package) = {} /\ \A t \in Txs : ~Marking(t)
  BY DEF Init, Rows, Marking, Idle
<1>2. Numbered
  <2>1. Rows(package) = 1..0 /\ 0 \in Nat
    BY <1>1
  <2> QED
    BY <2>1 DEF Numbered
<1> QED
  BY <1>1, <1>2 DEF PackageInv, Holds, Alone

(* Packages stay as they were sold, and their extensions are only added.   *)
Kept ==
  /\ Rows(package) \subseteq Rows(package)'
  /\ \A p \in Rows(package) :
       /\ package'[p].child = package[p].child
       /\ package'[p].from = package[p].from
       /\ package'[p].expires = package[p].expires
       /\ package'[p].total = package[p].total
       /\ package'[p].usedBefore = package[p].usedBefore
       /\ \A n \in DOMAIN extension[p] :
            n \in DOMAIN extension'[p] /\ extension'[p][n] = extension[p][n]

LEMMA KeptValid ==
  ASSUME Kept, NEW p \in Rows(package), NEW day, WasValid(p, day)
  PROVE  WasValid(p, day)'
BY DEF Kept, WasValid

(* A transaction that does not move holds what it held, if the packages it *)
(* has locked are not voided and no session of them is taken.              *)
LEMMA OthersHold ==
  ASSUME TypeOK, NEW u \in Txs, Holds(u), Kept, tx'[u] = tx[u],
         Marking(u) =>
           \A p \in tx[u].locked \cap Rows(package) :
             taken(p)' \subseteq taken(p) /\ package'[p].voided = package[p].voided
  PROVE  Holds(u)'
<1> SUFFICES ASSUME Marking(u) PROVE Holds(u)'
  BY DEF Holds, Marking, Idle
<1>1. \A p, c, day : Serves(p, c, day) => Serves(p, c, day)'
  <2> SUFFICES ASSUME NEW p, NEW c, NEW day, Serves(p, c, day)
               PROVE  Serves(p, c, day)'
    OBVIOUS
  <2>1. p \in Rows(package) /\ package[p].child = c /\ WasValid(p, day)
    BY DEF Serves
  <2>2. WasValid(p, day)'
    BY <2>1, KeptValid
  <2> QED
    BY <2>1, <2>2 DEF Serves, Kept
<1>2. \A p \in tx[u].locked \cap Rows(package) : \A gone :
        Left(p, gone) => Left(p, gone)'
  <2> SUFFICES ASSUME NEW p \in tx[u].locked \cap Rows(package), NEW gone, Left(p, gone)
               PROVE  Left(p, gone)'
    OBVIOUS
  <2>1. taken(p)' \subseteq taken(p) /\ package'[p].voided = package[p].voided
    OBVIOUS
  <2>2. taken(p)' \ gone \subseteq taken(p) \ gone /\ taken(p) \subseteq Marks
    BY <2>1, RowTypes DEF taken, usages
  <2>3. /\ Cardinality(taken(p)' \ gone) <= Cardinality(taken(p) \ gone)
        /\ Cardinality(taken(p)' \ gone) \in Nat /\ Cardinality(taken(p) \ gone) \in Nat
    BY <2>2, TakenFinite
  <2>4. package[p].total \in Nat /\ package[p].usedBefore \in Int
    BY RowTypes
  <2> QED
    BY <2>1, <2>3, <2>4 DEF Left, Kept
<1>3. tx[u].seen \subseteq tx[u].locked
  BY DEF Holds
<1>4. ASSUME tx[u].step = "use", tx[u].pick # None
      PROVE  /\ Serves(tx[u].pick, childOf(u), DayOf[tx[u].lesson])'
             /\ tx[u].pick \in tx[u].seen => Left(tx[u].pick, tx[u].reversed)'
  <2>1. /\ Serves(tx[u].pick, childOf(u), DayOf[tx[u].lesson])
        /\ tx[u].pick \in tx[u].seen => Left(tx[u].pick, tx[u].reversed)
    BY <1>4 DEF Holds
  <2>2. childOf(u)' = childOf(u)
    BY DEF childOf
  <2>3. tx[u].pick \in Rows(package)
    BY <2>1 DEF Serves
  <2> QED
    BY <1>1, <1>2, <1>3, <2>1, <2>2, <2>3
<1>5. ASSUME NEW m \in Rows(tx[u].rows) PROVE Covered(u, tx[u].rows[m])'
  <2>1. Covered(u, tx[u].rows[m])
    BY DEF Holds
  <2> SUFFICES ASSUME tx[u].rows[m].package # None
               PROVE  Covered(u, tx[u].rows[m])'
    BY DEF Covered
  <2> DEFINE row == tx[u].rows[m]
  <2>2. Serves(row.package, row.child, DayOf[tx[u].lesson])
    BY <2>1 DEF Covered
  <2>3. row.package \in Rows(package)
    BY <2>2 DEF Serves
  <2> QED
    BY <1>1, <1>2, <2>1, <2>2, <2>3 DEF Covered
<1> QED
  BY <1>3, <1>4, <1>5 DEF Holds, Rows

(* Most steps are of one transaction and store nothing.                    *)
LEMMA OneHolds ==
  ASSUME Inv, PackageInv, NEW t \in Txs, NEW next,
         tx' = [tx EXCEPT ![t] = next], UNCHANGED tables,
         Holds(t)',
         \A u \in Txs \ {t} : Alone(t, u)'
  PROVE  PackageInv'
<1>1. TypeOK /\ \A u \in Txs \ {t} : tx'[u] = tx[u]
  BY DEF Inv, TypeOK
<1>2. \A p : taken(p)' = taken(p)
  BY DEF taken, usages, tables, Rows
<1>3. Kept
  BY DEF Kept, tables, Rows
<1>4. ASSUME NEW u \in Txs PROVE Holds(u)'
  <2>1. CASE u = t
    BY <2>1
  <2>2. CASE u # t
    <3>1. Holds(u) /\ tx'[u] = tx[u] /\ package' = package
      BY <1>1, <2>2 DEF PackageInv, tables
    <3> QED
      BY <1>1, <1>2, <1>3, <3>1, OthersHold
  <2> QED
    BY <2>1, <2>2
<1>5. ASSUME NEW u \in Txs, NEW v \in Txs, u # v PROVE Alone(u, v)'
  <2>1. CASE u # t /\ v # t
    <3>1. tx'[u] = tx[u] /\ tx'[v] = tx[v] /\ Alone(u, v)
      BY <1>1, <1>5, <2>1 DEF PackageInv
    <3> QED
      BY <3>1 DEF Alone, Marking, Idle
  <2>2. CASE u = t
    BY <1>5, <2>2
  <2>3. CASE v = t
    <3>1. Alone(t, u)'
      BY <1>5, <2>3
    <3> QED
      BY <2>3, <3>1 DEF Alone
  <2> QED
    BY <2>1, <2>2, <2>3
<1>6. Numbered'
  BY DEF PackageInv, Numbered, tables, Rows
<1>7. \A m \in Rows(mark)' : Stored(m)'
  BY DEF PackageInv, Stored, WasValid, tables, Rows
<1>8. \A p \in Rows(package)' : Protected(p)'
  BY <1>2 DEF PackageInv, Protected, tables, Rows
<1> QED
  BY <1>4, <1>5, <1>6, <1>7, <1>8 DEF PackageInv

(* A request that ends, or begins, holds nothing.                          *)
LEMMA NothingHeld ==
  ASSUME Inv, PackageInv, NEW t \in Txs, NEW next,
         tx' = [tx EXCEPT ![t] = next], UNCHANGED tables,
         Marking(t)' => /\ next.step = "lesson" /\ next.locked = {} /\ next.seen = {}
                        /\ Rows(next.rows) = {}
  PROVE  PackageInv'
<1>1. tx'[t] = next
  BY DEF Inv, TypeOK
<1>2. Holds(t)'
  BY <1>1 DEF Holds, Rows
<1>3. \A u \in Txs \ {t} : Alone(t, u)'
  BY <1>1 DEF Alone
<1> QED
  BY <1>2, <1>3, OneHolds

(* A step that locks no package.                                           *)
LEMMA StaysAlone ==
  ASSUME Inv, PackageInv, NEW t \in Txs, Marking(t), NEW next,
         tx' = [tx EXCEPT ![t] = next], next.locked = tx[t].locked
  PROVE  \A u \in Txs \ {t} : Alone(t, u)'
<1> SUFFICES ASSUME NEW u \in Txs \ {t} PROVE Alone(t, u)'
  OBVIOUS
<1>1. tx'[t] = next /\ tx'[u] = tx[u] /\ Alone(t, u)
  BY DEF Inv, TypeOK, PackageInv
<1> QED
  BY <1>1 DEF Alone, Marking, Idle

LEMMA BeginMarkPackages ==
  ASSUME Inv, PackageInv, NEW t \in Txs, NEW l, NEW marks, BeginMark(t, l, marks)
  PROVE  PackageInv'
<1> DEFINE next == [op |-> "mark", lesson |-> l, rule |-> rule, marks |-> marks,
                    step |-> "lesson", new |-> None, pick |-> None,
                    locked |-> {}, seen |-> {}, active |-> {}, reversed |-> {},
                    rows |-> [m \in Marks |-> None]]
<1>1. tx' = [tx EXCEPT ![t] = next] /\ UNCHANGED tables
  BY DEF BeginMark, Continue
<1>2. /\ next.step = "lesson" /\ next.locked = {} /\ next.seen = {}
      /\ Rows(next.rows) = {}
  BY DEF Rows
<1> HIDE DEF next
<1> QED
  BY <1>1, <1>2, NothingHeld

(* What the steps that write no row keep of a transaction.                 *)
LEMMA SameRows ==
  ASSUME Inv, PackageInv, NEW t \in Txs, Marking(t), NEW next,
         tx' = [tx EXCEPT ![t] = next], UNCHANGED tables,
         tx[t].locked \subseteq next.locked, next.lesson = tx[t].lesson,
         next.rows = tx[t].rows, next.reversed = tx[t].reversed
  PROVE  /\ tx'[t] = next
         /\ \A p, gone : Left(p, gone)' = Left(p, gone)
         /\ \A p, c, day : Serves(p, c, day)' = Serves(p, c, day)
         /\ (\A m \in Rows(tx[t].rows) : Covered(t, tx[t].rows[m]))'
<1>1. tx'[t] = next
  BY DEF Inv, TypeOK
<1>2. \A p : taken(p)' = taken(p)
  BY DEF taken, usages, tables, Rows
<1>3. \A p, gone : Left(p, gone)' = Left(p, gone)
  BY <1>2 DEF Left, tables
<1>4. \A p, c, day : Serves(p, c, day)' = Serves(p, c, day)
  BY DEF Serves, WasValid, tables, Rows
<1>5. (\A m \in Rows(tx[t].rows) : Covered(t, tx[t].rows[m]))'
  <2>1. \A m \in Rows(tx[t].rows) : Covered(t, tx[t].rows[m])
    BY DEF PackageInv, Holds
  <2>2. Rows(tx[t].rows)' = Rows(tx[t].rows)
    BY <1>1 DEF Rows
  <2> QED
    BY <1>1, <1>3, <1>4, <2>1, <2>2 DEF Covered
<1> QED
  BY <1>1, <1>3, <1>4, <1>5

LEMMA LockLessonPackages ==
  ASSUME Inv, PackageInv, NEW t \in Txs, LockLesson(t)
  PROVE  PackageInv'
<1> DEFINE next == [tx[t] EXCEPT !.step = "marks", !.active = ActiveMarks(tx[t].lesson)]
<1>1. Marking(t) /\ tx' = [tx EXCEPT ![t] = next] /\ UNCHANGED tables
  BY DEF LockLesson, Continue
<1>2. tx[t] \in MarkTx
  BY <1>1, MarkingType DEF Inv
<1>3. /\ next.step = "marks" /\ next.locked = tx[t].locked /\ next.seen = tx[t].seen
      /\ next.rows = tx[t].rows /\ next.reversed = tx[t].reversed
      /\ next.lesson = tx[t].lesson
  BY <1>2 DEF MarkTx
<1> HIDE DEF next
<1>4. tx'[t] = next /\ (\A m \in Rows(tx[t].rows) : Covered(t, tx[t].rows[m]))'
  BY <1>1, <1>3, SameRows
<1>5. Holds(t)'
  <2>1. tx[t].seen \subseteq tx[t].locked
    BY <1>1 DEF PackageInv, Holds
  <2> QED
    BY <1>3, <1>4, <2>1 DEF Holds
<1> QED
  BY <1>1, <1>3, <1>5, StaysAlone, OneHolds

LEMMA SkipPackages ==
  ASSUME Inv, PackageInv, NEW t \in Txs, NEW c, Skip(t, c)
  PROVE  PackageInv'
<1> DEFINE next == [tx[t] EXCEPT !.marks = Without(@, c)]
<1>1. Marking(t) /\ tx[t].step = "marks" /\ tx' = [tx EXCEPT ![t] = next]
      /\ UNCHANGED tables
  BY DEF Skip, Continue
<1>2. tx[t] \in MarkTx
  BY <1>1, MarkingType DEF Inv
<1>3. /\ next.step = "marks" /\ next.locked = tx[t].locked /\ next.seen = tx[t].seen
      /\ next.rows = tx[t].rows /\ next.reversed = tx[t].reversed
      /\ next.lesson = tx[t].lesson
  BY <1>1, <1>2 DEF MarkTx
<1> HIDE DEF next
<1>4. tx'[t] = next /\ (\A m \in Rows(tx[t].rows) : Covered(t, tx[t].rows[m]))'
  BY <1>1, <1>3, SameRows
<1>5. Holds(t)'
  <2>1. tx[t].seen \subseteq tx[t].locked
    BY <1>1 DEF PackageInv, Holds
  <2> QED
    BY <1>3, <1>4, <2>1 DEF Holds
<1> QED
  BY <1>1, <1>3, <1>5, StaysAlone, OneHolds

(* The packages that are locked now are locked by nobody else.             *)
LEMMA LockPackagesPackages ==
  ASSUME Inv, PackageInv, NEW t \in Txs, LockPackages(t)
  PROVE  PackageInv'
<1> DEFINE ps == packagesOf(childOf(t))
           next == [tx[t] EXCEPT !.step = "pick", !.locked = @ \cup ps, !.seen = ps]
<1>1. Marking(t) /\ tx' = [tx EXCEPT ![t] = next] /\ UNCHANGED tables
  BY DEF LockPackages, Continue
<1>2. tx[t] \in MarkTx
  BY <1>1, MarkingType DEF Inv
<1>3. \A p \in ps, u \in Txs \ {t} : ~locks(u, p)
  BY DEF LockPackages, MayLock
<1> HIDE DEF ps
<1>4. /\ next.step = "pick" /\ next.locked = tx[t].locked \cup ps /\ next.seen = ps
      /\ next.rows = tx[t].rows /\ next.reversed = tx[t].reversed
      /\ next.lesson = tx[t].lesson
  BY <1>2 DEF MarkTx
<1> HIDE DEF next
<1>5. tx'[t] = next /\ (\A m \in Rows(tx[t].rows) : Covered(t, tx[t].rows[m]))'
  BY <1>1, <1>4, SameRows
<1>6. Holds(t)'
  BY <1>4, <1>5 DEF Holds, Rows
<1>7. ASSUME NEW u \in Txs \ {t} PROVE Alone(t, u)'
  <2>1. tx'[u] = tx[u] /\ Alone(t, u)
    BY <1>1 DEF Inv, TypeOK, PackageInv
  <2>2. Marking(u) => ps \cap tx[u].locked = {}
    BY <1>3 DEF locks
  <2> QED
    BY <1>1, <1>4, <1>5, <2>1, <2>2 DEF Alone, Marking, Idle
<1> QED
  BY <1>1, <1>6, <1>7, OneHolds

(* An expiry that holds on the day is one of those the package had.        *)
LEMMA ValidWasValid ==
  ASSUME TypeOK, NEW p \in Rows(package), NEW day, isValidOn(p, day)
  PROVE  WasValid(p, day)
<1>1. p \in Packages /\ extension[p] \in Seq(Expiries)
  BY RowTypes DEF TypeOK
<1>2. CASE extension[p] = <<>>
  BY <1>2 DEF isValidOn, effectiveExpiry, WasValid
<1>3. CASE extension[p] # <<>>
  <2> DEFINE e == extension[p]
  <2>1. e \in Seq(Expiries) /\ e # <<>>
    BY <1>1, <1>3
  <2> HIDE DEF e
  <2>2. Len(e) \in DOMAIN e /\ e[Len(e)] \in Expiries
    BY <2>1
  <2>3. day <= e[Len(e)]
    BY <1>3, <2>2, NoneAssumption DEF isValidOn, effectiveExpiry, e
  <2> QED
    BY <2>2, <2>3 DEF isValidOn, WasValid, e
<1> QED
  BY <1>2, <1>3

LEMMA PickPackages ==
  ASSUME Inv, PackageInv, NEW t \in Txs, Pick(t)
  PROVE  PackageInv'
<1> DEFINE gone == tx[t].reversed
           day == DayOf[tx[t].lesson]
           p == pickPackage(childOf(t), day, gone)
           next == [tx[t] EXCEPT !.pick = p, !.step = "use"]
<1>1. Marking(t) /\ tx' = [tx EXCEPT ![t] = next] /\ UNCHANGED tables /\ TypeOK
  BY DEF Pick, Continue, Inv
<1>2. tx[t] \in MarkTx
  BY <1>1, MarkingType DEF Inv
<1>3. ASSUME p # None PROVE Serves(p, childOf(t), day) /\ Left(p, gone)
  <2> DEFINE c == childOf(t)
  <2>1. p \in usable(c, day, gone)
    BY <1>1, <1>3, PickedPackage
  <2> HIDE DEF p, gone, day, c
  <2>2. /\ p \in Rows(package) /\ package[p].child = c
        /\ isValidOn(p, day) /\ packageRemaining(p, gone) > 0
    BY <2>1 DEF usable, packagesOf
  <2>3. WasValid(p, day)
    BY <1>1, <2>2, ValidWasValid
  <2>4. taken(p) \ gone \subseteq usages(p, gone) /\ usages(p, gone) \subseteq Marks
    BY <1>1, RowTypes DEF taken, usages
  <2>5. /\ Cardinality(taken(p) \ gone) <= Cardinality(usages(p, gone))
        /\ Cardinality(taken(p) \ gone) \in Nat /\ Cardinality(usages(p, gone)) \in Nat
    BY <1>1, <2>4, TakenFinite
  <2>6. package[p].total \in Nat /\ package[p].usedBefore \in Int
    BY <1>1, <2>2, RowTypes
  <2> QED
    BY <2>2, <2>3, <2>5, <2>6 DEF Serves, Left, isValidOn, packageRemaining, c
<1> HIDE DEF p
<1>4. /\ next.step = "use" /\ next.locked = tx[t].locked /\ next.seen = tx[t].seen
      /\ next.rows = tx[t].rows /\ next.reversed = tx[t].reversed
      /\ next.lesson = tx[t].lesson /\ next.pick = p /\ next.new = tx[t].new
  BY <1>2 DEF MarkTx
<1> HIDE DEF next
<1>5. /\ tx'[t] = next /\ (\A m \in Rows(tx[t].rows) : Covered(t, tx[t].rows[m]))'
      /\ \A q, g : Left(q, g)' = Left(q, g)
      /\ \A q, c, d : Serves(q, c, d)' = Serves(q, c, d)
  BY <1>1, <1>4, SameRows
<1>6. Holds(t)'
  <2>1. tx[t].seen \subseteq tx[t].locked
    BY <1>1 DEF PackageInv, Holds
  <2>2. childOf(t)' = childOf(t)
    BY <1>4, <1>5 DEF childOf
  <2>3. (tx'[t].step = "use" /\ tx'[t].pick # None) =>
          /\ Serves(tx[t].pick, childOf(t), DayOf[tx[t].lesson])'
          /\ Left(tx[t].pick, tx[t].reversed)'
    BY <1>3, <1>4, <1>5, <2>2
  <2> QED
    BY <1>4, <1>5, <2>1, <2>3 DEF Holds, Rows
<1> QED
  BY <1>1, <1>4, <1>6, StaysAlone, OneHolds

(* A new row takes nothing yet, and the marks it reverses leave no less.   *)
LEMMA MarkPackages ==
  ASSUME Inv, PackageInv, NEW t \in Txs, NEW c \in Children, NEW m \in Marks,
         Mark(t, c, m)
  PROVE  PackageInv'
<1> DEFINE status == tx[t].marks[c]
           row == [lesson |-> tx[t].lesson, child |-> c, status |-> status,
                   voided |-> FALSE, usage |-> "none", package |-> None,
                   charge |-> "none", late |-> FALSE]
           new == IF shouldConsume(tx[t].rule, status) THEN m ELSE None
           step == IF shouldConsume(tx[t].rule, status) THEN "packages" ELSE "marks"
           gone == tx[t].reversed \cup existing(t, c)
           next == [tx[t] EXCEPT !.marks = Without(@, c), !.reversed = gone,
                                 !.rows[m] = row, !.new = new, !.step = step]
<1>1. /\ Marking(t) /\ tx' = [tx EXCEPT ![t] = next] /\ UNCHANGED tables
      /\ Fresh(m) /\ TypeOK
  BY DEF Mark, Continue, Inv
<1>2. /\ tx[t] \in MarkTx /\ tx[t].rows \in [Marks -> MarkRow \cup {None}]
      /\ tx[t].rows[m] = None
  BY <1>1, MarkingType DEF MarkTx, Fresh
<1>3. row.package = None
  OBVIOUS
<1>4. step # "use" /\ tx[t].reversed \subseteq gone
  OBVIOUS
<1> HIDE DEF row, new, step, gone
<1>5. /\ next.step = step /\ next.locked = tx[t].locked /\ next.seen = tx[t].seen
      /\ next.rows = [tx[t].rows EXCEPT ![m] = row] /\ next.reversed = gone
      /\ next.lesson = tx[t].lesson
  BY <1>2 DEF MarkTx
<1> HIDE DEF next
<1>6. tx'[t] = next
  BY <1>1 DEF TypeOK
<1>7. \A p : taken(p)' = taken(p)
  BY <1>1 DEF taken, usages, tables, Rows
<1>8. \A p, q, d : Serves(p, q, d)' = Serves(p, q, d)
  BY <1>1 DEF Serves, WasValid, tables, Rows
<1>9. \A p \in Rows(package) : Left(p, tx[t].reversed) => Left(p, tx[t].reversed)'
  <2> SUFFICES ASSUME NEW p \in Rows(package), Left(p, tx[t].reversed)
               PROVE  Left(p, tx[t].reversed)'
    OBVIOUS
  <2>1. taken(p) \ gone \subseteq taken(p) \ tx[t].reversed /\ taken(p) \subseteq Marks
    BY <1>1, <1>4, RowTypes DEF taken, usages
  <2>2. /\ Cardinality(taken(p) \ gone) <= Cardinality(taken(p) \ tx[t].reversed)
        /\ Cardinality(taken(p) \ gone) \in Nat
        /\ Cardinality(taken(p) \ tx[t].reversed) \in Nat
    BY <1>1, <2>1, TakenFinite
  <2>3. package[p].total \in Nat /\ package[p].usedBefore \in Int
    BY <1>1, RowTypes
  <2>4. (taken(p) \ tx[t].reversed)' = taken(p) \ gone
    BY <1>5, <1>6, <1>7
  <2>5. Cardinality(taken(p) \ gone) < package[p].total - package[p].usedBefore
    <3>1. Cardinality(taken(p) \ tx[t].reversed) < package[p].total - package[p].usedBefore
      BY DEF Left
    <3> QED
      BY <2>2, <2>3, <3>1
  <2> QED
    BY <1>1, <2>4, <2>5 DEF Left, tables
<1>10. (\A n \in Rows(tx[t].rows) : Covered(t, tx[t].rows[n]))'
  <2> SUFFICES ASSUME NEW n \in Rows(next.rows)
               PROVE  Covered(t, tx[t].rows[n])'
    BY <1>6 DEF Rows
  <2>1. CASE n = m
    BY <1>2, <1>3, <1>5, <1>6, <2>1 DEF Covered
  <2>2. CASE n # m
    <3>1. tx'[t].rows[n] = tx[t].rows[n] /\ n \in Rows(tx[t].rows)
      BY <1>2, <1>5, <1>6, <2>2 DEF Rows
    <3>2. Covered(t, tx[t].rows[n])
      BY <1>1, <3>1 DEF PackageInv, Holds
    <3> SUFFICES ASSUME tx[t].rows[n].package # None
                 PROVE  Covered(t, tx[t].rows[n])'
      BY <3>1 DEF Covered
    <3>3. tx[t].rows[n].package \in Rows(package)
      BY <3>2 DEF Covered, Serves
    <3> QED
      BY <1>5, <1>6, <1>8, <1>9, <3>1, <3>2, <3>3 DEF Covered
  <2> QED
    BY <2>1, <2>2
<1>11. Holds(t)'
  <2>1. tx[t].seen \subseteq tx[t].locked
    BY <1>1 DEF PackageInv, Holds
  <2> QED
    BY <1>4, <1>5, <1>6, <1>10, <2>1 DEF Holds
<1> QED
  BY <1>1, <1>5, <1>11, StaysAlone, OneHolds

(* The session that was picked is written to the row, which is covered if  *)
(* the package was locked before it was read.                              *)
LEMMA UsePackages ==
  ASSUME Inv, PackageInv, NEW t \in Txs, Use(t)
  PROVE  PackageInv'
<1> DEFINE p == tx[t].pick
           m == tx[t].new
           old == tx[t].rows[m]
           row == Charged(old, p, tx[t].seen)
           next == [tx[t] EXCEPT !.rows[m] = row, !.new = None, !.pick = None,
                                 !.seen = {}, !.step = "marks"]
<1>1. /\ Marking(t) /\ tx[t].step = "use" /\ Consuming(t)
      /\ tx' = [tx EXCEPT ![t] = next] /\ UNCHANGED tables /\ TypeOK
  BY DEF Use, Continue, Consuming, Inv
<1>2. tx[t] \in MarkTx /\ Sound(t) /\ Holds(t)
  BY <1>1, MarkingType DEF Inv, PackageInv
<1>3. /\ m \in Marks /\ p \in Packages \cup {None}
      /\ tx[t].rows \in [Marks -> MarkRow \cup {None}]
      /\ old \in MarkRow
  BY <1>1, <1>2 DEF MarkTx, Sound
<1>4. /\ row.package = p /\ row.child = old.child
      /\ row.late <=> (p # None /\ p \notin tx[t].seen)
  BY <1>3 DEF Charged, MarkRow
<1>5. old.child = childOf(t)
  BY DEF childOf
<1> HIDE DEF row, old
<1>6. /\ next.rows = [tx[t].rows EXCEPT ![m] = row]
      /\ next.step = "marks" /\ next.seen = {} /\ next.locked = tx[t].locked
      /\ next.reversed = tx[t].reversed /\ next.lesson = tx[t].lesson
  BY <1>2, <1>3 DEF MarkTx
<1> HIDE DEF next
<1>7. tx'[t] = next
  BY <1>1 DEF TypeOK
<1>8. \A q, c, d : Serves(q, c, d)' = Serves(q, c, d)
  BY <1>1 DEF Serves, WasValid, tables, Rows
<1>9. \A q, g : Left(q, g)' = Left(q, g)
  <2>1. \A q : taken(q)' = taken(q)
    BY <1>1 DEF taken, usages, tables, Rows
  <2> QED
    BY <1>1, <2>1 DEF Left, tables
<1>10. p # None =>
         /\ Serves(p, old.child, DayOf[tx[t].lesson])
         /\ ~row.late => p \in tx[t].locked /\ Left(p, tx[t].reversed)
  BY <1>1, <1>2, <1>4, <1>5 DEF Holds
<1>11. (\A n \in Rows(tx[t].rows) : Covered(t, tx[t].rows[n]))'
  <2> SUFFICES ASSUME NEW n \in Rows(next.rows)
               PROVE  Covered(t, tx[t].rows[n])'
    BY <1>7 DEF Rows
  <2>1. CASE n = m
    <3>1. tx'[t].rows[n] = row
      BY <1>3, <1>6, <1>7, <2>1
    <3> HIDE DEF p
    <3> QED
      BY <1>4, <1>6, <1>7, <1>8, <1>9, <1>10, <3>1 DEF Covered
  <2>2. CASE n # m
    <3>1. tx'[t].rows[n] = tx[t].rows[n] /\ n \in Rows(tx[t].rows)
      BY <1>3, <1>6, <1>7, <2>2 DEF Rows
    <3>2. Covered(t, tx[t].rows[n])
      BY <1>1, <1>2, <3>1 DEF Holds
    <3> QED
      BY <1>6, <1>7, <1>8, <1>9, <3>1, <3>2 DEF Covered
  <2> QED
    BY <2>1, <2>2
<1>12. Holds(t)'
  BY <1>6, <1>7, <1>11 DEF Holds
<1> QED
  BY <1>1, <1>6, <1>12, StaysAlone, OneHolds

LEMMA EndPackages ==
  ASSUME Inv, PackageInv, NEW t \in Txs,
         Fail(t) \/ \E p \in Packages, day \in Expiries : BeginExtend(t, p, day)
  PROVE  PackageInv'
<1>1. CASE Fail(t)
  <2>1. tx' = [tx EXCEPT ![t] = None] /\ UNCHANGED tables
    BY <1>1 DEF Fail, End
  <2>2. ~Marking(t)'
    BY <2>1 DEF Marking, Idle, Inv, TypeOK
  <2> QED
    BY <2>1, <2>2, NothingHeld
<1>2. ASSUME NEW p \in Packages, NEW day \in Expiries, BeginExtend(t, p, day)
      PROVE  PackageInv'
  <2> DEFINE next == [op |-> "extend", package |-> p, expiry |-> day]
  <2>1. tx' = [tx EXCEPT ![t] = next] /\ UNCHANGED tables
    BY <1>2 DEF BeginExtend, Continue
  <2>2. ~Marking(t)'
    BY <2>1 DEF Marking, Inv, TypeOK
  <2> HIDE DEF next
  <2> QED
    BY <2>1, <2>2, NothingHeld
<1> QED
  BY <1>1, <1>2

(* Steps that take no session, and void no package of which one is taken   *)
(* or that is locked.                                                      *)
LEMMA SameUsages ==
  ASSUME Inv, TypeOK', PackageInv, Kept, Numbered',
         Rows(mark)' = Rows(mark),
         \A m \in Rows(mark) :
           /\ mark'[m].lesson = mark[m].lesson /\ mark'[m].usage = mark[m].usage
           /\ mark'[m].package = mark[m].package /\ mark'[m].late = mark[m].late,
         \A t \in Txs : tx'[t] = tx[t] \/ tx'[t] = None,
         \A p \in Rows(package) :
           \/ package'[p].voided = package[p].voided
           \/ taken(p) = {} /\ \A t \in Txs : ~locks(t, p)
  PROVE  PackageInv'
<1>1. TypeOK
  BY DEF Inv
<1>2. \A p : taken(p)' = taken(p)
  BY DEF taken, usages
<1>3. ASSUME NEW t \in Txs PROVE Holds(t)'
  <2>1. CASE tx'[t] = None
    BY <2>1 DEF Holds, Marking, Idle
  <2>2. CASE tx'[t] = tx[t]
    <3>1. Holds(t)
      BY DEF PackageInv
    <3>2. Marking(t) =>
            \A p \in tx[t].locked \cap Rows(package) :
              taken(p)' \subseteq taken(p) /\ package'[p].voided = package[p].voided
      BY <1>2 DEF locks
    <3> QED
      BY <1>1, <2>2, <3>1, <3>2, OthersHold
  <2> QED
    BY <2>1, <2>2
<1>4. ASSUME NEW t \in Txs, NEW u \in Txs, t # u PROVE Alone(t, u)'
  <2>1. Alone(t, u)
    BY <1>4 DEF PackageInv
  <2> QED
    BY <2>1 DEF Alone, Marking, Idle
<1>5. ASSUME NEW m \in Rows(mark)' PROVE Stored(m)'
  <2>1. m \in Rows(mark) /\ Stored(m)
    BY DEF PackageInv
  <2> SUFFICES ASSUME mark[m].usage = "active", mark[m].package # None
               PROVE  Stored(m)'
    BY <2>1 DEF Stored
  <2>2. mark[m].package \in Rows(package) /\ WasValid(mark[m].package, DayOf[mark[m].lesson])
    BY <2>1 DEF Stored
  <2>3. \A p \in Rows(package) : \A day : WasValid(p, day) => WasValid(p, day)'
    BY KeptValid
  <2> QED
    BY <2>1, <2>2, <2>3 DEF Stored, Kept
<1>6. ASSUME NEW p \in Rows(package)' PROVE Protected(p)'
  <2>1. CASE p \in Rows(package)
    <3>1. Protected(p)
      BY <2>1 DEF PackageInv
    <3> QED
      BY <1>2, <2>1, <3>1 DEF Protected, Kept
  <2>2. CASE p \notin Rows(package)
    <3>1. p # None
      BY NoneAssumption DEF TypeOK, Rows
    <3>2. taken(p) = {}
      BY <2>2, <3>1 DEF PackageInv, Stored, taken, usages
    <3> QED
      BY <1>2, <2>2, <3>2 DEF Protected
  <2> QED
    BY <2>1, <2>2
<1> QED
  BY <1>3, <1>4, <1>5, <1>6 DEF PackageInv

LEMMA ExtendPackages ==
  ASSUME Inv, TypeOK', PackageInv, NEW t \in Txs, Extend(t)
  PROVE  PackageInv'
<1> DEFINE p == tx[t].package
           next == Append(extension[p], tx[t].expiry)
<1>1. /\ tx[t] # None /\ tx[t].op = "extend"
      /\ extension' = [extension EXCEPT ![p] = next]
      /\ tx' = [tx EXCEPT ![t] = None]
      /\ UNCHANGED <<rule, package, mark>>
  BY DEF Extend, End, Idle
<1>2. tx[t] \in ExtendTx
  BY <1>1 DEF Inv, TypeOK, MarkTx
<1>3. p \in Packages /\ extension[p] \in Seq(Expiries) /\ tx[t].expiry \in Expiries
  BY <1>2 DEF ExtendTx, Inv, TypeOK
<1>4. \A n \in DOMAIN extension[p] : n \in DOMAIN next /\ next[n] = extension[p][n]
  <2> DEFINE e == extension[p]
             d == tx[t].expiry
  <2>1. e \in Seq(Expiries) /\ d \in Expiries
    BY <1>3
  <2> HIDE DEF e, d
  <2>2. \A n \in DOMAIN e : n \in DOMAIN Append(e, d) /\ Append(e, d)[n] = e[n]
    BY <2>1
  <2> QED
    BY <2>2 DEF e, d
<1> HIDE DEF next
<1>5. Kept
  <2>1. \A q \in Packages : extension'[q] = IF q = p THEN next ELSE extension[q]
    BY <1>1 DEF Inv, TypeOK
  <2>2. Rows(package) \subseteq Packages /\ Rows(package)' = Rows(package)
    BY <1>1 DEF Rows, Inv, TypeOK
  <2> QED
    BY <1>1, <1>4, <2>1, <2>2 DEF Kept
<1>6. Numbered'
  BY <1>1 DEF PackageInv, Numbered, Rows
<1>7. \A u \in Txs : tx'[u] = tx[u] \/ tx'[u] = None
  BY <1>1 DEF Inv, TypeOK
<1>8. Rows(mark)' = Rows(mark) /\ Rows(package)' = Rows(package)
  BY <1>1 DEF Rows
<1> QED
  BY <1>1, <1>5, <1>6, <1>7, <1>8, SameUsages

(* The number of a package that is bought is not in use.                   *)
LEMMA PurchasePackages ==
  ASSUME Inv, TypeOK', PackageInv,
         NEW row \in PackageRows \cup OldPackageRows, Purchase(row)
  PROVE  PackageInv'
<1>1. PICK n \in Nat : Rows(package) = 1..n
  BY DEF PackageInv, Numbered
<1>2. NextPackage = n + 1
  <2>1. Cardinality(1..n) = n
    BY FS_Interval
  <2> QED
    BY <1>1, <2>1 DEF NextPackage
<1>3. /\ n + 1 \in Packages /\ package' = [package EXCEPT ![n + 1] = row]
      /\ UNCHANGED <<rule, extension, mark, tx>>
  BY <1>2 DEF Purchase
<1>4. row \in PackageRow /\ row # None
  BY InputAssumption, NoneAssumption
<1>5. /\ Rows(package)' = Rows(package) \cup {n + 1}
      /\ package'[n + 1] = row
      /\ \A p \in Rows(package) : package'[p] = package[p]
  BY <1>1, <1>3, <1>4 DEF Inv, TypeOK, Rows
<1>6. Numbered'
  <2>1. Rows(package)' = 1..(n + 1) /\ n + 1 \in Nat
    BY <1>1, <1>5
  <2> QED
    BY <2>1 DEF Numbered
<1>7. Kept
  BY <1>3, <1>5 DEF Kept
<1>8. Rows(mark)' = Rows(mark)
  BY <1>3 DEF Rows
<1> QED
  BY <1>3, <1>5, <1>6, <1>7, <1>8, SameUsages

LEMMA VoidPackages ==
  ASSUME Inv, TypeOK', PackageInv, NEW p \in Packages,
         VoidPackage(p) \/ VoidPackageCharge(p)
  PROVE  PackageInv'
<1>1. package[p] \in PackageRow /\ p \in Rows(package)
  BY DEF Inv, TypeOK, VoidPackage, VoidPackageCharge, Rows
<1>2. PICK row \in PackageRow :
        /\ package' = [package EXCEPT ![p] = row]
        /\ row.child = package[p].child /\ row.from = package[p].from
        /\ row.expires = package[p].expires /\ row.total = package[p].total
        /\ row.usedBefore = package[p].usedBefore
        /\ \/ row.voided = package[p].voided
           \/ usages(p, {}) = {} /\ \A t \in Txs : ~locks(t, p)
  <2>1. CASE VoidPackage(p)
    <3> DEFINE row == [package[p] EXCEPT !.voided = TRUE,
                                         !.charge = IF @ = "open" THEN "voided" ELSE @]
    <3>1. row \in PackageRow
      BY <1>1 DEF PackageRow, ChargeState
    <3>2. /\ row.child = package[p].child /\ row.from = package[p].from
          /\ row.expires = package[p].expires /\ row.total = package[p].total
          /\ row.usedBefore = package[p].usedBefore
      BY <1>1 DEF PackageRow
    <3>3. package' = [package EXCEPT ![p] = row]
      BY <2>1 DEF VoidPackage
    <3>4. usages(p, {}) = {} /\ \A t \in Txs : ~locks(t, p)
      BY <2>1 DEF VoidPackage
    <3> HIDE DEF row
    <3> QED
      BY <3>1, <3>2, <3>3, <3>4
  <2>2. CASE VoidPackageCharge(p)
    <3> DEFINE row == [package[p] EXCEPT !.charge = "voided"]
    <3>1. row \in PackageRow
      BY <1>1 DEF PackageRow, ChargeState
    <3>2. /\ row.child = package[p].child /\ row.from = package[p].from
          /\ row.expires = package[p].expires /\ row.total = package[p].total
          /\ row.usedBefore = package[p].usedBefore /\ row.voided = package[p].voided
      BY <1>1 DEF PackageRow
    <3>3. package' = [package EXCEPT ![p] = row]
      BY <2>2 DEF VoidPackageCharge
    <3> HIDE DEF row
    <3> QED
      BY <3>1, <3>2, <3>3
  <2> QED
    BY <2>1, <2>2
<1>3. UNCHANGED <<rule, extension, mark, tx>>
  BY DEF VoidPackage, VoidPackageCharge
<1>4. row # None
  BY NoneAssumption
<1>5. /\ Rows(package)' = Rows(package) /\ package'[p] = row
      /\ \A q \in Rows(package) : q # p => package'[q] = package[q]
  BY <1>1, <1>2, <1>4 DEF Inv, TypeOK, Rows
<1>6. Kept
  <2>1. extension' = extension
    BY <1>3
  <2> QED
    BY <1>2, <1>5, <2>1 DEF Kept
<1>7. Numbered'
  BY <1>5 DEF PackageInv, Numbered
<1>8. Rows(mark)' = Rows(mark) /\ mark' = mark /\ tx' = tx
  BY <1>3 DEF Rows
<1>9. \A q \in Rows(package) :
        \/ package'[q].voided = package[q].voided
        \/ taken(q) = {} /\ \A t \in Txs : ~locks(t, q)
  BY <1>2, <1>5 DEF taken
<1> QED
  BY <1>5, <1>6, <1>7, <1>8, <1>9, SameUsages

(* The marks of single lessons, and the rule, are of no package.           *)
LEMMA NoPackages ==
  ASSUME Inv, TypeOK', PackageInv,
         \/ \E m \in Marks : VoidSingle(m)
         \/ \E r \in Rules : ChangeRule(r)
         \/ UNCHANGED vars
  PROVE  PackageInv'
<1>1. UNCHANGED <<package, extension, tx>>
  BY DEF VoidSingle, ChangeRule, vars
<1>2. Kept /\ Numbered' /\ Rows(package)' = Rows(package)
  BY <1>1 DEF Kept, PackageInv, Numbered, Rows
<1>3. /\ Rows(mark)' = Rows(mark)
      /\ \A n \in Rows(mark) :
           /\ mark'[n].lesson = mark[n].lesson /\ mark'[n].usage = mark[n].usage
           /\ mark'[n].package = mark[n].package /\ mark'[n].late = mark[n].late
  <2>1. ASSUME NEW m \in Marks, VoidSingle(m) PROVE <1>3
    <3> DEFINE row == [mark[m] EXCEPT !.charge = "voided"]
    <3>1. mark[m] \in MarkRow /\ mark[m] # None /\ mark' = [mark EXCEPT ![m] = row]
      BY <2>1 DEF Inv, TypeOK, VoidSingle
    <3>2. /\ row \in MarkRow
          /\ row.lesson = mark[m].lesson /\ row.usage = mark[m].usage
          /\ row.package = mark[m].package /\ row.late = mark[m].late
      BY <3>1 DEF MarkRow, ChargeState
    <3>3. row # None
      BY <3>2, NoneAssumption
    <3> HIDE DEF row
    <3> QED
      BY <3>1, <3>2, <3>3 DEF Inv, TypeOK, Rows
  <2>2. CASE mark' = mark
    BY <2>2 DEF Rows
  <2> QED
    BY <2>1, <2>2 DEF ChangeRule, vars
<1>4. /\ \A t \in Txs : tx'[t] = tx[t]
      /\ \A p \in Rows(package) : package'[p].voided = package[p].voided
  BY <1>1
<1> QED
  BY <1>2, <1>3, <1>4, SameUsages

(* What a commit does to the marks, as far as packages are concerned.      *)
LEMMA CommitWrites ==
  ASSUME Inv, NEW t \in Txs, Commit(t)
  PROVE  /\ Marking(t) /\ tx' = [tx EXCEPT ![t] = None]
         /\ UNCHANGED <<rule, package, extension>>
         /\ Rows(mark)' = Rows(mark) \cup Rows(tx[t].rows)
         /\ Rows(mark) \cap Rows(tx[t].rows) = {}
         /\ \A n \in Rows(tx[t].rows) :
              /\ n \in Marks /\ mark'[n] = tx[t].rows[n]
              /\ tx[t].rows[n].lesson = tx[t].lesson
              /\ \A o \in Rows(tx[t].rows) :
                   tx[t].rows[n].child = tx[t].rows[o].child => n = o
         /\ \A n \in Rows(mark) :
              /\ mark'[n].lesson = mark[n].lesson
              /\ mark'[n].package = mark[n].package /\ mark'[n].late = mark[n].late
              /\ mark'[n].usage = "active" <=>
                   (mark[n].usage = "active" /\ n \notin tx[t].reversed)
<1>1. /\ Marking(t) /\ tx[t].step = "marks"
      /\ tx' = [tx EXCEPT ![t] = None]
      /\ UNCHANGED <<rule, package, extension>>
  BY DEF Commit, End
<1>2. /\ tx[t] \in MarkTx /\ Sound(t) /\ tx[t].rows \in [Marks -> MarkRow \cup {None}]
  BY <1>1, MarkingType DEF Inv, MarkTx
<1> DEFINE new == Rows(tx[t].rows)
           gone == tx[t].reversed
<1>3. mark' = [n \in Marks |-> IF n \in new THEN tx[t].rows[n]
                              ELSE IF n \in gone THEN Reversed(mark[n])
                              ELSE mark[n]]
  BY <1>2 DEF Commit, Rows
<1>4. /\ new \subseteq Marks /\ Rows(mark) \subseteq Marks
      /\ new \cap Rows(mark) = {} /\ gone \subseteq Rows(mark)
      /\ \A n \in Rows(mark) : mark[n] \in MarkRow
  BY <1>1, <1>2 DEF Sound, ActiveMarks, Rows, Inv, TypeOK
<1>5. \A n \in new : /\ tx[t].rows[n] # None
                     /\ tx[t].rows[n].lesson = tx[t].lesson
                     /\ \A o \in new : tx[t].rows[n].child = tx[t].rows[o].child => n = o
  BY <1>1, <1>2 DEF Sound, Rows
<1>6. \A n \in Rows(mark) :
        LET r == Reversed(mark[n])
        IN  /\ r # None /\ r.usage # "active" /\ r.lesson = mark[n].lesson
            /\ r.package = mark[n].package /\ r.late = mark[n].late
  <2> SUFFICES ASSUME NEW n \in Rows(mark)
               PROVE  LET r == Reversed(mark[n])
                      IN  /\ r # None /\ r.usage # "active" /\ r.lesson = mark[n].lesson
                          /\ r.package = mark[n].package /\ r.late = mark[n].late
    OBVIOUS
  <2>1. mark[n] \in MarkRow /\ Reversed(mark[n]) \in MarkRow
    BY <1>4 DEF Reversed, MarkRow, ChargeState
  <2> QED
    BY <2>1, NoneAssumption DEF Reversed, MarkRow
<1> HIDE DEF new, gone
<1>7. /\ \A n \in new : mark'[n] = tx[t].rows[n]
      /\ \A n \in gone : mark'[n] = Reversed(mark[n])
      /\ \A n \in Rows(mark) \ gone : mark'[n] = mark[n]
      /\ \A n \in Marks \ (new \cup Rows(mark)) : mark'[n] = mark[n]
      /\ DOMAIN mark' = Marks
  BY <1>3, <1>4
<1>8. Rows(mark)' = Rows(mark) \cup new
  <2>1. Rows(mark)' = {n \in Marks : mark'[n] # None}
    BY <1>7 DEF Rows
  <2>2. \A n \in Marks : n \in Rows(mark) <=> mark[n] # None
    BY DEF Rows, Inv, TypeOK
  <2> QED
    BY <1>4, <1>5, <1>6, <1>7, <2>1, <2>2
<1>9. \A n \in Rows(mark) :
        /\ mark'[n].lesson = mark[n].lesson
        /\ mark'[n].package = mark[n].package /\ mark'[n].late = mark[n].late
        /\ mark'[n].usage = "active" <=> (mark[n].usage = "active" /\ n \notin gone)
  BY <1>4, <1>6, <1>7
<1> QED
  BY <1>1, <1>4, <1>5, <1>7, <1>8, <1>9 DEF new, gone

(* A commit takes at most one session more of a package than it gives      *)
(* back, and then the package was locked and had it left.                  *)
LEMMA CommitPackages ==
  ASSUME Inv, TypeOK', PackageInv, NEW t \in Txs, Commit(t)
  PROVE  PackageInv'
<1> DEFINE new == Rows(tx[t].rows)
           gone == tx[t].reversed
           add(p) == {m \in new : /\ tx[t].rows[m].package = p
                                  /\ tx[t].rows[m].usage = "active"
                                  /\ ~tx[t].rows[m].late}
<1>1. /\ Marking(t) /\ tx' = [tx EXCEPT ![t] = None]
      /\ UNCHANGED <<rule, package, extension>>
      /\ Rows(mark)' = Rows(mark) \cup new
      /\ Rows(mark) \cap new = {}
      /\ \A n \in new :
           /\ n \in Marks /\ mark'[n] = tx[t].rows[n]
           /\ tx[t].rows[n].lesson = tx[t].lesson
           /\ \A o \in new : tx[t].rows[n].child = tx[t].rows[o].child => n = o
      /\ \A n \in Rows(mark) :
           /\ mark'[n].lesson = mark[n].lesson
           /\ mark'[n].package = mark[n].package /\ mark'[n].late = mark[n].late
           /\ mark'[n].usage = "active" <=> (mark[n].usage = "active" /\ n \notin gone)
  BY CommitWrites
<1>2. TypeOK /\ \A n \in new : Covered(t, tx[t].rows[n])
  BY <1>1 DEF Inv, PackageInv, Holds
<1> HIDE DEF new, gone
<1>3. Kept /\ Numbered' /\ Rows(package)' = Rows(package)
  BY <1>1 DEF Kept, PackageInv, Numbered, Rows
<1>4. \A p : taken(p)' = (taken(p) \ gone) \cup add(p)
  BY <1>1 DEF taken, usages
<1>5. \A p \in Packages : add(p) # {} =>
        /\ p \in tx[t].locked /\ Left(p, gone)
        /\ \E m \in Marks : add(p) = {m}
  <2> SUFFICES ASSUME NEW p \in Packages, NEW m \in add(p)
               PROVE  /\ p \in tx[t].locked /\ Left(p, gone)
                      /\ \E n \in Marks : add(p) = {n}
    OBVIOUS
  <2>1. p # None
    BY NoneAssumption
  <2>2. \A n \in add(p) : /\ p \in tx[t].locked /\ Left(p, gone)
                          /\ package[p].child = tx[t].rows[n].child
    BY <1>2, <2>1 DEF Covered, Serves, gone
  <2>3. \A n \in add(p) : n = m
    BY <1>1, <2>2
  <2>4. add(p) = {m} /\ m \in Marks
    BY <1>1, <2>3
  <2> QED
    BY <2>2, <2>4
<1> HIDE DEF add
<1>6. ASSUME NEW u \in Txs PROVE Holds(u)'
  <2>1. CASE u = t
    BY <1>1, <2>1 DEF Holds, Marking, Idle, TypeOK
  <2>2. CASE u # t
    <3>1. tx'[u] = tx[u] /\ Holds(u) /\ Alone(t, u)
      BY <1>1, <1>2, <2>2 DEF TypeOK, PackageInv
    <3>2. Marking(u) =>
            \A p \in tx[u].locked \cap Rows(package) :
              taken(p)' \subseteq taken(p) /\ package'[p].voided = package[p].voided
      <4> SUFFICES ASSUME Marking(u), NEW p \in tx[u].locked \cap Rows(package)
                   PROVE  taken(p)' \subseteq taken(p)
        BY <1>1
      <4>1. p \in Packages /\ p \notin tx[t].locked
        BY <1>1, <1>2, <3>1, RowTypes DEF Alone
      <4>2. add(p) = {}
        BY <1>5, <4>1
      <4> QED
        BY <1>4, <4>2
    <3> QED
      BY <1>2, <1>3, <3>1, <3>2, OthersHold
  <2> QED
    BY <2>1, <2>2
<1>7. ASSUME NEW u \in Txs, NEW v \in Txs, u # v PROVE Alone(u, v)'
  <2>1. Alone(u, v) /\ \A w \in Txs : tx'[w] = tx[w] \/ tx'[w] = None
    BY <1>1, <1>2, <1>7 DEF PackageInv, TypeOK
  <2> QED
    BY <2>1 DEF Alone, Marking, Idle
<1>8. ASSUME NEW m \in Rows(mark)' PROVE Stored(m)'
  <2>1. \A p \in Rows(package) : \A day : WasValid(p, day) => WasValid(p, day)'
    BY <1>3, KeptValid
  <2>2. CASE m \in Rows(mark)
    <3>1. Stored(m)
      BY <2>2 DEF PackageInv
    <3> QED
      BY <1>1, <1>3, <2>1, <2>2, <3>1 DEF Stored
  <2>3. CASE m \in new
    <3>1. /\ mark'[m] = tx[t].rows[m] /\ Covered(t, tx[t].rows[m])
          /\ tx[t].rows[m].lesson = tx[t].lesson
      BY <1>1, <1>2, <2>3
    <3> QED
      BY <1>3, <2>1, <3>1 DEF Covered, Serves, Stored
  <2> QED
    BY <1>1, <2>2, <2>3
<1>9. ASSUME NEW p \in Rows(package)' PROVE Protected(p)'
  <2>1. /\ p \in Packages /\ Protected(p) /\ package'[p] = package[p]
        /\ package[p].total \in Nat /\ package[p].usedBefore \in Int
    BY <1>1, <1>2, <1>3, RowTypes DEF PackageInv
  <2>2. taken(p) \subseteq Marks /\ taken(p) \ gone \subseteq taken(p)
    BY <1>2, RowTypes DEF taken, usages
  <2>3. /\ IsFiniteSet(taken(p) \ gone)
        /\ Cardinality(taken(p) \ gone) \in Nat /\ Cardinality(taken(p)) \in Nat
        /\ Cardinality(taken(p) \ gone) <= Cardinality(taken(p))
    BY <1>2, <2>2, TakenFinite
  <2>4. CASE add(p) = {}
    <3>1. taken(p)' = taken(p) \ gone
      BY <1>4, <2>4
    <3> QED
      BY <2>1, <2>3, <3>1 DEF Protected
  <2>5. CASE add(p) # {}
    <3>1. PICK m \in Marks : add(p) = {m}
      BY <1>5, <2>1, <2>5
    <3>2. taken(p)' = (taken(p) \ gone) \cup {m} /\ Left(p, gone)
      BY <1>4, <1>5, <2>1, <2>5, <3>1
    <3>3. Cardinality((taken(p) \ gone) \cup {m})
            = IF m \in taken(p) \ gone THEN Cardinality(taken(p) \ gone)
                                       ELSE Cardinality(taken(p) \ gone) + 1
      BY <2>3, FS_AddElement
    <3>4. Cardinality(taken(p)') <= package[p].total - package[p].usedBefore
      BY <2>1, <2>3, <3>2, <3>3 DEF Left
    <3> QED
      BY <2>1, <3>2, <3>4 DEF Protected, Left
  <2> QED
    BY <2>4, <2>5
<1> QED
  BY <1>3, <1>6, <1>7, <1>8, <1>9 DEF PackageInv

LEMMA NextPackages ==
  ASSUME Inv, PackageInv, [Next]_vars
  PROVE  PackageInv'
<1>1. TypeOK'
  BY NextInv DEF Inv
<1>2. ASSUME NEW t \in Txs, NEW l \in Lessons, NEW cs \in SUBSET Children,
             NEW marks \in [cs -> Statuses], BeginMark(t, l, marks)
      PROVE  PackageInv'
  BY <1>2, BeginMarkPackages
<1>3. ASSUME NEW t \in Txs, MarkStep(t) PROVE PackageInv'
  <2>1. CASE LockLesson(t)
    BY <2>1, LockLessonPackages
  <2>2. ASSUME NEW c \in Children, Skip(t, c) PROVE PackageInv'
    BY <2>2, SkipPackages
  <2>3. ASSUME NEW c \in Children, NEW m \in Marks, Mark(t, c, m) PROVE PackageInv'
    BY <2>3, MarkPackages
  <2>4. CASE LockPackages(t)
    BY <2>4, LockPackagesPackages
  <2>5. CASE Pick(t)
    BY <2>5, PickPackages
  <2>6. CASE Use(t)
    BY <2>6, UsePackages
  <2>7. CASE Commit(t)
    BY <1>1, <2>7, CommitPackages
  <2> QED
    BY <1>3, <2>1, <2>2, <2>3, <2>4, <2>5, <2>6, <2>7 DEF MarkStep
<1>4. ASSUME NEW t \in Txs, Extend(t) PROVE PackageInv'
  BY <1>1, <1>4, ExtendPackages
<1>5. ASSUME NEW t \in Txs,
             Fail(t) \/ \E p \in Packages, day \in Expiries : BeginExtend(t, p, day)
      PROVE  PackageInv'
  BY <1>5, EndPackages
<1>6. CASE Acquire
  <2>1. PICK row \in PackageRows \cup OldPackageRows : Purchase(row)
    BY <1>6 DEF Acquire
  <2> QED
    BY <1>1, <2>1, PurchasePackages
<1>7. ASSUME NEW p \in Packages, VoidPackage(p) \/ VoidPackageCharge(p)
      PROVE  PackageInv'
  BY <1>1, <1>7, VoidPackages
<1>8. CASE \/ \E m \in Marks : VoidSingle(m)
           \/ \E r \in Rules : ChangeRule(r)
           \/ UNCHANGED vars
  BY <1>1, <1>8, NoPackages
<1> QED
  BY <1>2, <1>3, <1>4, <1>5, <1>6, <1>7, <1>8 DEF Next

LEMMA SpecPackages == Spec => [](Inv /\ PackageInv)
<1>1. Init => Inv /\ PackageInv
  BY InitInv, InitPackages
<1>2. Inv /\ PackageInv /\ [Next]_vars => (Inv /\ PackageInv)'
  BY NextInv, NextPackages
<1> QED
  BY <1>1, <1>2, PTL DEF Spec

(* No session is taken of a package outside its time: the package picked   *)
(* in a transaction was valid then, and what it was sold with and extended *)
(* by is not taken back.                                                   *)
THEOREM SessionsWithinPackages == Spec => []UsedWhileValid
<1>1. Inv /\ PackageInv => UsedWhileValid
  <2> SUFFICES ASSUME Inv, PackageInv, NEW p \in Rows(package), NEW m \in usages(p, {})
               PROVE  WasValid(p, DayOf[mark[m].lesson])
    BY DEF UsedWhileValid, WasValid
  <2>1. p # None
    BY RowTypes DEF Inv
  <2> QED
    BY <2>1 DEF PackageInv, Stored, usages
<1> QED
  BY <1>1, SpecPackages, PTL

(* The locks do what they are for, for any number of requests, lessons,    *)
(* children and packages: a package whose marks had all locked it is not   *)
(* overdrawn, and not voided while a mark uses it.                         *)
THEOREM PackagesProtected == Spec => []LocksProtectPackages
<1>1. Inv /\ PackageInv => LocksProtectPackages
  <2> SUFFICES ASSUME Inv, PackageInv, NEW p \in Rows(package),
                      \A m \in usages(p, {}) : ~mark[m].late
               PROVE  /\ usages(p, {}) # {} => packageRemaining(p, {}) >= 0
                      /\ package[p].voided => usages(p, {}) = {}
    BY DEF LocksProtectPackages
  <2>1. usages(p, {}) = taken(p) /\ Protected(p) /\ TypeOK
    BY DEF taken, PackageInv, Inv
  <2>2. /\ Cardinality(taken(p)) \in Nat
        /\ package[p].total \in Nat /\ package[p].usedBefore \in Int
    <3>1. taken(p) \subseteq Marks
      BY <2>1, RowTypes DEF taken, usages
    <3> QED
      BY <2>1, <3>1, RowTypes, TakenFinite
  <2> QED
    BY <2>1, <2>2 DEF Protected, packageRemaining
<1> QED
  BY <1>1, SpecPackages, PTL

=============================================================================
