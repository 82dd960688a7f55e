------------------------------- MODULE Salary -------------------------------
(***************************************************************************)
(* What a teacher has earned in a month (payroll/payroll-calc.ts): pure    *)
(* operators over the versions of the salary terms, the lessons given, the *)
(* absences and the extra hours, and over the lines of the payrolls        *)
(* already approved.                                                       *)
(*                                                                         *)
(* A day is a number and a month a run of MonthLength days; Working gives  *)
(* the working days of each calendar (dayInfo of the attendance register). *)
(* The code divides Decimals of twenty digits; here quotients are exact    *)
(* until round, which rounds half up to a unit of money.                   *)
(***************************************************************************)
EXTENDS Nothing, Integers, FiniteSets, FiniteSetsExt

CONSTANTS
  MonthLength,   \* days in a month
  Working,       \* the working days of each calendar kind
  HourUnits      \* the units of time in an hour

firstDayOfMonth(m) == (m - 1) * MonthLength + 1
lastDayOfMonth(m) == m * MonthLength
monthOf(day) == (day - 1) \div MonthLength + 1

maxDay(a, b) == IF a >= b THEN a ELSE b
minDay(a, b) == IF b = None \/ a <= b THEN a ELSE b

round(num, den) == (2 * num + den) \div (2 * den)

-----------------------------------------------------------------------------
(* The versions of the terms                                               *)

workingDays(from, to, kind) == Cardinality((from..to) \cap Working[kind])

inForce(t, day) == t.from <= day /\ (t.to = None \/ day <= t.to)

termsOn(terms, day) ==
  LET on == {t \in terms : inForce(t, day)}
  IN IF on = {} THEN None ELSE CHOOSE t \in on : \A u \in on : t.from <= u.from

(* The rate of the lesson's subject or class group, else of its type.      *)
rateFor(t, lesson) ==
  LET sameType == {r \in t.rates : r.type = lesson.type}
      specific == {r \in sameType : r.key # None /\ r.key = lesson.key}
      general  == {r \in sameType : r.key = None}
      used     == IF specific # {} THEN specific ELSE general
  IN IF used = {} THEN None ELSE (CHOOSE r \in used : TRUE).amount

monthSegments(m, terms) ==
  {t \in terms : /\ t.from <= lastDayOfMonth(m)
                 /\ t.to = None \/ t.to >= firstDayOfMonth(m)}

segmentFrom(m, t) == maxDay(firstDayOfMonth(m), t.from)
segmentTo(m, t) == minDay(lastDayOfMonth(m), t.to)
segmentDays(m, t) == workingDays(segmentFrom(m, t), segmentTo(m, t), t.kind)
norm(m, t) == workingDays(firstDayOfMonth(m), lastDayOfMonth(m), t.kind)

-----------------------------------------------------------------------------
(* The base pay and the allowances                                         *)

absenceDays(m, terms, absences) ==
  UNION {{d \in segmentFrom(m, t)..segmentTo(m, t) \cap Working[t.kind] :
            \E a \in absences : a.start <= d /\ d <= a.end} :
         t \in monthSegments(m, terms)}

sheetDays(m, terms, override, absences) ==
  LET unpaid  == Cardinality(absenceDays(m, terms,
                   {a \in absences : ~a.paid /\ ~a.voided}))
      default == MapThenSumSet(LAMBDA t : segmentDays(m, t),
                               monthSegments(m, terms))
  IN [default |-> default, unpaid |-> unpaid,
      worked |-> IF override # None THEN override
                 ELSE maxDay(0, default - unpaid)]

(* What the amounts of segments come to, each by its days of its           *)
(* calendar's month, all by the days worked of the days due.               *)
share(m, amount, days) ==
  LET due     == {t \in DOMAIN amount : norm(m, t) > 0}
      whole   == FoldSet(LAMBDA t, p : norm(m, t) * p, 1, due)
      part(t) == amount[t] * segmentDays(m, t) * (whole \div norm(m, t))
  IN IF days.default = 0 THEN 0
     ELSE round(MapThenSumSet(part, due) * days.worked,
                whole * days.default)

basePay(m, terms, days) ==
  share(m, [t \in monthSegments(m, terms) |-> t.monthlyRate], days)

allowances(m, terms, days) ==
  MapThenSumSet(LAMBDA t : share(m, [u \in {t} |-> u.allowance], days),
                monthSegments(m, terms))

(* One line for all the hours: a record's own rate, else the rate of its   *)
(* day, else the rate at the end of the month.                             *)
extraHours(m, terms, records) ==
  LET segments  == monthSegments(m, terms)
      last      == CHOOSE t \in segments : \A u \in segments : u.from <= t.from
      closing   == IF segments = {} THEN None
                   ELSE termsOn(terms, segmentTo(m, last)).extraHourRate
      dated(r)  == LET t == termsOn(terms, r.day)
                   IN IF t = None THEN None ELSE t.extraHourRate
      rate(r)   == IF r.rate # None THEN r.rate
                   ELSE IF r.day # None THEN dated(r) ELSE closing
      amount(r) == IF rate(r) = None THEN 0 ELSE r.hours * rate(r)
  IN round(MapThenSumSet(amount, {r \in records : ~r.voided}), HourUnits)

-----------------------------------------------------------------------------
(* The lessons of the month, and what is still owed, or was paid too much, *)
(* for the lessons of earlier months.  A line is [lesson, amount].         *)

priceOf(terms, lesson) ==
  LET rate == rateFor(termsOn(terms, lesson.day), lesson)
  IN IF rate = None THEN 0 ELSE rate

counted(lessons, terms) == {l \in lessons : termsOn(terms, l.day) # None}

lessonLines(lessons, terms) ==
  {[lesson |-> l, amount |-> priceOf(terms, l)] : l \in counted(lessons, terms)}

ofLesson(lines, l) == {b \in lines : b.lesson = l}

net(lines, l) == MapThenSumSet(LAMBDA b : b.amount, ofLesson(lines, l))

(* What the lesson was worth when it was booked: the largest of its lines. *)
original(lines, l) == Max({b.amount : b \in ofLesson(lines, l)} \cup {0})

correctionLines(past, booked, terms) ==
  LET standing   == counted(past, terms)
      known      == {b.lesson : b \in booked}
      unbooked   == standing \ known
      diff(l)    == (IF l \in standing THEN original(booked, l) ELSE 0)
                      - net(booked, l)
  IN lessonLines(unbooked, terms)
       \cup {[lesson |-> l, amount |-> diff(l)] : l \in {k \in known : diff(k) # 0}}

=============================================================================
