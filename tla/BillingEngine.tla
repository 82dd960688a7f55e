--------------------------- MODULE BillingEngine ---------------------------
(***************************************************************************)
(* The billing engine (src/src/tariffs/billing-engine.ts): which periods   *)
(* an enrollment has and what each costs.  Pure functions of an enrollment,*)
(* the price history of its tariff and its adjustments.                    *)
(*                                                                         *)
(* Days are numbered from 1; a calendar is the sequence of the lengths of  *)
(* its months.  Money is counted in its smallest unit, so that rounding to *)
(* two decimals is rounding to an integer.                                 *)
(***************************************************************************)
EXTENDS Nothing, Integers, Sequences, FiniteSets, FiniteSetsExt

CONSTANT
  MonthDays     \* the length of each month; the last one only ends periods

ASSUME CalendarAssumption ==
  /\ MonthDays \in Seq(Nat \ {0})
  /\ Len(MonthDays) > 1

BillingMode == {"anniversary", "calendar_prorated", "calendar_full"}

AdjustmentType ==
  {"custom_price", "discount_percent", "discount_amount", "pause"}

-----------------------------------------------------------------------------
(* dates.ts                                                                *)

CalendarMonths == DOMAIN MonthDays

monthStart[m \in 1..Len(MonthDays) + 1] ==
  IF m = 1 THEN 1 ELSE monthStart[m-1] + MonthDays[m-1]

Days == 1..monthStart[Len(MonthDays)] - 1
LastDay == monthStart[Len(MonthDays) + 1] - 1

monthOf(day) ==
  CHOOSE m \in CalendarMonths : day \in monthStart[m]..monthStart[m+1]-1

minDay(a, b) == IF a <= b THEN a ELSE b
maxDay(a, b) == IF a >= b THEN a ELSE b

monthDay(m, d) == monthStart[m] + minDay(d, MonthDays[m]) - 1

dayCount(from, to) == to - from + 1

(* Whether two ranges of days meet; an end of None is open.                *)
overlaps(aStart, aEnd, bStart, bEnd) ==
  /\ bEnd = None \/ aStart <= bEnd
  /\ aEnd = None \/ bStart <= aEnd

-----------------------------------------------------------------------------
(* Adjustments and prices.                                                 *)

isActiveOn(a, day) ==
  /\ ~a.voided
  /\ a.from <= day
  /\ a.to = None \/ a.to >= day

(* The value of the first active adjustment of a type, in the order they   *)
(* were created, or None: adjustments is a sequence.                       *)
findActive(adjustments, type, day) ==
  LET found == {n \in DOMAIN adjustments :
                  adjustments[n].type = type /\ isActiveOn(adjustments[n], day)}
  IN  IF found = {} THEN None ELSE adjustments[Min(found)].value

(* prices maps a day to the price that takes effect on it, or to None.     *)
priceOn(prices, day) ==
  LET known == {d \in DOMAIN prices : prices[d] # None /\ d <= day}
  IN  IF known = {} THEN None ELSE prices[Max(known)]

-----------------------------------------------------------------------------
(* Periods.                                                                *)

(* Mutant of naturalPeriod: a period ends on the day the next one starts.  *)
naturalPeriodToNext(e, k) ==
  LET m == monthOf(e.start) + k
      anchor == e.start - monthStart[monthOf(e.start)] + 1
  IN  IF e.mode = "anniversary"
        THEN [start |-> monthDay(m, anchor), end |-> monthDay(m + 1, anchor)]
        ELSE [start |-> IF k = 0 THEN e.start ELSE monthStart[m],
              end |-> monthStart[m + 1]]

(* The k-th period of an enrollment, before its end date cuts it.          *)
naturalPeriod(e, k) ==
  LET m == monthOf(e.start) + k
      anchor == e.start - monthStart[monthOf(e.start)] + 1
  IN  IF e.mode = "anniversary"
        THEN [start |-> monthDay(m, anchor), end |-> monthDay(m + 1, anchor) - 1]
        ELSE [start |-> IF k = 0 THEN e.start ELSE monthStart[m],
              end |-> monthStart[m + 1] - 1]

(* Mutant of fullDays: the days of the period, not of its month.           *)
fullDaysOfPeriod(e, k) ==
  dayCount(naturalPeriod(e, k).start, naturalPeriod(e, k).end)

fullDays(e, k) ==
  IF e.mode = "anniversary"
    THEN dayCount(naturalPeriod(e, k).start, naturalPeriod(e, k).end)
    ELSE MonthDays[monthOf(e.start) + k]

(* Mutant of periodEnd: a period runs on past the end of the enrollment.   *)
periodEndUncut(e, k) == naturalPeriod(e, k).end

periodEnd(e, k) ==
  IF e.end # None /\ e.end < naturalPeriod(e, k).end
    THEN e.end ELSE naturalPeriod(e, k).end

(* The periods that start by a day and not after the end of the enrollment.*)
periodsUntil(e, until) ==
  {[start |-> naturalPeriod(e, k).start, end |-> periodEnd(e, k),
    fullDays |-> fullDays(e, k), isFirst |-> k = 0] :
     k \in {j \in 0..(Len(MonthDays) - 1 - monthOf(e.start)) :
              /\ naturalPeriod(e, j).start <= until
              /\ e.end = None \/ naturalPeriod(e, j).start <= e.end}}

-----------------------------------------------------------------------------
(* The bill of a period.                                                   *)

(* Days of a pause within a period; two pauses that meet count twice.      *)
pausedDays(adjustments, p) ==
  Cardinality({x \in (DOMAIN adjustments) \X (p.start..p.end) :
                 /\ adjustments[x[1]].type = "pause"
                 /\ isActiveOn(adjustments[x[1]], x[2])})

(* Under calendar_full the first period is charged from the first of its   *)
(* month.                                                                  *)
windowStart(e, p) ==
  IF p.isFirst /\ e.mode = "calendar_full"
    THEN monthStart[monthOf(p.start)] ELSE p.start

(* Mutant of billableDays: the pauses are forgotten.                       *)
allDays(e, adjustments, p) == dayCount(windowStart(e, p), p.end)

billableDays(e, adjustments, p) ==
  maxDay(dayCount(windowStart(e, p), p.end) - pausedDays(adjustments, p), 0)

(* Mutant of discounted: no floor.                                         *)
discountedBelowZero(base, percent, fixed) ==
  (IF percent = None THEN base * 100 ELSE base * (100 - percent))
    - (IF fixed = None THEN 0 ELSE fixed * 100)

(* A hundred times the price after discounts: percent first, floor at 0.   *)
discounted(base, percent, fixed) ==
  LET afterPercent == IF percent = None THEN base * 100 ELSE base * (100 - percent)
      afterFixed == IF fixed = None THEN afterPercent ELSE afterPercent - fixed * 100
  IN  maxDay(afterFixed, 0)

(* n / d, rounded half up.                                                 *)
roundHalfUp(n, d) == (2 * n + d) \div (2 * d)

(* The bill of a period, or None when it has no price.                     *)
computePeriod(e, prices, adjustments, p) ==
  LET custom == findActive(adjustments, "custom_price", p.start)
      base == IF custom # None THEN custom ELSE priceOn(prices, p.start)
      price == discounted(base,
                 findActive(adjustments, "discount_percent", p.start),
                 findActive(adjustments, "discount_amount", p.start))
  IN  IF base = None
        THEN None
        ELSE [start |-> p.start, end |-> p.end,
              amount |-> roundHalfUp(price * billableDays(e, adjustments, p),
                                     100 * p.fullDays)]

(* The bills that are due, the periods without a price left out.           *)
dueBills(e, prices, adjustments, billedStarts, until) ==
  {computePeriod(e, prices, adjustments, p) :
     p \in {q \in periodsUntil(e, until) : q.start \notin billedStarts}} \ {None}

(* The period that starts on a day, if there is one.                       *)
findPeriod(e, start) == {p \in periodsUntil(e, start) : p.start = start}

=============================================================================
