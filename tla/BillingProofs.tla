--------------------------- MODULE BillingProofs ---------------------------
(***************************************************************************)
(* What holds of monthly billing for any calendar, any number of           *)
(* enrollments and any number of workers, and of online payments for any   *)
(* number of requests and invoices, any times to live and any number of    *)
(* answers in flight.                                                      *)
(***************************************************************************)
EXTENDS Billing, OnlinePayments, NaturalsInduction, WellFoundedInduction,
        FiniteSetTheorems, SequenceTheorems, TLAPS

-----------------------------------------------------------------------------
(* Least and greatest elements                                             *)

(* Every set of natural numbers that is not empty has a least element.     *)
LEMMA LeastNatural ==
  ASSUME NEW S \in SUBSET Nat, S # {}
  PROVE  \E n \in S : \A m \in S : n <= m
<1> DEFINE R == OpToRel(<, Nat)
<1>1. \A m, n \in Nat : m < n => <<m, n>> \in R
  BY DEF OpToRel
<1>2. IsWellFoundedOn(R, Nat)
  BY NatLessThanWellFounded
<1> HIDE DEF R
<1>3. PICK n \in S : \A m \in S : <<m, n>> \notin R
  BY <1>2, WFMin
<1>4. \A m \in S : ~(m < n)
  BY <1>1, <1>3
<1> QED
  BY <1>4

LEMMA MinIn ==
  ASSUME NEW S \in SUBSET Nat, S # {}
  PROVE  Min(S) \in S
BY LeastNatural DEF Min

LEMMA MaxIn ==
  ASSUME NEW n \in Nat, NEW S \in SUBSET (0..n), S # {}
  PROVE  Max(S) \in S
<1> DEFINE T == {n - x : x \in S}
<1>1. \A x \in S : x \in Int /\ n - x \in Nat
  OBVIOUS
<1>2. PICK t \in T : \A u \in T : t <= u
  <2>1. T \in SUBSET Nat /\ T # {}
    BY <1>1
  <2> QED  BY <2>1, LeastNatural
<1>3. PICK x \in S : t = n - x
  OBVIOUS
<1>4. \A y \in S : y <= x
  <2> TAKE y \in S
  <2>1. t <= n - y
    BY <1>2
  <2> QED  BY <2>1, <1>1, <1>3
<1> QED  BY <1>4 DEF Max

-----------------------------------------------------------------------------
(* The calendar                                                            *)

L == Len(MonthDays)

LEMMA Calendar ==
  /\ L \in Nat /\ L > 1 /\ CalendarMonths = 1..L
  /\ \A m \in CalendarMonths : MonthDays[m] \in Nat \ {0}
BY CalendarAssumption DEF L, CalendarMonths

LEMMA CalendarLength == L \in Nat /\ L > 1 /\ CalendarMonths = 1..L
BY Calendar

(* What monthStart is: a function that satisfies its equation exists, as   *)
(* there is one for every shorter calendar.                                *)
LEMMA StartsExist ==
  \E g : g = [m \in 1..L + 1 |-> IF m = 1 THEN 1 ELSE g[m-1] + MonthDays[m-1]]
<1> DEFINE Fits(g, n) ==
             g = [m \in 1..n |-> IF m = 1 THEN 1 ELSE g[m-1] + MonthDays[m-1]]
           bad == {n \in Nat \ {0} : ~ \E g : Fits(g, n)}
<1>1. SUFFICES ASSUME bad # {} PROVE FALSE
  <2>1. L + 1 \in Nat \ {0}
    BY Calendar
  <2>2. \E g : Fits(g, L + 1)
    BY <1>1, <2>1
  <2> QED  BY <2>2
<1>2. PICK n \in bad : \A k \in bad : n <= k
  BY <1>1, LeastNatural, bad \in SUBSET Nat
<1>3. CASE n = 1
  <2>1. Fits([m \in 1..1 |-> 1], 1)
    OBVIOUS
  <2> QED  BY <2>1, <1>2, <1>3
<1>4. CASE n # 1
  <2>1. n - 1 \in Nat \ {0} /\ n - 1 \notin bad
    BY <1>2, <1>4
  <2>2. PICK g : Fits(g, n - 1)
    BY <2>1
  <2> DEFINE h == [m \in 1..n |-> IF m = 1 THEN 1 ELSE g[m-1] + MonthDays[m-1]]
  <2>3. \A m \in 1..n - 1 : h[m] = g[m]
    BY <2>2, n \in Nat
  <2>4. \A m \in 1..n : m # 1 => m - 1 \in 1..n - 1
    BY n \in Nat
  <2>5. Fits(h, n)
    <3>1. \A m \in 1..n : h[m] = IF m = 1 THEN 1 ELSE h[m-1] + MonthDays[m-1]
      BY <2>3, <2>4
    <3> QED  BY <3>1
  <2> QED  BY <2>5, <1>2
<1> QED  BY <1>3, <1>4

LEMMA Starts ==
  /\ monthStart = [m \in 1..L + 1 |-> monthStart[m]]
  /\ monthStart[1] = 1
  /\ \A m \in CalendarMonths : monthStart[m + 1] = monthStart[m] + MonthDays[m]
<1>1. monthStart =
        [m \in 1..L + 1 |-> IF m = 1 THEN 1 ELSE monthStart[m-1] + MonthDays[m-1]]
  BY StartsExist DEF monthStart, L
<1>2. \A m \in CalendarMonths : m + 1 \in 1..L + 1 /\ m + 1 # 1 /\ (m + 1) - 1 = m
  BY Calendar
<1>3. 1 \in 1..L + 1
  BY Calendar
<1> HIDE DEF monthStart
<1>4. \A m \in 1..L + 1 :
        monthStart[m] = IF m = 1 THEN 1 ELSE monthStart[m-1] + MonthDays[m-1]
  BY <1>1
<1>5. \A m \in CalendarMonths : monthStart[m + 1] = monthStart[m] + MonthDays[m]
  BY <1>2, <1>4
<1>6. monthStart = [m \in 1..L + 1 |-> monthStart[m]]
  BY <1>1
<1> QED  BY <1>3, <1>4, <1>5, <1>6

(* Months start one after the other.                                       *)
LEMMA StartsGrow ==
  /\ \A m \in 1..L + 1 : monthStart[m] \in Nat \ {0}
  /\ \A j, m \in 1..L + 1 : j < m => monthStart[j] < monthStart[m]
<1> DEFINE Good(m) == /\ monthStart[m] \in Nat \ {0}
                      /\ \A j \in 1..m - 1 : monthStart[j] < monthStart[m]
           bad == {m \in 1..L + 1 : ~Good(m)}
<1>1. ASSUME bad # {} PROVE FALSE
  <2>1. bad \in SUBSET Nat
    OBVIOUS
  <2>2. PICK m \in bad : \A k \in bad : m <= k
    BY <1>1, <2>1, LeastNatural
  <2>3. CASE m = 1
    BY <2>2, <2>3, Starts
  <2>4. CASE m # 1
    <3>1. /\ m - 1 \in CalendarMonths /\ m - 1 \in 1..L + 1 /\ (m - 1) + 1 = m
          /\ ~(m <= m - 1)
      BY <2>2, <2>4, Calendar
    <3>2. Good(m - 1)
      BY <2>2, <3>1
    <3>3. monthStart[m] = monthStart[m - 1] + MonthDays[m - 1]
      BY <3>1, Starts
    <3>4. MonthDays[m - 1] \in Nat \ {0}
      BY <3>1, Calendar
    <3>5. monthStart[m] \in Nat \ {0} /\ monthStart[m - 1] < monthStart[m]
      BY <3>2, <3>3, <3>4
    <3>6. ASSUME NEW j \in 1..m - 1 PROVE monthStart[j] < monthStart[m]
      <4>1. CASE j = m - 1
        BY <4>1, <3>5
      <4>2. CASE j # m - 1
        <5>1. j \in 1..(m - 1) - 1 /\ j \in 1..L + 1 /\ j < m
          BY <4>2, <2>2, Calendar
        <5>2. monthStart[j] < monthStart[m - 1]
          BY <5>1, <3>2
        <5>3. j \notin bad
          BY <5>1, <2>2, Calendar
        <5>4. monthStart[j] \in Nat
          BY <5>1, <5>3
        <5> QED  BY <5>2, <5>4, <3>2, <3>5
      <4> QED  BY <4>1, <4>2
    <3> QED  BY <2>2, <3>5, <3>6
  <2> QED  BY <2>3, <2>4
<1>2. \A m \in 1..L + 1 : Good(m)
  BY <1>1
<1>3. \A j, m \in 1..L + 1 : j < m => j \in 1..m - 1
  BY Calendar
<1> QED  BY <1>2, <1>3

(* Every day is in a month, and there is a month after it.                 *)
LEMMA MonthOfDay ==
  ASSUME NEW d \in Days
  PROVE  /\ monthOf(d) \in 1..L - 1
         /\ monthStart[monthOf(d)] <= d /\ d < monthStart[monthOf(d) + 1]
<1> DEFINE later == {m \in 1..L : d < monthStart[m]}
<1>1. d \in Nat /\ 1 <= d /\ d < monthStart[L]
  BY Calendar, StartsGrow DEF Days, L
<1>2. later \in SUBSET Nat /\ later # {}
  BY <1>1, Calendar
<1>3. PICK m \in later : \A k \in later : m <= k
  BY <1>2, LeastNatural
<1>4. m # 1
  BY <1>1, <1>3, Starts
<1>5. m - 1 \in 1..L - 1 /\ (m - 1) + 1 = m
  BY <1>3, <1>4, Calendar
<1>6. m - 1 \notin later /\ m - 1 \in 1..L
  BY <1>3, <1>5, Calendar
<1>7. monthStart[m - 1] <= d /\ d < monthStart[(m - 1) + 1]
  BY <1>1, <1>3, <1>5, <1>6, StartsGrow, Calendar
<1>8. \A k \in CalendarMonths : k + 1 \in 1..L + 1 /\ monthStart[k + 1] \in Nat
                         /\ monthStart[k] \in Nat
  BY StartsGrow, Calendar
<1>9. m - 1 \in CalendarMonths
  BY <1>5, Calendar
<1>10. d \in monthStart[m - 1]..monthStart[(m - 1) + 1] - 1
  BY <1>1, <1>7, <1>8, <1>9
<1>11. /\ monthOf(d) \in CalendarMonths
       /\ d \in monthStart[monthOf(d)]..monthStart[monthOf(d) + 1] - 1
  BY <1>9, <1>10 DEF monthOf
<1>12. monthStart[monthOf(d)] <= d /\ d < monthStart[monthOf(d) + 1]
  BY <1>1, <1>8, <1>11
<1>13. monthOf(d) # L
  <2>1. L \in CalendarMonths
    BY Calendar
  <2> QED  BY <1>1, <1>8, <1>12, <2>1
<1> QED  BY <1>11, <1>12, <1>13, Calendar

-----------------------------------------------------------------------------
(* Periods                                                                 *)

Input == [start: Days, end: Days \cup {None}, mode: BillingMode]

numbers(e) == 0..(L - 1 - monthOf(e.start))

LEMMA MonthDays1 ==
  ASSUME NEW m \in 1..L, NEW d \in Nat \ {0}
  PROVE  /\ monthDay(m, d) \in Nat
         /\ monthStart[m] <= monthDay(m, d) /\ monthDay(m, d) < monthStart[m + 1]
<1>1. /\ m \in CalendarMonths /\ MonthDays[m] \in Nat \ {0}
      /\ m \in 1..L + 1 /\ monthStart[m] \in Nat
  BY Calendar, StartsGrow
<1>2. monthStart[m + 1] = monthStart[m] + MonthDays[m]
  BY <1>1, Starts
<1>3. minDay(d, MonthDays[m]) \in Nat \ {0} /\ minDay(d, MonthDays[m]) <= MonthDays[m]
  BY <1>1 DEF minDay
<1> QED  BY <1>1, <1>2, <1>3 DEF monthDay

LEMMA NaturalPeriods ==
  ASSUME NEW e \in Input, NEW k \in numbers(e)
  PROVE  /\ monthOf(e.start) + k \in 1..L - 1
         /\ naturalPeriod(e, k).start \in Days
         /\ naturalPeriod(e, k).end \in 1..LastDay
         /\ naturalPeriod(e, k).start <= naturalPeriod(e, k).end
<1> DEFINE first == monthOf(e.start)
           m == first + k
           anchor == e.start - monthStart[first] + 1
<1>1. /\ e.start \in Days /\ first \in 1..L - 1
      /\ monthStart[first] <= e.start /\ e.start < monthStart[first + 1]
  BY MonthOfDay DEF Input
<1>2. /\ m \in 1..L - 1 /\ m \in 1..L /\ m + 1 \in 1..L /\ first \in 1..L
      /\ m + 1 \in 1..L + 1 /\ L \in 1..L + 1 /\ L + 1 \in 1..L + 1
      /\ first \in 1..L + 1 /\ first + 1 \in 1..L + 1 /\ (m + 1) + 1 \in 1..L + 1
      /\ k = 0 => m = first
  BY <1>1, Calendar DEF numbers
<1> HIDE DEF first, m
<1>3. /\ monthStart[first] \in Nat \ {0} /\ monthStart[m] \in Nat \ {0}
      /\ monthStart[m + 1] \in Nat \ {0} /\ monthStart[L] \in Nat \ {0}
      /\ monthStart[L + 1] \in Nat \ {0} /\ monthStart[(m + 1) + 1] \in Nat \ {0}
  BY <1>2, StartsGrow
<1>4. e.start \in Nat
  BY <1>1, <1>3 DEF Days, L
<1>5. anchor \in Nat \ {0}
  BY <1>1, <1>3, <1>4
<1>6. monthStart[m + 1] <= monthStart[L]
  <2>1. m + 1 = L \/ m + 1 < L
    BY <1>2
  <2> QED  BY <2>1, <1>2, <1>3, StartsGrow
<1>7. monthStart[(m + 1) + 1] <= monthStart[L + 1]
  <2>1. (m + 1) + 1 = L + 1 \/ (m + 1) + 1 < L + 1
    BY <1>2
  <2> QED  BY <2>1, <1>2, <1>3, StartsGrow
<1>8. monthStart[m + 1] < monthStart[L + 1]
  BY <1>2, <1>3, StartsGrow, Calendar
<1>9. CASE e.mode = "anniversary"
  <2>1. /\ naturalPeriod(e, k).start = monthDay(m, anchor)
        /\ naturalPeriod(e, k).end = monthDay(m + 1, anchor) - 1
    BY <1>9 DEF naturalPeriod, m, first
  <2> HIDE DEF anchor
  <2>2. /\ monthDay(m, anchor) \in Nat /\ monthStart[m] <= monthDay(m, anchor)
        /\ monthDay(m, anchor) < monthStart[m + 1]
    BY <1>2, <1>5, MonthDays1
  <2>3. /\ monthDay(m + 1, anchor) \in Nat
        /\ monthStart[m + 1] <= monthDay(m + 1, anchor)
        /\ monthDay(m + 1, anchor) < monthStart[(m + 1) + 1]
    BY <1>2, <1>5, MonthDays1
  <2>4. monthDay(m, anchor) \in 1..monthStart[L] - 1
    BY <2>2, <1>3, <1>6
  <2>5. monthDay(m + 1, anchor) - 1 \in 1..monthStart[L + 1] - 1
    BY <2>2, <2>3, <1>3, <1>7
  <2>6. monthDay(m, anchor) <= monthDay(m + 1, anchor) - 1
    BY <2>2, <2>3, <1>3
  <2> QED  BY <2>1, <2>4, <2>5, <2>6, <1>2 DEF Days, LastDay, L, m, first
<1>10. CASE e.mode # "anniversary"
  <2>1. /\ naturalPeriod(e, k).start = IF k = 0 THEN e.start ELSE monthStart[m]
        /\ naturalPeriod(e, k).end = monthStart[m + 1] - 1
    BY <1>10 DEF naturalPeriod, m, first
  <2>2. monthStart[m] < monthStart[m + 1]
    BY <1>2, StartsGrow
  <2>3. /\ naturalPeriod(e, k).start \in Nat \ {0}
        /\ naturalPeriod(e, k).start < monthStart[m + 1]
    BY <2>1, <2>2, <1>1, <1>2, <1>3, <1>4
  <2>4. naturalPeriod(e, k).start \in 1..monthStart[L] - 1
    BY <2>3, <1>3, <1>6
  <2>5. naturalPeriod(e, k).end \in 1..monthStart[L + 1] - 1
    BY <2>1, <2>3, <1>3, <1>8
  <2>6. naturalPeriod(e, k).start <= naturalPeriod(e, k).end
    BY <2>1, <2>3, <1>3
  <2> QED  BY <2>4, <2>5, <2>6, <1>2 DEF Days, LastDay, L, m, first
<1> QED  BY <1>9, <1>10

(* A period ends before the next ones start.                               *)
LEMMA PeriodsApart ==
  ASSUME NEW e \in Input, NEW j \in numbers(e), NEW k \in numbers(e), j < k
  PROVE  naturalPeriod(e, j).end < naturalPeriod(e, k).start
<1> DEFINE first == monthOf(e.start)
           anchor == e.start - monthStart[first] + 1
<1>1. /\ e.start \in Days /\ first \in 1..L - 1
      /\ monthStart[first] <= e.start /\ e.start < monthStart[first + 1]
  BY MonthOfDay DEF Input
<1>2. /\ first + k \in 1..L - 1 /\ first + j \in 1..L - 1
      /\ first + j \in Nat /\ first + k \in Nat
      /\ (first + j) + 1 = first + k \/ (first + j) + 1 < first + k
      /\ j \in Nat /\ k \in Nat /\ k # 0
  <2>1. first + k \in 1..L - 1 /\ first + j \in 1..L - 1
    BY NaturalPeriods
  <2>2. j \in Nat /\ k \in Nat /\ L \in Nat
    BY Calendar DEF numbers
  <2> HIDE DEF first
  <2> QED  BY <1>1, <2>1, <2>2
<1>3. PICK mj \in Nat, mk \in Nat : mj = first + j /\ mk = first + k
  BY <1>2
<1>4. /\ mj + 1 \in 1..L /\ mk \in 1..L /\ (mj + 1) + 1 \in 1..L + 1
      /\ mj + 1 \in 1..L + 1 /\ mk \in 1..L + 1 /\ first \in 1..L + 1
      /\ mj + 1 = mk \/ (mj + 1) + 1 <= mk
  BY <1>1, <1>2, <1>3, CalendarLength, SMTT(30)
<1>5. /\ monthStart[mj + 1] \in Nat /\ monthStart[mk] \in Nat
      /\ monthStart[(mj + 1) + 1] \in Nat /\ monthStart[first] \in Nat \ {0}
  BY <1>4, StartsGrow
<1>6. monthStart[mj + 1] <= monthStart[mk]
  <2>1. mj + 1 = mk \/ mj + 1 < mk
    BY <1>4
  <2> QED  BY <2>1, <1>4, <1>5, StartsGrow
<1>7. CASE e.mode # "anniversary"
  <2>1. /\ naturalPeriod(e, j).end = monthStart[mj + 1] - 1
        /\ naturalPeriod(e, k).start = monthStart[mk]
    BY <1>2, <1>3, <1>7 DEF naturalPeriod
  <2> QED  BY <2>1, <1>5, <1>6
<1>8. CASE e.mode = "anniversary"
  <2>1. /\ naturalPeriod(e, j).end = monthDay(mj + 1, anchor) - 1
        /\ naturalPeriod(e, k).start = monthDay(mk, anchor)
    BY <1>3, <1>8 DEF naturalPeriod
  <2>2. e.start \in Nat
    BY <1>1, StartsGrow, Calendar DEF Days, L
  <2>3. anchor \in Nat \ {0}
    BY <1>1, <1>5, <2>2
  <2> HIDE DEF anchor
  <2>4. /\ monthDay(mj + 1, anchor) \in Nat
        /\ monthDay(mj + 1, anchor) < monthStart[(mj + 1) + 1]
    BY <1>4, <2>3, MonthDays1
  <2>5. monthDay(mk, anchor) \in Nat /\ monthStart[mk] <= monthDay(mk, anchor)
    BY <1>4, <2>3, MonthDays1
  <2>6. CASE mj + 1 = mk
    BY <2>1, <2>4, <2>6
  <2>7. CASE (mj + 1) + 1 <= mk
    <3>1. monthStart[(mj + 1) + 1] <= monthStart[mk]
      <4>1. (mj + 1) + 1 = mk \/ (mj + 1) + 1 < mk
        BY <2>7, <1>4
      <4> QED  BY <4>1, <1>4, <1>5, StartsGrow
    <3> QED  BY <3>1, <2>1, <2>4, <2>5, <1>5
  <2> QED  BY <2>6, <2>7, <1>4
<1> QED  BY <1>7, <1>8

-----------------------------------------------------------------------------
(* Bills                                                                   *)

Period == [start: Days, end: 1..LastDay, fullDays: Nat \ {0}, isFirst: BOOLEAN]

LEMMA LastDays ==
  /\ LastDay \in Nat
  /\ \A d \in 1..LastDay : d \in Nat
  /\ \A d \in Days : d \in Nat /\ d \in 1..LastDay
<1>1. L \in 1..L + 1 /\ L + 1 \in 1..L + 1 /\ L < L + 1
  BY Calendar
<1>2. /\ monthStart[L] \in Nat \ {0} /\ monthStart[L + 1] \in Nat \ {0}
      /\ monthStart[L] < monthStart[L + 1]
  BY <1>1, StartsGrow
<1> QED  BY <1>2 DEF LastDay, Days, L

LEMMA Rows ==
  ASSUME NEW S, NEW s \in Seq(S)
  PROVE  /\ Len(s) \in Nat /\ DOMAIN s = 1..Len(s)
         /\ \A n \in DOMAIN s : s[n] \in S
OBVIOUS

(* The periods that come into question are the natural ones, cut at the    *)
(* end of the enrollment.                                                  *)
LEMMA PeriodsOf ==
  ASSUME NEW e \in Input, NEW until, NEW p \in periodsUntil(e, until)
  PROVE  /\ p \in Period
         /\ \E k \in numbers(e) : /\ p.start = naturalPeriod(e, k).start
                                  /\ p.end <= naturalPeriod(e, k).end
<1>1. PICK k \in numbers(e) :
        p = [start |-> naturalPeriod(e, k).start, end |-> periodEnd(e, k),
             fullDays |-> fullDays(e, k), isFirst |-> k = 0]
  BY DEF periodsUntil, numbers, L
<1>2. /\ monthOf(e.start) + k \in 1..L - 1
      /\ naturalPeriod(e, k).start \in Days
      /\ naturalPeriod(e, k).end \in 1..LastDay
      /\ naturalPeriod(e, k).start <= naturalPeriod(e, k).end
  BY NaturalPeriods
<1>3. periodEnd(e, k) \in 1..LastDay /\ periodEnd(e, k) <= naturalPeriod(e, k).end
  <2>1. e.end # None => e.end \in Nat /\ e.end \in 1..LastDay
    BY LastDays DEF Input
  <2>2. naturalPeriod(e, k).end \in Nat
    BY <1>2, LastDays
  <2> QED  BY <1>2, <2>1, <2>2 DEF periodEnd
<1>4. fullDays(e, k) \in Nat \ {0}
  <2>1. CASE e.mode = "anniversary"
    <3>1. naturalPeriod(e, k).start \in Int /\ naturalPeriod(e, k).end \in Int
      BY <1>2, LastDays
    <3>2. fullDays(e, k) = naturalPeriod(e, k).end - naturalPeriod(e, k).start + 1
      BY <2>1 DEF fullDays, dayCount
    <3> QED  BY <3>1, <3>2, <1>2
  <2>2. CASE e.mode # "anniversary"
    <3>1. monthOf(e.start) + k \in CalendarMonths
      BY <1>2, Calendar
    <3> QED  BY <2>2, <3>1, Calendar DEF fullDays
  <2> QED  BY <2>1, <2>2
<1>5. p \in Period
  BY <1>1, <1>2, <1>3, <1>4 DEF Period
<1>6. p.start = naturalPeriod(e, k).start /\ p.end <= naturalPeriod(e, k).end
  BY <1>1, <1>3
<1> QED  BY <1>5, <1>6

LEMMA ActiveValue ==
  ASSUME NEW list \in Seq(AdjustmentRow), NEW type, NEW day
  PROVE  findActive(list, type, day) \in Nat \cup {None}
<1> DEFINE found == {n \in DOMAIN list : list[n].type = type /\ isActiveOn(list[n], day)}
<1>1. found \in SUBSET Nat
  BY Rows
<1>2. ASSUME found # {} PROVE Min(found) \in DOMAIN list
  <2>1. Min(found) \in found
    BY <1>1, <1>2, MinIn
  <2> QED  BY <2>1
<1>3. \A n \in DOMAIN list : list[n].value \in Nat \cup {None}
  <2>1. \A row \in AdjustmentRow : row.value \in Nat \cup {None}
    BY DEF AdjustmentRow
  <2>2. \A n \in DOMAIN list : list[n] \in AdjustmentRow
    BY Rows
  <2> QED  BY <2>1, <2>2
<1>4. findActive(list, type, day) = IF found = {} THEN None ELSE list[Min(found)].value
  BY DEF findActive
<1> HIDE DEF found
<1> QED  BY <1>2, <1>3, <1>4

LEMMA PriceType ==
  ASSUME NEW prices \in [Days -> Nat \cup {None}], NEW day
  PROVE  priceOn(prices, day) \in Nat \cup {None}
<1> DEFINE known == {d \in DOMAIN prices : prices[d] # None /\ d <= day}
<1>1. known \in SUBSET (0..LastDay) /\ known \subseteq Days
  BY LastDays
<1>2. ASSUME known # {} PROVE Max(known) \in Days
  <2>1. Max(known) \in known
    BY <1>1, <1>2, LastDays, MaxIn
  <2> QED  BY <2>1, <1>1
<1>3. priceOn(prices, day) = IF known = {} THEN None ELSE prices[Max(known)]
  BY DEF priceOn
<1> HIDE DEF known
<1> QED  BY <1>2, <1>3

LEMMA PausedType ==
  ASSUME NEW list \in Seq(AdjustmentRow), NEW p \in Period
  PROVE  pausedDays(list, p) \in Nat
<1> DEFINE all == (DOMAIN list) \X (p.start..p.end)
           paused == {x \in all : /\ list[x[1]].type = "pause"
                                  /\ isActiveOn(list[x[1]], x[2])}
<1>1. DOMAIN list = 1..Len(list) /\ Len(list) \in Int
  BY Rows
<1>2. p.start \in Int /\ p.end \in Int
  BY LastDays DEF Period
<1>3. IsFiniteSet(DOMAIN list) /\ IsFiniteSet(p.start..p.end)
  BY <1>1, <1>2, FS_Interval
<1>4. IsFiniteSet(all)
  BY <1>3, FS_Product
<1>5. IsFiniteSet(paused)
  BY <1>4, FS_Subset, paused \subseteq all
<1> QED  BY <1>5, FS_CardinalityType DEF pausedDays

LEMMA Arithmetic ==
  /\ \A x, y \in Int : x * y \in Int
  /\ \A x, y \in Nat : x * y \in Nat
  /\ \A n \in Nat, d \in Nat \ {0} : roundHalfUp(n, d) \in Nat
<1>1. \A x, y \in Int : x * y \in Int
  OBVIOUS
<1>2. \A x, y \in Nat : x * y \in Nat
  OBVIOUS
<1>3. \A n \in Nat, d \in Nat \ {0} : (2 * n + d) \div (2 * d) \in Nat
  <2> TAKE n \in Nat, d \in Nat \ {0}
  <2>1. 2 * n + d \in Nat /\ 2 * d \in Nat \ {0}
    OBVIOUS
  <2>2. \A a \in Nat, b \in Nat \ {0} : a \div b \in Nat
    OBVIOUS
  <2> QED  BY <2>1, <2>2
<1> QED  BY <1>1, <1>2, <1>3 DEF roundHalfUp

LEMMA BillableType ==
  ASSUME NEW e \in Input, NEW list \in Seq(AdjustmentRow), NEW p \in Period
  PROVE  billableDays(e, list, p) \in Nat
<1>1. p.start \in Days /\ p.start \in Int /\ p.end \in Int
  BY LastDays DEF Period
<1>2. monthStart[monthOf(p.start)] \in Int
  <2>1. monthOf(p.start) \in 1..L + 1
    BY <1>1, MonthOfDay, Calendar
  <2> QED  BY <2>1, StartsGrow
<1>3. windowStart(e, p) \in Int
  BY <1>1, <1>2 DEF windowStart
<1>4. pausedDays(list, p) \in Int
  BY PausedType
<1>5. dayCount(windowStart(e, p), p.end) \in Int
  BY <1>1, <1>3 DEF dayCount
<1> QED  BY <1>4, <1>5 DEF billableDays, maxDay

LEMMA DiscountedType ==
  ASSUME NEW base \in Nat, NEW percent \in Nat \cup {None}, NEW fixed \in Nat \cup {None}
  PROVE  discounted(base, percent, fixed) \in Nat
<1> DEFINE afterPercent == IF percent = None THEN base * 100 ELSE base * (100 - percent)
           afterFixed == IF fixed = None THEN afterPercent ELSE afterPercent - fixed * 100
<1>1. afterPercent \in Int
  <2>1. percent # None => 100 - percent \in Int
    OBVIOUS
  <2> QED  BY <2>1, Arithmetic
<1> HIDE DEF afterPercent
<1>2. afterFixed \in Int
  BY <1>1
<1> HIDE DEF afterFixed
<1>3. maxDay(afterFixed, 0) \in Nat
  BY <1>2 DEF maxDay
<1> QED  BY <1>3 DEF discounted, afterFixed, afterPercent

(* What is asked for a period, if anything, is a bill for it.              *)
LEMMA BillOf ==
  ASSUME NEW e \in Input, NEW prices \in [Days -> Nat \cup {None}],
         NEW list \in Seq(AdjustmentRow), NEW p \in Period,
         computePeriod(e, prices, list, p) # None
  PROVE  /\ computePeriod(e, prices, list, p) \in Bill
         /\ computePeriod(e, prices, list, p).start = p.start
         /\ computePeriod(e, prices, list, p).end = p.end
<1> DEFINE custom == findActive(list, "custom_price", p.start)
           base == IF custom # None THEN custom ELSE priceOn(prices, p.start)
           cost == discounted(base, findActive(list, "discount_percent", p.start),
                              findActive(list, "discount_amount", p.start))
           amount == roundHalfUp(cost * billableDays(e, list, p), 100 * p.fullDays)
<1>1. /\ base # None
      /\ computePeriod(e, prices, list, p) = [start |-> p.start, end |-> p.end,
                                            amount |-> amount]
  BY DEF computePeriod
<1>2. custom \in Nat \cup {None} /\ priceOn(prices, p.start) \in Nat \cup {None}
  BY ActiveValue, PriceType
<1>3. base \in Nat
  BY <1>1, <1>2
<1>4. cost \in Nat
  <2> HIDE DEF base
  <2> QED  BY <1>3, ActiveValue, DiscountedType
<1>5. billableDays(e, list, p) \in Nat /\ p.fullDays \in Nat \ {0}
  BY BillableType DEF Period
<1>6. amount \in Nat
  <2> HIDE DEF cost
  <2>1. cost * billableDays(e, list, p) \in Nat
    BY <1>4, <1>5, Arithmetic
  <2>2. 100 * p.fullDays \in Nat \ {0}
    BY <1>5
  <2> QED  BY <2>1, <2>2, Arithmetic
<1>7. p.start \in Days /\ p.end \in 1..LastDay
  BY DEF Period
<1> HIDE DEF amount
<1> QED  BY <1>1, <1>6, <1>7 DEF Bill

-----------------------------------------------------------------------------
(* Charges                                                                 *)

(* What a task is, and what it knows of the tables.                        *)
TaskOK(t) == t \in Task \cup {None}

TaskKnows(t) ==
  /\ t # None /\ t.op = "recalculate" => billed[t.enrollment][t.bill.start] # None
  /\ t # None /\ t.op = "end" => t.enrollment \in Enrolled

(* The charge a billed period points to exists and has the amount.         *)
Charged(charges, row) ==
  /\ {n \in DOMAIN charges : ~charges[n].voided}
       \subseteq IF row = None THEN {} ELSE {row.charge}
  /\ row # None =>
       IF row.amount = 0 THEN row.charge = None
       ELSE row.charge \in DOMAIN charges /\ charges[row.charge].amount = row.amount

BillsInv ==
  /\ BillingTypeOK
  /\ \A e \in Enrollments : \A s \in Days : Charged(charge[e][s], billed[e][s])
  /\ \A w \in Workers : TaskKnows(task[w])

LEMMA BillsOneCharge == BillsInv => OneChargePerPeriod
BY DEF BillsInv, OneChargePerPeriod, Charged, active

LEMMA InitBills == BillingInit => BillsInv
<1> SUFFICES ASSUME BillingInit PROVE BillsInv
  OBVIOUS
<1>1. 1 \in Days
  <2>1. L \in 1..L + 1 /\ 1 \in 1..L + 1 /\ 1 < L
    BY Calendar
  <2>2. monthStart[1] = 1 /\ monthStart[1] < monthStart[L] /\ monthStart[L] \in Nat
    BY <2>1, Starts, StartsGrow
  <2> QED  BY <2>2 DEF Days, L
<1>2. BillingTypeOK
  BY <1>1, InputAssumption DEF BillingInit, BillingTypeOK, Idle
<1>3. \A e \in Enrollments : \A s \in Days : charge[e][s] = <<>> /\ billed[e][s] = None
  BY DEF BillingInit
<1>4. Charged(<<>>, None)
  BY DEF Charged
<1>5. \A w \in Workers : TaskKnows(task[w])
  BY DEF BillingInit, TaskKnows
<1> QED  BY <1>2, <1>3, <1>4, <1>5 DEF BillsInv

LEMMA TaskRows ==
  ASSUME BillingTypeOK, NEW w \in Workers
  PROVE  TaskOK(task[w])
BY DEF BillingTypeOK, TaskOK

(* A step of one worker, the others going on as they were.                 *)
LEMMA TaskWritten ==
  ASSUME BillsInv, NEW w \in Workers, NEW t, TaskOK(t),
         task' = [task EXCEPT ![w] = t]
  PROVE  /\ task' \in [Workers -> Task \cup {None}]
         /\ task'[w] = t /\ \A v \in Workers \ {w} : task'[v] = task[v]
BY DEF BillsInv, BillingTypeOK, TaskOK

(* A worker that reads, gives up or is done with what it began.            *)
LEMMA TaskStep ==
  ASSUME BillsInv, NEW w \in Workers, NEW t, TaskOK(t), TaskKnows(t),
         task' = [task EXCEPT ![w] = t], UNCHANGED <<terms, bills, leadDays, today>>
  PROVE  BillsInv'
<1>1. BillingTypeOK'
  BY TaskWritten DEF BillsInv, BillingTypeOK, terms, bills
<1>2. \A v \in Workers : TaskKnows(task'[v])
  BY TaskWritten DEF BillsInv
<1>3. \A v \in Workers : TaskKnows(task[v])'
  BY <1>2 DEF TaskKnows, terms, bills, Enrolled
<1> QED  BY <1>1, <1>3 DEF BillsInv, Charged, bills

(* What the tasks know stays true: nothing is deleted.                     *)
LEMMA KnownStays ==
  ASSUME BillsInv, Enrolled \subseteq Enrolled',
         \A e \in Enrollments : \A s \in Days : billed[e][s] # None => billed'[e][s] # None,
         \A v \in Workers : task'[v] \in {task[v], None}
  PROVE  \A v \in Workers : TaskKnows(task[v])'
<1> SUFFICES ASSUME NEW v \in Workers, task'[v] = task[v], task[v] # None
             PROVE  TaskKnows(task[v])'
  BY DEF TaskKnows
<1>1. TaskKnows(task[v]) /\ TaskOK(task[v])
  BY TaskRows DEF BillsInv
<1>2. task[v].op = "recalculate" =>
        task[v].enrollment \in Enrollments /\ task[v].bill.start \in Days
  BY <1>1 DEF TaskOK, Task, Bill
<1> QED  BY <1>1, <1>2 DEF TaskKnows

(* A step that leaves the bills alone and ends one task at most.           *)
LEMMA TermsStep ==
  ASSUME BillsInv, UNCHANGED bills, UNCHANGED task \/ \E w \in Workers : Done(w),
         tariffMode' \in BillingMode, price' \in [Days -> Nat \cup {None}],
         enrollment' \in [Enrollments -> EnrollmentRow \cup {None}],
         adjustment' \in [Enrollments -> Seq(AdjustmentRow)],
         leadDays' \in LeadDays, today' \in Days, Enrolled \subseteq Enrolled'
  PROVE  BillsInv'
<1>1. /\ \A v \in Workers : task'[v] \in {task[v], None}
      /\ task' \in [Workers -> Task \cup {None}]
  BY DEF BillsInv, BillingTypeOK, Done
<1>2. BillingTypeOK'
  BY <1>1 DEF BillsInv, BillingTypeOK, bills
<1>3. \A v \in Workers : TaskKnows(task[v])'
  BY <1>1, KnownStays DEF bills
<1> QED  BY <1>2, <1>3 DEF BillsInv, Charged, bills

LEMMA TermsKept ==
  ASSUME BillsInv
  PROVE  /\ tariffMode \in BillingMode /\ price \in [Days -> Nat \cup {None}]
         /\ enrollment \in [Enrollments -> EnrollmentRow \cup {None}]
         /\ adjustment \in [Enrollments -> Seq(AdjustmentRow)]
         /\ leadDays \in LeadDays /\ today \in Days
BY DEF BillsInv, BillingTypeOK

LEMMA AddPriceBills ==
  ASSUME BillsInv, NEW row \in PriceRows, AddPrice(row)
  PROVE  BillsInv'
<1>1. price' = [price EXCEPT ![row.from] = row.price] /\ row.price \in Nat
  BY InputAssumption DEF AddPrice
<1>2. price' \in [Days -> Nat \cup {None}]
  BY <1>1, TermsKept
<1> QED  BY <1>2, TermsKept, TermsStep DEF AddPrice, Enrolled

LEMMA BeginSetModeBills ==
  ASSUME BillsInv, NEW w \in Workers, NEW mode \in Modes, BeginSetMode(w, mode)
  PROVE  BillsInv'
<1> PICK t : t = [op |-> "setMode", mode |-> mode]
  OBVIOUS
<1>1. TaskOK(t) /\ TaskKnows(t)
  BY InputAssumption DEF TaskOK, TaskKnows, Task
<1>2. task' = [task EXCEPT ![w] = t] /\ UNCHANGED <<terms, bills, leadDays, today>>
  BY DEF BeginSetMode, Begin
<1> QED  BY <1>1, <1>2, TaskStep

LEMMA SetModeBills ==
  ASSUME BillsInv, NEW w \in Workers, SetMode(w)
  PROVE  BillsInv'
<1>1. task[w].mode \in BillingMode
  BY TaskRows DEF SetMode, Doing, Idle, TaskOK, Task, BillsInv
<1> QED  BY <1>1, TermsKept, TermsStep DEF SetMode, Enrolled

LEMMA BeginEnrollBills ==
  ASSUME BillsInv, NEW w \in Workers, NEW e \in Enrollments,
         NEW row \in EnrollmentRows, BeginEnroll(w, e, row)
  PROVE  BillsInv'
<1> PICK t : t = [op |-> "enroll", enrollment |-> e, row |-> row]
  OBVIOUS
<1>1. row \in EnrollmentRow
  BY InputAssumption
<1>2. TaskOK(t) /\ TaskKnows(t)
  BY <1>1 DEF TaskOK, TaskKnows, Task
<1>3. task' = [task EXCEPT ![w] = t] /\ UNCHANGED <<terms, bills, leadDays, today>>
  BY DEF BeginEnroll, Begin
<1> QED  BY <1>2, <1>3, TaskStep

LEMMA EnrollBills ==
  ASSUME BillsInv, NEW w \in Workers, Enroll(w)
  PROVE  BillsInv'
<1>1. task[w].row \in EnrollmentRow /\ task[w].row # None
  BY TaskRows, InputAssumption DEF Enroll, Doing, Idle, TaskOK, Task, BillsInv
<1>2. enrollment' = [enrollment EXCEPT ![task[w].enrollment] = task[w].row]
  BY DEF Enroll
<1>3. /\ enrollment' \in [Enrollments -> EnrollmentRow \cup {None}]
      /\ Enrolled \subseteq Enrolled'
  BY <1>1, <1>2, TermsKept DEF Enrolled
<1> QED  BY <1>3, TermsKept, TermsStep DEF Enroll

LEMMA BeginEndBills ==
  ASSUME BillsInv, NEW w \in Workers, NEW e \in Enrollments, NEW day \in EndDays,
         BeginEnd(w, e, day)
  PROVE  BillsInv'
<1> PICK t : t = [op |-> "end", enrollment |-> e, day |-> day]
  OBVIOUS
<1>1. TaskOK(t) /\ TaskKnows(t)
  BY InputAssumption DEF TaskOK, TaskKnows, Task, BeginEnd
<1>2. task' = [task EXCEPT ![w] = t] /\ UNCHANGED <<terms, bills, leadDays, today>>
  BY DEF BeginEnd, Begin
<1> QED  BY <1>1, <1>2, TaskStep

LEMMA EndBills ==
  ASSUME BillsInv, NEW w \in Workers, End(w)
  PROVE  BillsInv'
<1> DEFINE e == task[w].enrollment
           row == [enrollment[e] EXCEPT !.end = task[w].day]
<1>1. task[w].day \in Days /\ e \in Enrolled
  BY TaskRows DEF End, Doing, Idle, TaskOK, TaskKnows, Task, BillsInv
<1>2. enrollment[e] \in EnrollmentRow
  BY <1>1, TermsKept DEF Enrolled
<1>3. row \in EnrollmentRow
  BY <1>1, <1>2 DEF EnrollmentRow
<1>4. enrollment' = [enrollment EXCEPT ![e] = row]
  BY DEF End
<1> HIDE DEF row, e
<1>5. row # None
  BY <1>3, InputAssumption
<1>6. /\ enrollment' \in [Enrollments -> EnrollmentRow \cup {None}]
      /\ Enrolled \subseteq Enrolled'
  BY <1>3, <1>4, <1>5, TermsKept DEF Enrolled
<1> QED  BY <1>6, TermsKept, TermsStep DEF End

LEMMA BeginAdjustBills ==
  ASSUME BillsInv, NEW w \in Workers, NEW e \in Enrollments,
         NEW row \in AdjustmentRows, BeginAdjust(w, e, row)
  PROVE  BillsInv'
<1> PICK t : t = [op |-> "adjust", enrollment |-> e, row |-> row]
  OBVIOUS
<1>1. row \in AdjustmentRow
  BY InputAssumption
<1>2. TaskOK(t) /\ TaskKnows(t)
  BY <1>1 DEF TaskOK, TaskKnows, Task
<1>3. task' = [task EXCEPT ![w] = t] /\ UNCHANGED <<terms, bills, leadDays, today>>
  BY DEF BeginAdjust, Begin
<1> QED  BY <1>2, <1>3, TaskStep

LEMMA AdjustBills ==
  ASSUME BillsInv, NEW w \in Workers, Adjust(w)
  PROVE  BillsInv'
<1>1. task[w].row \in AdjustmentRow /\ task[w].enrollment \in Enrollments
  BY TaskRows DEF Adjust, Doing, Idle, TaskOK, Task, BillsInv
<1>2. adjustment[task[w].enrollment] \in Seq(AdjustmentRow)
  BY <1>1, TermsKept
<1>3. Append(adjustment[task[w].enrollment], task[w].row) \in Seq(AdjustmentRow)
  BY <1>1, <1>2
<1>4. adjustment' \in [Enrollments -> Seq(AdjustmentRow)]
  BY <1>1, <1>3, TermsKept DEF Adjust
<1> QED  BY <1>4, TermsKept, TermsStep DEF Adjust, Enrolled

LEMMA VoidAdjustmentBills ==
  ASSUME BillsInv, NEW e \in Enrollments, NEW n \in 1..MaxAdjustments,
         VoidAdjustment(e, n)
  PROVE  BillsInv'
<1> DEFINE list == adjustment[e]
           row == [list[n] EXCEPT !.voided = TRUE]
<1>1. list \in Seq(AdjustmentRow) /\ n \in DOMAIN list
  BY TermsKept DEF VoidAdjustment
<1>2. row \in AdjustmentRow
  <2>1. list[n] \in AdjustmentRow
    BY <1>1, Rows
  <2> QED  BY <2>1 DEF AdjustmentRow
<1>3. adjustment' = [adjustment EXCEPT ![e] = [list EXCEPT ![n] = row]]
  BY DEF VoidAdjustment
<1> HIDE DEF row, list
<1>4. [list EXCEPT ![n] = row] \in Seq(AdjustmentRow)
  BY <1>1, <1>2, ExceptSeq
<1>5. adjustment' \in [Enrollments -> Seq(AdjustmentRow)]
  BY <1>3, <1>4, TermsKept
<1> QED  BY <1>5, TermsKept, TermsStep DEF VoidAdjustment, Enrolled

LEMMA SetLeadDaysBills ==
  ASSUME BillsInv, NEW days \in LeadDays, SetLeadDays(days)
  PROVE  BillsInv'
BY TermsKept, TermsStep DEF SetLeadDays, Enrolled, terms

LEMMA NextDayBills ==
  ASSUME BillsInv, NextDay
  PROVE  BillsInv'
<1>1. leadDays \in LeadDays /\ leadDays \in Nat /\ today \in Nat
  BY TermsKept, InputAssumption, LastDays
<1>2. today + 1 + leadDays \in Days
  BY <1>1 DEF NextDay
<1>3. today + 1 \in Days
  <2>1. today + 1 + leadDays \in Int /\ today + 1 + leadDays <= monthStart[L] - 1
    BY <1>1, <1>2 DEF Days, L
  <2>2. monthStart[L] \in Int
    BY StartsGrow, Calendar
  <2> QED  BY <1>1, <2>1, <2>2 DEF Days, L
<1> QED  BY <1>3, TermsKept, TermsStep DEF NextDay, Enrolled, terms

-----------------------------------------------------------------------------
(* Runs and recalculations                                                 *)

LEMMA InputOf ==
  ASSUME BillsInv, NEW e \in Enrolled
  PROVE  input(e) \in Input /\ enrollment[e] \in EnrollmentRow /\ e \in Enrollments
<1>1. enrollment[e] \in EnrollmentRow /\ e \in Enrollments
  BY TermsKept DEF Enrolled
<1>2. input(e) = [enrollment[e] EXCEPT !.mode =
                    IF enrollment[e].mode = None THEN tariffMode ELSE enrollment[e].mode]
  BY <1>1 DEF input, EnrollmentRow
<1>3. (IF enrollment[e].mode = None THEN tariffMode ELSE enrollment[e].mode)
        \in BillingMode
  BY <1>1, TermsKept DEF EnrollmentRow
<1> QED  BY <1>1, <1>2, <1>3 DEF Input, EnrollmentRow

(* The days are of a period of the enrollment, as the terms are now.       *)
PeriodOf(e, start, end) ==
  \E k \in numbers(input(e)) : /\ start = naturalPeriod(input(e), k).start
                               /\ end <= naturalPeriod(input(e), k).end

PeriodBill(e, b) == PeriodOf(e, b.start, b.end)

LEMMA DueOf ==
  ASSUME BillsInv, NEW e \in Enrolled, NEW d \in due(e)
  PROVE  d \in DueBill /\ d.enrollment = e /\ PeriodBill(e, d.bill)
<1>1. PICK b \in dueBills(input(e), price, adjustment[e], billedStarts(e),
                          today + leadDays) :
        d = [enrollment |-> e, bill |-> b]
  BY DEF due
<1>2. PICK p \in periodsUntil(input(e), today + leadDays) :
        b = computePeriod(input(e), price, adjustment[e], p)
  BY DEF dueBills
<1>3. b # None
  BY DEF dueBills
<1>4. /\ input(e) \in Input /\ e \in Enrollments
      /\ adjustment[e] \in Seq(AdjustmentRow) /\ price \in [Days -> Nat \cup {None}]
  BY InputOf, TermsKept
<1>5. p \in Period /\ \E k \in numbers(input(e)) :
        p.start = naturalPeriod(input(e), k).start /\ p.end <= naturalPeriod(input(e), k).end
  BY <1>4, PeriodsOf
<1>6. b \in Bill /\ b.start = p.start /\ b.end = p.end
  BY <1>2, <1>3, <1>4, <1>5, BillOf
<1> QED  BY <1>1, <1>4, <1>5, <1>6 DEF DueBill, PeriodBill, PeriodOf

LEMMA BeginRunBills ==
  ASSUME BillsInv, NEW w \in Workers, BeginRun(w)
  PROVE  BillsInv'
<1> PICK t : t = [op |-> "run", todo |-> UNION {due(e) : e \in Enrolled}]
  OBVIOUS
<1>1. t.op = "run" /\ t.todo = UNION {due(e) : e \in Enrolled}
  OBVIOUS
<1>2. t.todo \subseteq DueBill
  BY <1>1, DueOf
<1>3. TaskOK(t) /\ TaskKnows(t)
  BY <1>1, <1>2 DEF TaskOK, TaskKnows, Task
<1>4. task' = [task EXCEPT ![w] = t] /\ UNCHANGED <<terms, bills, leadDays, today>>
  BY DEF BeginRun, Begin
<1> QED  BY <1>3, <1>4, TaskStep

LEMMA BeginBillBills ==
  ASSUME BillsInv, NEW w \in Workers, NEW e \in Enrollments, BeginBill(w, e)
  PROVE  BillsInv'
<1> PICK t : t = [op |-> "run", todo |-> due(e)]
  OBVIOUS
<1>1. t.op = "run" /\ t.todo = due(e) /\ e \in Enrolled
  BY DEF BeginBill
<1>2. t.todo \subseteq DueBill
  BY <1>1, DueOf
<1>3. TaskOK(t) /\ TaskKnows(t)
  BY <1>1, <1>2 DEF TaskOK, TaskKnows, Task
<1>4. task' = [task EXCEPT ![w] = t] /\ UNCHANGED <<terms, bills, leadDays, today>>
  BY DEF BeginBill, Begin
<1> QED  BY <1>3, <1>4, TaskStep

(* A run has its enrollments to do, and fewer of them after each.          *)
LEMMA RunTask ==
  ASSUME BillsInv, NEW w \in Workers, Doing(w, "run"), NEW less \in SUBSET task[w].todo,
         NEW t, t = [task[w] EXCEPT !.todo = less]
  PROVE  task[w].todo \subseteq DueBill /\ TaskOK(t) /\ TaskKnows(t)
<1>1. task[w] \in [op: {"run"}, todo: SUBSET DueBill]
  BY TaskRows DEF Doing, Idle, TaskOK, Task, BillsInv
<1>2. t \in [op: {"run"}, todo: SUBSET DueBill]
  BY <1>1
<1> QED  BY <1>1, <1>2 DEF TaskOK, TaskKnows, Task

(* The charge of a bill, after charges that are all voided.                *)
LEMMA NewCharge ==
  ASSUME NEW kept \in Seq(ChargeRow), \A n \in DOMAIN kept : kept[n].voided,
         NEW amount \in Nat, NEW row, row.amount = amount,
         row.charge = ChargeOf(kept, amount), row # None
  PROVE  /\ NewCharges(kept, amount) \in Seq(ChargeRow)
         /\ ChargeOf(kept, amount) \in Nat \cup {None}
         /\ Charged(NewCharges(kept, amount), row)
<1>1. CASE amount = 0
  BY <1>1 DEF NewCharges, ChargeOf, Charged
<1>2. CASE amount # 0
  <2> PICK new : new = [amount |-> amount, voided |-> FALSE]
    OBVIOUS
  <2>1. new \in ChargeRow /\ new.amount = amount
    BY DEF ChargeRow
  <2>2. /\ NewCharges(kept, amount) = Append(kept, new)
        /\ ChargeOf(kept, amount) = Len(kept) + 1
    BY <1>2 DEF NewCharges, ChargeOf
  <2>3. /\ Append(kept, new) \in Seq(ChargeRow)
        /\ Len(Append(kept, new)) = Len(kept) + 1
        /\ \A n \in 1..Len(kept) : Append(kept, new)[n] = kept[n]
        /\ Append(kept, new)[Len(kept) + 1] = new
    BY <2>1, AppendProperties
  <2>4. Len(kept) \in Nat /\ DOMAIN kept = 1..Len(kept)
    BY Rows
  <2>5. DOMAIN Append(kept, new) = 1..Len(kept) + 1
    BY <2>3, Rows
  <2>6. {n \in DOMAIN Append(kept, new) : ~Append(kept, new)[n].voided}
          \subseteq {Len(kept) + 1}
    BY <2>3, <2>4, <2>5
  <2>7. Len(kept) + 1 \in DOMAIN Append(kept, new)
    BY <2>4, <2>5
  <2> QED  BY <1>2, <2>1, <2>2, <2>3, <2>4, <2>6, <2>7 DEF Charged
<1> QED  BY <1>1, <1>2

LEMMA BillStep ==
  ASSUME BillsInv, NEW w \in Workers, NEW t, TaskOK(t), TaskKnows(t),
         task' = [task EXCEPT ![w] = t],
         NEW e \in Enrollments, NEW s \in Days, NEW end \in 1..LastDay,
         NEW amount \in Nat, NEW kept \in Seq(ChargeRow),
         \A n \in DOMAIN kept : kept[n].voided,
         charge' = [charge EXCEPT ![e][s] = NewCharges(kept, amount)],
         billed' = [billed EXCEPT ![e][s] =
                      [end |-> end, amount |-> amount,
                       charge |-> ChargeOf(kept, amount)]],
         UNCHANGED <<terms, leadDays, today>>
  PROVE  BillsInv'
<1> PICK row : row = [end |-> end, amount |-> amount, charge |-> ChargeOf(kept, amount)]
  OBVIOUS
<1> PICK new : new = NewCharges(kept, amount)
  OBVIOUS
<1>1. ChargeOf(kept, amount) \in Nat \cup {None}
  BY DEF ChargeOf
<1>2. row \in BilledRow
  BY <1>1 DEF BilledRow
<1>3. row # None
  BY <1>2, InputAssumption
<1>4. row.amount = amount /\ row.charge = ChargeOf(kept, amount)
  OBVIOUS
<1>5. new \in Seq(ChargeRow) /\ Charged(new, row)
  BY <1>3, <1>4, NewCharge
<1>6. charge' = [charge EXCEPT ![e][s] = new] /\ billed' = [billed EXCEPT ![e][s] = row]
  OBVIOUS
<1>7. /\ charge \in [Enrollments -> [Days -> Seq(ChargeRow)]]
      /\ billed \in [Enrollments -> [Days -> BilledRow \cup {None}]]
  BY DEF BillsInv, BillingTypeOK
<1>8. charge' \in [Enrollments -> [Days -> Seq(ChargeRow)]]
  BY <1>5, <1>6, <1>7
<1>9. billed' \in [Enrollments -> [Days -> BilledRow \cup {None}]]
  BY <1>2, <1>6, <1>7
<1>10. BillingTypeOK'
  BY <1>8, <1>9, TaskWritten DEF BillsInv, BillingTypeOK, terms
<1>11. \A f \in Enrollments : \A u \in Days :
         IF f = e /\ u = s THEN charge'[f][u] = new /\ billed'[f][u] = row
         ELSE charge'[f][u] = charge[f][u] /\ billed'[f][u] = billed[f][u]
  BY <1>6, <1>7
<1>12. \A f \in Enrollments : \A u \in Days : Charged(charge'[f][u], billed'[f][u])
  BY <1>5, <1>11 DEF BillsInv
<1>13. ASSUME NEW v \in Workers PROVE TaskKnows(task[v])'
  <2>1. TaskOK(task'[v]) /\ TaskKnows(task'[v])
    BY TaskWritten, TaskRows DEF BillsInv
  <2>2. task'[v] # None /\ task'[v].op = "recalculate" =>
          task'[v].enrollment \in Enrollments /\ task'[v].bill.start \in Days
    BY <2>1 DEF TaskOK, Task, Bill
  <2>3. \A f \in Enrollments : \A u \in Days : billed[f][u] # None => billed'[f][u] # None
    BY <1>3, <1>11
  <2>4. Enrolled' = Enrolled
    BY DEF Enrolled, terms
  <2> QED  BY <2>1, <2>2, <2>3, <2>4 DEF TaskKnows
<1> QED  BY <1>10, <1>12, <1>13 DEF BillsInv

LEMMA BillNextBills ==
  ASSUME BillsInv, NEW w \in Workers, NEW d, BillNext(w, d)
  PROVE  BillsInv'
<1>1. Doing(w, "run") /\ d \in task[w].todo
  BY DEF BillNext
<1> PICK t : t = [task[w] EXCEPT !.todo = task[w].todo \ {d}]
  OBVIOUS
<1>2. TaskOK(t) /\ TaskKnows(t) /\ d \in DueBill
  BY <1>1, RunTask
<1>3. task' = [task EXCEPT ![w] = t] /\ UNCHANGED <<terms, leadDays, today>>
  BY DEF BillNext
<1> PICK e \in Enrollments, b \in Bill : e = d.enrollment /\ b = d.bill
  BY <1>2 DEF DueBill
<1>4. CASE billed[e][b.start] # None
  BY <1>2, <1>3, <1>4, TaskStep DEF BillNext
<1>5. CASE billed[e][b.start] = None
  <2> PICK s \in Days, end \in 1..LastDay, amount \in Nat, kept \in Seq(ChargeRow) :
        s = b.start /\ end = b.end /\ amount = b.amount /\ kept = charge[e][s]
    BY DEF Bill, BillsInv, BillingTypeOK
  <2>1. \A n \in DOMAIN kept : kept[n].voided
    BY <1>5 DEF BillsInv, Charged
  <2>2. /\ charge' = [charge EXCEPT ![e][s] = NewCharges(kept, amount)]
        /\ billed' = [billed EXCEPT ![e][s] =
                        [end |-> end, amount |-> amount,
                         charge |-> ChargeOf(kept, amount)]]
    BY <1>5 DEF BillNext
  <2> QED  BY <1>2, <1>3, <2>1, <2>2, BillStep
<1> QED  BY <1>4, <1>5

LEMMA FailEnrollmentBills ==
  ASSUME BillsInv, NEW w \in Workers, NEW e \in Enrollments, FailEnrollment(w, e)
  PROVE  BillsInv'
<1> PICK t : t = [task[w] EXCEPT !.todo = {d \in task[w].todo : d.enrollment # e}]
  OBVIOUS
<1>1. TaskOK(t) /\ TaskKnows(t)
  BY RunTask DEF FailEnrollment
<1>2. task' = [task EXCEPT ![w] = t] /\ UNCHANGED <<terms, bills, leadDays, today>>
  BY DEF FailEnrollment
<1> QED  BY <1>1, <1>2, TaskStep

LEMMA EndBillsTask ==
  ASSUME BillsInv, NEW w \in Workers, EndRun(w) \/ GiveUp(w)
  PROVE  BillsInv'
<1>1. task' = [task EXCEPT ![w] = None] /\ UNCHANGED <<terms, bills, leadDays, today>>
  BY DEF EndRun, GiveUp, Done
<1> QED  BY <1>1, TaskStep DEF TaskOK, TaskKnows

(* Recalculating computes a bill for the period that starts on the day the *)
(* billed one does, or none at all.                                        *)
LEMMA RecalculatedOf ==
  ASSUME BillsInv, NEW w \in Workers, NEW e \in Enrollments, NEW s \in Days,
         BeginRecalculate(w, e, s)
  PROVE  \E b \in Bill :
           /\ task' = [task EXCEPT ![w] =
                [op |-> "recalculate", enrollment |-> e, bill |-> b]]
           /\ b.start = s /\ billed[e][s] # None /\ e \in Enrolled
           /\ PeriodBill(e, b) \/ b.end = billed[e][s].end
<1>1. /\ e \in Enrolled /\ billed[e][s] # None
      /\ billed[e][s] \in BilledRow
  BY DEF BeginRecalculate, BillsInv, BillingTypeOK
<1>2. /\ input(e) \in Input /\ adjustment[e] \in Seq(AdjustmentRow)
      /\ price \in [Days -> Nat \cup {None}]
  BY <1>1, InputOf, TermsKept
<1> DEFINE found == findPeriod(input(e), s)
           p == CHOOSE q \in found : TRUE
           computed == computePeriod(input(e), price, adjustment[e], p)
           none == [start |-> s, end |-> billed[e][s].end, amount |-> 0]
           bill == IF found # {} THEN computed ELSE none
<1>3. /\ bill # None
      /\ task' = [task EXCEPT ![w] =
                    [op |-> "recalculate", enrollment |-> e, bill |-> bill]]
  BY DEF BeginRecalculate, Begin
<1>4. CASE found # {}
  <2>1. p \in periodsUntil(input(e), s) /\ p.start = s
    BY <1>4 DEF findPeriod
  <2> HIDE DEF found, p
  <2>2. p \in Period /\ \E k \in numbers(input(e)) :
          p.start = naturalPeriod(input(e), k).start /\ p.end <= naturalPeriod(input(e), k).end
    BY <1>2, <2>1, PeriodsOf
  <2>3. bill = computed
    BY <1>4
  <2>4. bill \in Bill /\ bill.start = p.start /\ bill.end = p.end
    BY <1>2, <1>3, <2>2, <2>3, BillOf
  <2> HIDE DEF bill
  <2>5. PeriodBill(e, bill)
    BY <2>2, <2>4 DEF PeriodBill, PeriodOf
  <2> QED  BY <1>1, <1>3, <2>1, <2>4, <2>5
<1>5. CASE found = {}
  <2>1. none \in Bill /\ none.start = s /\ none.end = billed[e][s].end /\ bill = none
    BY <1>1, <1>5 DEF Bill, BilledRow
  <2> HIDE DEF none, bill, found
  <2> QED  BY <1>1, <1>3, <2>1
<1> QED  BY <1>4, <1>5

LEMMA BeginRecalculateBills ==
  ASSUME BillsInv, NEW w \in Workers, NEW e \in Enrollments, NEW s \in Days,
         BeginRecalculate(w, e, s)
  PROVE  BillsInv'
<1> PICK b \in Bill :
      /\ task' = [task EXCEPT ![w] =
           [op |-> "recalculate", enrollment |-> e, bill |-> b]]
      /\ b.start = s /\ billed[e][s] # None
  BY RecalculatedOf
<1> PICK t : t = [op |-> "recalculate", enrollment |-> e, bill |-> b]
  OBVIOUS
<1>1. TaskOK(t) /\ TaskKnows(t)
  BY DEF TaskOK, TaskKnows, Task
<1>2. UNCHANGED <<terms, bills, leadDays, today>>
  BY DEF BeginRecalculate
<1> QED  BY <1>1, <1>2, TaskStep

(* Voiding the charge a row points to leaves none that counts.             *)
LEMMA VoidedCharges ==
  ASSUME NEW charges \in Seq(ChargeRow), NEW n,
         n # None => n \in DOMAIN charges
  PROVE  /\ VoidCharges(charges, n) \in Seq(ChargeRow)
         /\ DOMAIN VoidCharges(charges, n) = DOMAIN charges
         /\ \A m \in DOMAIN charges :
              /\ VoidCharges(charges, n)[m].amount = charges[m].amount
              /\ VoidCharges(charges, n)[m].voided <=> charges[m].voided \/ (n # None /\ m = n)
<1>1. CASE n = None
  BY <1>1 DEF VoidCharges
<1>2. CASE n # None
  <2> PICK row : row = [charges[n] EXCEPT !.voided = TRUE]
    OBVIOUS
  <2>1. charges[n] \in ChargeRow
    BY <1>2, Rows
  <2>2. row \in ChargeRow /\ row.amount = charges[n].amount /\ row.voided = TRUE
    BY <2>1 DEF ChargeRow
  <2>3. VoidCharges(charges, n) = [charges EXCEPT ![n] = row]
    BY <1>2 DEF VoidCharges
  <2>4. [charges EXCEPT ![n] = row] \in Seq(ChargeRow)
    BY <1>2, <2>2, ExceptSeq
  <2>5. /\ DOMAIN [charges EXCEPT ![n] = row] = DOMAIN charges
        /\ \A m \in DOMAIN charges :
             [charges EXCEPT ![n] = row][m] = IF m = n THEN row ELSE charges[m]
    BY Rows
  <2> QED  BY <1>2, <2>2, <2>3, <2>4, <2>5
<1> QED  BY <1>1, <1>2

LEMMA AllVoided ==
  ASSUME NEW charges \in Seq(ChargeRow), NEW row, row # None, Charged(charges, row)
  PROVE  /\ VoidCharges(charges, row.charge) \in Seq(ChargeRow)
         /\ \A m \in DOMAIN VoidCharges(charges, row.charge) :
              VoidCharges(charges, row.charge)[m].voided
<1> PICK n : n = row.charge
  OBVIOUS
<1>1. n # None => n \in DOMAIN charges
  BY DEF Charged
<1>2. \A m \in DOMAIN charges : charges[m].voided \/ m = n
  BY DEF Charged
<1>3. \A m \in DOMAIN charges : m \in Nat
  BY Rows
<1>4. \A m \in DOMAIN charges : m # None
  BY <1>3, InputAssumption
<1> PICK kept : kept = VoidCharges(charges, n)
  OBVIOUS
<1>5. /\ kept \in Seq(ChargeRow) /\ DOMAIN kept = DOMAIN charges
      /\ \A m \in DOMAIN charges :
           kept[m].voided <=> charges[m].voided \/ (n # None /\ m = n)
  BY <1>1, VoidedCharges
<1>6. \A m \in DOMAIN charges : kept[m].voided
  BY <1>2, <1>4, <1>5
<1> QED  BY <1>5, <1>6

LEMMA RecalculateBills ==
  ASSUME BillsInv, NEW w \in Workers, Recalculate(w)
  PROVE  BillsInv'
<1>1. task[w] \in [op: {"recalculate"}, enrollment: Enrollments, bill: Bill]
  BY TaskRows DEF Recalculate, Doing, Idle, TaskOK, Task, BillsInv
<1> PICK e \in Enrollments, b \in Bill : e = task[w].enrollment /\ b = task[w].bill
  BY <1>1
<1> PICK s \in Days, end \in 1..LastDay, amount \in Nat, charges \in Seq(ChargeRow) :
      /\ s = b.start /\ end = b.end /\ amount = b.amount /\ charges = charge[e][s]
  BY DEF Bill, BillsInv, BillingTypeOK
<1>2. billed[e][s] # None /\ Charged(charges, billed[e][s])
  BY <1>1 DEF Recalculate, Doing, Idle, BillsInv, TaskKnows
<1> PICK kept : kept = VoidCharges(charges, billed[e][s].charge)
  OBVIOUS
<1>3. kept \in Seq(ChargeRow) /\ \A m \in DOMAIN kept : kept[m].voided
  BY <1>2, AllVoided, ZenonT(60)
<1>4. /\ charge' = [charge EXCEPT ![e][s] = NewCharges(kept, amount)]
      /\ billed' = [billed EXCEPT ![e][s] =
                      [end |-> end, amount |-> amount, charge |-> ChargeOf(kept, amount)]]
      /\ task' = [task EXCEPT ![w] = None]
      /\ UNCHANGED <<terms, leadDays, today>>
  BY DEF Recalculate, Done
<1>5. TaskOK(None) /\ TaskKnows(None)
  BY DEF TaskOK, TaskKnows
<1> QED  BY <1>3, <1>4, <1>5, BillStep, ZenonT(60)

LEMMA VoidChargeBills ==
  ASSUME BillsInv, NEW e \in Enrollments, NEW s \in Days, NEW n, VoidCharge(e, s, n)
  PROVE  BillsInv'
<1> PICK charges \in Seq(ChargeRow) : charges = charge[e][s]
  BY DEF BillsInv, BillingTypeOK
<1> PICK new : new = VoidCharges(charges, n)
  OBVIOUS
<1>1. /\ n \in DOMAIN charges /\ charge' = [charge EXCEPT ![e][s] = new]
      /\ UNCHANGED <<terms, billed, leadDays, today, task>>
  BY DEF VoidCharge
<1>2. /\ new \in Seq(ChargeRow) /\ DOMAIN new = DOMAIN charges
      /\ \A m \in DOMAIN charges :
           /\ new[m].amount = charges[m].amount
           /\ charges[m].voided => new[m].voided
  BY <1>1, VoidedCharges
<1>3. charge \in [Enrollments -> [Days -> Seq(ChargeRow)]]
  BY DEF BillsInv, BillingTypeOK
<1>4. charge' \in [Enrollments -> [Days -> Seq(ChargeRow)]]
  BY <1>1, <1>2, <1>3
<1>5. BillingTypeOK'
  BY <1>1, <1>4 DEF BillsInv, BillingTypeOK, terms
<1>6. Charged(charges, billed[e][s]) => Charged(new, billed[e][s])
  BY <1>2 DEF Charged
<1>7. \A f \in Enrollments : \A u \in Days :
        charge'[f][u] = IF f = e /\ u = s THEN new ELSE charge[f][u]
  BY <1>1, <1>3
<1>8. \A f \in Enrollments : \A u \in Days : Charged(charge'[f][u], billed[f][u])
  BY <1>6, <1>7 DEF BillsInv
<1>9. \A v \in Workers : TaskKnows(task[v])'
  BY <1>1 DEF BillsInv, TaskKnows, terms, Enrolled
<1> QED  BY <1>1, <1>5, <1>8, <1>9 DEF BillsInv

LEMMA NextBills == BillsInv /\ [BillingNext]_billingVars => BillsInv'
<1> SUFFICES ASSUME BillsInv, [BillingNext]_billingVars PROVE BillsInv'
  OBVIOUS
<1>1. ASSUME NEW w \in Workers, Terms(w) PROVE BillsInv'
  BY <1>1, BeginSetModeBills, SetModeBills, BeginEnrollBills, EnrollBills,
     BeginEndBills, EndBills, BeginAdjustBills, AdjustBills DEF Terms
<1>2. ASSUME NEW w \in Workers, Billing(w) PROVE BillsInv'
  BY <1>2, BeginRunBills, BeginBillBills, BillNextBills, FailEnrollmentBills,
     EndBillsTask, BeginRecalculateBills, RecalculateBills DEF Billing
<1>3. ASSUME UNCHANGED billingVars PROVE BillsInv'
  <2>1. UNCHANGED <<bills, task>> /\ Enrolled' = Enrolled
    BY <1>3 DEF billingVars, terms, Enrolled
  <2> QED  BY <1>3, <2>1, TermsKept, TermsStep DEF billingVars, terms
<1> QED
  BY <1>1, <1>2, <1>3, EndBillsTask, AddPriceBills, VoidAdjustmentBills,
     VoidChargeBills, SetLeadDaysBills, NextDayBills DEF BillingNext

(***************************************************************************)
(* Billing keeps to its types: no history of runs, recalculations and      *)
(* changes of terms makes billing-engine.ts compute a bill that is not one *)
(* of a day of the calendar and of a non-negative amount.                  *)
(***************************************************************************)
THEOREM BillingTypeCorrect == BillingSpec => []BillingTypeOK
<1>1. BillsInv => BillingTypeOK
  BY DEF BillsInv
<1> QED  BY InitBills, NextBills, <1>1, PTL DEF BillingSpec

(***************************************************************************)
(* However runs, requests for one enrollment, recalculations and voids     *)
(* meet, a period has at most one charge that counts, the one that its     *)
(* BilledPeriod row points to, and of the amount of the row                *)
(* (charging.service.ts: billLoaded and recalculate).                      *)
(***************************************************************************)
THEOREM OneCharge == BillingSpec => []OneChargePerPeriod
BY InitBills, NextBills, BillsOneCharge, PTL DEF BillingSpec

-----------------------------------------------------------------------------
(* No day twice                                                            *)

(* What is billed, or going to be, are periods of what enrollments there   *)
(* are; a child is enrolled by one request at a time.                      *)
RowsOfPeriods ==
  \A e \in Enrollments : \A s \in Days :
    billed[e][s] # None => e \in Enrolled /\ PeriodOf(e, s, billed[e][s].end)

TaskBills(t) ==
  /\ t # None /\ t.op = "run" =>
       \A d \in t.todo : d.enrollment \in Enrolled /\ PeriodBill(d.enrollment, d.bill)
  /\ t # None /\ t.op = "recalculate" =>
       t.enrollment \in Enrolled /\ PeriodBill(t.enrollment, t.bill)

EnrollsAlone ==
  \A v \in Workers : Doing(v, "enroll") =>
    /\ enrollment[task[v].enrollment] = None
    /\ \A u \in Workers : Doing(u, "enroll") => u = v

DaysInv ==
  /\ BillsInv
  /\ RowsOfPeriods
  /\ \A w \in Workers : TaskBills(task[w])
  /\ EnrollsAlone

LEMMA DaysNoneTwice == DaysInv => NoDayBilledTwice
<1> SUFFICES ASSUME DaysInv, NEW e \in Enrollments, NEW s \in Days, NEW t \in Days,
                    billed[e][s] # None, billed[e][t] # None, s < t
             PROVE  billed[e][s].end < t
  BY DEF NoDayBilledTwice
<1> PICK end : end = billed[e][s].end
  OBVIOUS
<1>1. /\ e \in Enrolled /\ PeriodOf(e, s, end)
      /\ PeriodOf(e, t, billed[e][t].end)
  BY DEF DaysInv, RowsOfPeriods
<1>2. input(e) \in Input
  BY <1>1, InputOf DEF DaysInv
<1> PICK i \in Input : i = input(e)
  BY <1>2
<1>3. PICK k \in numbers(i) : /\ s = naturalPeriod(i, k).start
                              /\ end <= naturalPeriod(i, k).end
  BY <1>1 DEF PeriodOf
<1>4. PICK l \in numbers(i) : t = naturalPeriod(i, l).start
  BY <1>1 DEF PeriodOf
<1>5. /\ naturalPeriod(i, k).end \in Nat /\ naturalPeriod(i, l).end \in Nat
      /\ naturalPeriod(i, l).start <= naturalPeriod(i, l).end
  BY NaturalPeriods, LastDays
<1>6. s \in Nat /\ t \in Nat /\ end \in Nat
  <2>1. billed[e][s] \in BilledRow
    BY DEF DaysInv, BillsInv, BillingTypeOK
  <2> QED  BY <2>1, LastDays DEF BilledRow
<1>7. k \in Int /\ l \in Int
  BY DEF numbers
<1>8. CASE k < l
  BY <1>3, <1>4, <1>5, <1>6, <1>8, PeriodsApart
<1>9. CASE l < k
  <2>1. naturalPeriod(i, l).end < naturalPeriod(i, k).start
    BY <1>9, PeriodsApart
  <2> QED  BY <2>1, <1>3, <1>4, <1>5, <1>6
<1> QED  BY <1>3, <1>4, <1>6, <1>7, <1>8, <1>9

LEMMA InitDays == BillingInit => DaysInv
<1> SUFFICES ASSUME BillingInit PROVE DaysInv
  OBVIOUS
<1>1. \A e \in Enrollments : \A s \in Days : billed[e][s] = None
  BY DEF BillingInit
<1>2. \A w \in Workers : task[w] = None
  BY DEF BillingInit
<1> QED  BY <1>1, <1>2, InitBills DEF DaysInv, RowsOfPeriods, TaskBills, EnrollsAlone, Doing, Idle

(* The periods of an enrollment follow from its start and its mode.        *)
LEMMA SamePeriods ==
  ASSUME NEW i, NEW j, i.start = j.start, i.mode = j.mode
  PROVE  /\ numbers(i) = numbers(j)
         /\ \A k : naturalPeriod(i, k) = naturalPeriod(j, k)
BY DEF numbers, naturalPeriod

Kept(e) ==
  /\ e \in Enrolled' /\ tariffMode' = tariffMode
  /\ enrollment'[e].start = enrollment[e].start
  /\ enrollment'[e].mode = enrollment[e].mode

LEMMA PeriodsStay ==
  ASSUME BillsInv, BillsInv', NEW e \in Enrolled, Kept(e),
         NEW start, NEW end, PeriodOf(e, start, end)
  PROVE  PeriodOf(e, start, end)'
<1>1. /\ enrollment[e] \in EnrollmentRow /\ enrollment'[e] \in EnrollmentRow
      /\ enrollment'[e].start = enrollment[e].start
      /\ enrollment'[e].mode = enrollment[e].mode
  BY DEF Kept, Enrolled, BillsInv, BillingTypeOK
<1> PICK i : i = input(e)
  OBVIOUS
<1> PICK j : j = input(e)'
  OBVIOUS
<1>2. /\ i.start = enrollment[e].start
      /\ i.mode = IF enrollment[e].mode = None THEN tariffMode ELSE enrollment[e].mode
  BY <1>1 DEF input, EnrollmentRow
<1>3. /\ j.start = enrollment'[e].start
      /\ j.mode = IF enrollment'[e].mode = None THEN tariffMode' ELSE enrollment'[e].mode
  BY <1>1 DEF input, EnrollmentRow
<1>4. i.start = j.start /\ i.mode = j.mode
  BY <1>1, <1>2, <1>3 DEF Kept
<1>5. /\ numbers(i) = numbers(j)
      /\ \A k : naturalPeriod(i, k) = naturalPeriod(j, k)
  BY <1>4, SamePeriods
<1>6. \E k \in numbers(i) : /\ start = naturalPeriod(i, k).start
                            /\ end <= naturalPeriod(i, k).end
  BY DEF PeriodOf
<1>7. \E k \in numbers(j) : /\ start = naturalPeriod(j, k).start
                            /\ end <= naturalPeriod(j, k).end
  BY <1>5, <1>6
<1> QED  BY <1>7 DEF PeriodOf

(* A step that keeps the terms that periods follow from, and bills or is   *)
(* going to bill nothing but periods.                                      *)
LEMMA DaysStep ==
  ASSUME DaysInv, BillsInv', EnrollsAlone', \A e \in Enrolled : Kept(e),
         \A e \in Enrollments : \A s \in Days :
           billed'[e][s] # None =>
             \/ billed'[e][s] = billed[e][s]
             \/ e \in Enrolled /\ PeriodOf(e, s, billed'[e][s].end),
         \A v \in Workers : task'[v] = task[v] \/ TaskBills(task'[v])
  PROVE  DaysInv'
<1>1. \A e \in Enrolled : \A start, end : PeriodOf(e, start, end) => PeriodOf(e, start, end)'
  BY PeriodsStay DEF DaysInv
<1>2. RowsOfPeriods'
  <2> SUFFICES ASSUME NEW e \in Enrollments, NEW s \in Days, billed'[e][s] # None
               PROVE  e \in Enrolled' /\ PeriodOf(e, s, billed[e][s].end)'
    BY DEF RowsOfPeriods
  <2> PICK end : end = billed'[e][s].end
    OBVIOUS
  <2>1. e \in Enrolled /\ PeriodOf(e, s, end)
    BY DEF DaysInv, RowsOfPeriods
  <2>2. e \in Enrolled' /\ PeriodOf(e, s, end)'
    BY <1>1, <2>1 DEF Kept
  <2> QED  BY <2>2 DEF PeriodOf
<1>3. ASSUME NEW v \in Workers PROVE TaskBills(task[v])'
  <2> PICK t : t = task'[v]
    OBVIOUS
  <2>1. TaskBills(t)
    BY DEF DaysInv
  <2>2. \A e \in Enrolled : \A b : PeriodBill(e, b) => e \in Enrolled' /\ PeriodBill(e, b)'
    BY <1>1 DEF PeriodBill, Kept
  <2>3. TaskBills(t)'
    BY <2>1, <2>2 DEF TaskBills
  <2> QED  BY <2>3 DEF TaskBills
<1> QED  BY <1>2, <1>3 DEF DaysInv

(* What the enrollments that are in a request's hands need of a step.      *)
LEMMA EnrollsStay ==
  ASSUME DaysInv,
         \A v \in Workers : \/ task'[v] = task[v]
                            \/ task'[v] = None
                            \/ task'[v].op # "enroll",
         \A e \in Enrollments : enrollment[e] = None => enrollment'[e] = None
  PROVE  EnrollsAlone'
<1>1. \A v \in Workers : Doing(v, "enroll")' => Doing(v, "enroll") /\ task'[v] = task[v]
  BY DEF Doing, Idle
<1>2. ASSUME NEW v \in Workers, Doing(v, "enroll") PROVE task[v].enrollment \in Enrollments
  BY <1>2, TaskRows DEF Doing, Idle, TaskOK, Task, DaysInv, BillsInv
<1> QED  BY <1>1, <1>2 DEF DaysInv, EnrollsAlone

LEMMA AllKept ==
  ASSUME DaysInv, UNCHANGED <<tariffMode, enrollment>>
  PROVE  \A e \in Enrolled : Kept(e)
BY DEF Enrolled, Kept

(* A step of a worker that leaves the enrollments and the bills alone.     *)
LEMMA WorkerDays ==
  ASSUME DaysInv, BillsInv', NEW w \in Workers, NEW t,
         task' = [task EXCEPT ![w] = t], UNCHANGED <<tariffMode, enrollment, billed>>,
         t = None \/ t.op # "enroll", TaskBills(t)
  PROVE  DaysInv'
<1>1. \A v \in Workers : task'[v] = IF v = w THEN t ELSE task[v]
  BY DEF DaysInv, BillsInv, BillingTypeOK
<1>2. EnrollsAlone'
  BY <1>1, EnrollsStay
<1> QED  BY <1>1, <1>2, AllKept, DaysStep

LEMMA BeginTermsDays ==
  ASSUME DaysInv, BillsInv', NEW w \in Workers,
         \/ \E m \in Modes : BeginSetMode(w, m)
         \/ \E e \in Enrollments, day \in EndDays : BeginEnd(w, e, day)
         \/ \E e \in Enrollments, row \in AdjustmentRows : BeginAdjust(w, e, row)
         \/ Adjust(w) \/ EndRun(w) \/ GiveUp(w)
  PROVE  DaysInv'
<1>1. UNCHANGED <<tariffMode, enrollment, billed>>
  BY DEF BeginSetMode, BeginEnd, BeginAdjust, Adjust, EndRun, GiveUp, terms, bills
<1>2. \E t : /\ task' = [task EXCEPT ![w] = t]
             /\ t = None \/ t.op \in {"setMode", "end", "adjust"}
  BY DEF BeginSetMode, BeginEnd, BeginAdjust, Adjust, EndRun, GiveUp, Begin, Done
<1> PICK t : /\ task' = [task EXCEPT ![w] = t]
             /\ t = None \/ t.op \in {"setMode", "end", "adjust"}
  BY <1>2
<1>3. TaskBills(t)
  BY DEF TaskBills
<1> QED  BY <1>1, <1>3, WorkerDays

LEMMA BeginEnrollDays ==
  ASSUME DaysInv, BillsInv', NEW w \in Workers, NEW e \in Enrollments,
         NEW row \in EnrollmentRows, BeginEnroll(w, e, row)
  PROVE  DaysInv'
<1> PICK t : t = [op |-> "enroll", enrollment |-> e, row |-> row]
  OBVIOUS
<1>1. /\ enrollment[e] = None /\ \A v \in Workers : ~Doing(v, "enroll")
      /\ UNCHANGED <<tariffMode, enrollment, billed>>
      /\ task' = [task EXCEPT ![w] = t]
  BY DEF BeginEnroll, Begin, terms, bills
<1>2. \A v \in Workers : task'[v] = IF v = w THEN t ELSE task[v]
  BY <1>1 DEF DaysInv, BillsInv, BillingTypeOK
<1>3. t.op = "enroll" /\ t.enrollment = e
  OBVIOUS
<1>4. \A v \in Workers : Doing(v, "enroll")' => v = w
  BY <1>1, <1>2 DEF Doing, Idle
<1>5. EnrollsAlone'
  BY <1>1, <1>2, <1>3, <1>4 DEF EnrollsAlone
<1>6. TaskBills(t)
  BY <1>3 DEF TaskBills
<1> QED  BY <1>1, <1>2, <1>5, <1>6, AllKept, DaysStep

LEMMA SetModeDays ==
  ASSUME DaysInv, BillsInv', NEW w \in Workers, SetMode(w),
         Enrolled # {} => tariffMode' = tariffMode
  PROVE  DaysInv'
<1>1. /\ UNCHANGED <<enrollment, billed>> /\ task' = [task EXCEPT ![w] = None]
  BY DEF SetMode, Done, bills
<1>2. \A v \in Workers : task'[v] = IF v = w THEN None ELSE task[v]
  BY <1>1 DEF DaysInv, BillsInv, BillingTypeOK
<1>3. EnrollsAlone'
  BY <1>1, <1>2, EnrollsStay
<1>4. \A e \in Enrolled : Kept(e)
  BY <1>1 DEF Kept, Enrolled
<1>5. TaskBills(None)
  BY DEF TaskBills
<1> QED  BY <1>1, <1>2, <1>3, <1>4, <1>5, DaysStep

LEMMA EnrollDays ==
  ASSUME DaysInv, BillsInv', NEW w \in Workers, Enroll(w)
  PROVE  DaysInv'
<1> PICK e : e = task[w].enrollment
  OBVIOUS
<1>1. /\ enrollment' = [enrollment EXCEPT ![e] = task[w].row]
      /\ UNCHANGED <<tariffMode, billed>> /\ task' = [task EXCEPT ![w] = None]
      /\ Doing(w, "enroll")
  BY DEF Enroll, Done, bills
<1>2. \A v \in Workers : task'[v] = IF v = w THEN None ELSE task[v]
  BY <1>1 DEF DaysInv, BillsInv, BillingTypeOK
<1>3. \A v \in Workers : ~Doing(v, "enroll")'
  BY <1>1, <1>2 DEF DaysInv, EnrollsAlone, Doing, Idle
<1>4. EnrollsAlone'
  BY <1>3 DEF EnrollsAlone
<1>5. enrollment[e] = None
  BY <1>1 DEF DaysInv, EnrollsAlone
<1>6. \A f \in Enrolled : Kept(f)
  BY <1>1, <1>5 DEF Kept, Enrolled, DaysInv, BillsInv, BillingTypeOK
<1>7. TaskBills(None)
  BY DEF TaskBills
<1> QED  BY <1>1, <1>2, <1>4, <1>6, <1>7, DaysStep

LEMMA EndDaysStep ==
  ASSUME DaysInv, BillsInv', NEW w \in Workers, End(w)
  PROVE  DaysInv'
<1>1. Doing(w, "end") /\ TaskKnows(task[w])
  BY DEF End, DaysInv, BillsInv
<1>2. task[w].enrollment \in Enrolled
  BY <1>1 DEF TaskKnows, Doing, Idle
<1> PICK e \in Enrolled : e = task[w].enrollment
  BY <1>2
<1> PICK row : row = [enrollment[e] EXCEPT !.end = task[w].day]
  OBVIOUS
<1>3. enrollment[e] \in EnrollmentRow /\ e \in Enrollments
  BY InputOf DEF DaysInv
<1>4. row.start = enrollment[e].start /\ row.mode = enrollment[e].mode
  BY <1>3 DEF EnrollmentRow
<1>5. /\ enrollment' = [enrollment EXCEPT ![e] = row]
      /\ UNCHANGED <<tariffMode, billed>> /\ task' = [task EXCEPT ![w] = None]
  BY DEF End, Done, bills
<1>6. \A v \in Workers : task'[v] = IF v = w THEN None ELSE task[v]
  BY <1>5 DEF DaysInv, BillsInv, BillingTypeOK
<1>7. \A f \in Enrollments : enrollment'[f] = IF f = e THEN row ELSE enrollment[f]
  BY <1>3, <1>5 DEF DaysInv, BillsInv, BillingTypeOK
<1>8. enrollment'[e] # None
  <2>1. enrollment'[e] = row
    BY <1>3, <1>7
  <2>2. row \in EnrollmentRow
    <3>1. task[w].day \in Days
      BY <1>1, TaskRows DEF Doing, Idle, TaskOK, Task, DaysInv, BillsInv
    <3> QED  BY <1>3, <3>1 DEF EnrollmentRow
  <2> QED  BY <2>1, <2>2, InputAssumption
<1>9. \A f \in Enrolled : Kept(f)
  BY <1>3, <1>4, <1>5, <1>7, <1>8 DEF Kept, Enrolled
<1>10. EnrollsAlone'
  <2>1. \A f \in Enrollments : enrollment[f] = None => enrollment'[f] = None
    BY <1>7 DEF Enrolled
  <2> QED  BY <1>6, <2>1, EnrollsStay
<1>11. TaskBills(None)
  BY DEF TaskBills
<1> QED  BY <1>5, <1>6, <1>9, <1>10, <1>11, DaysStep

(* Requests that take one step, and the calendar.                          *)
LEMMA OneStepDays ==
  ASSUME DaysInv, BillsInv', UNCHANGED <<tariffMode, enrollment, billed, task>>
  PROVE  DaysInv'
<1>1. EnrollsAlone'
  BY EnrollsStay
<1> QED  BY <1>1, AllKept, DaysStep

LEMMA BeginBillsDays ==
  ASSUME DaysInv, BillsInv', NEW w \in Workers,
         BeginRun(w) \/ \E e \in Enrollments : BeginBill(w, e)
  PROVE  DaysInv'
<1>1. UNCHANGED <<tariffMode, enrollment, billed>>
  BY DEF BeginRun, BeginBill, terms, bills
<1>2. \E todo \in SUBSET UNION {due(e) : e \in Enrolled} :
        task' = [task EXCEPT ![w] = [op |-> "run", todo |-> todo]]
  BY DEF BeginRun, BeginBill, Begin
<1> PICK todo \in SUBSET UNION {due(e) : e \in Enrolled} :
      task' = [task EXCEPT ![w] = [op |-> "run", todo |-> todo]]
  BY <1>2
<1> PICK t : t = [op |-> "run", todo |-> todo]
  OBVIOUS
<1>3. t.op = "run" /\ t.todo = todo /\ task' = [task EXCEPT ![w] = t]
  OBVIOUS
<1>4. \A d \in todo : d.enrollment \in Enrolled /\ PeriodBill(d.enrollment, d.bill)
  <2> TAKE d \in todo
  <2> PICK e \in Enrolled : d \in due(e)
    OBVIOUS
  <2> QED  BY DueOf DEF DaysInv
<1>5. TaskBills(t)
  BY <1>3, <1>4 DEF TaskBills
<1> QED  BY <1>1, <1>3, <1>5, WorkerDays

(* A run that has less to do, after a bill or after an error.              *)
LEMMA LessToDo ==
  ASSUME DaysInv, NEW w \in Workers, Doing(w, "run"), NEW less \in SUBSET task[w].todo,
         NEW t, t = [task[w] EXCEPT !.todo = less]
  PROVE  t.op = "run" /\ TaskBills(t)
<1>1. task[w] \in [op: {"run"}, todo: SUBSET DueBill]
  BY TaskRows DEF Doing, Idle, TaskOK, Task, DaysInv, BillsInv
<1>2. t.op = "run" /\ t.todo = less /\ task[w].op = "run" /\ task[w] # None
  BY <1>1 DEF Doing, Idle
<1>3. TaskBills(task[w])
  BY DEF DaysInv
<1> QED  BY <1>2, <1>3 DEF TaskBills

LEMMA FailEnrollmentDays ==
  ASSUME DaysInv, BillsInv', NEW w \in Workers, NEW e \in Enrollments,
         FailEnrollment(w, e)
  PROVE  DaysInv'
<1> PICK t : t = [task[w] EXCEPT !.todo = {d \in task[w].todo : d.enrollment # e}]
  OBVIOUS
<1>1. t.op = "run" /\ TaskBills(t)
  BY LessToDo DEF FailEnrollment
<1>2. task' = [task EXCEPT ![w] = t] /\ UNCHANGED <<tariffMode, enrollment, billed>>
  BY DEF FailEnrollment, terms, bills
<1> QED  BY <1>1, <1>2, WorkerDays

(* A step that bills one period.                                           *)
LEMMA BilledDays ==
  ASSUME DaysInv, BillsInv', NEW w \in Workers, NEW t,
         task' = [task EXCEPT ![w] = t], t = None \/ t.op # "enroll", TaskBills(t),
         UNCHANGED <<tariffMode, enrollment>>,
         NEW e \in Enrolled, NEW s \in Days, NEW row, PeriodOf(e, s, row.end),
         billed' = [billed EXCEPT ![e][s] = row]
  PROVE  DaysInv'
<1>1. \A v \in Workers : task'[v] = IF v = w THEN t ELSE task[v]
  BY DEF DaysInv, BillsInv, BillingTypeOK
<1>2. EnrollsAlone'
  BY <1>1, EnrollsStay
<1>3. \A f \in Enrollments : \A u \in Days :
        billed'[f][u] = IF f = e /\ u = s THEN row ELSE billed[f][u]
  BY DEF DaysInv, BillsInv, BillingTypeOK
<1> QED  BY <1>1, <1>2, <1>3, AllKept, DaysStep

LEMMA BillNextDays ==
  ASSUME DaysInv, BillsInv', NEW w \in Workers, NEW d, BillNext(w, d)
  PROVE  DaysInv'
<1>1. Doing(w, "run") /\ d \in task[w].todo
  BY DEF BillNext
<1> PICK t : t = [task[w] EXCEPT !.todo = task[w].todo \ {d}]
  OBVIOUS
<1>2. t.op = "run" /\ TaskBills(t)
  BY <1>1, LessToDo
<1>3. task' = [task EXCEPT ![w] = t] /\ UNCHANGED <<tariffMode, enrollment>>
  BY DEF BillNext, terms
<1>4. /\ d.enrollment \in Enrolled /\ PeriodBill(d.enrollment, d.bill)
      /\ d.bill.start \in Days
  <2>1. TaskBills(task[w]) /\ d \in DueBill
    BY <1>1, RunTask DEF DaysInv
  <2> QED  BY <1>1, <2>1 DEF TaskBills, Doing, Idle, DueBill, Bill
<1> PICK e \in Enrolled, s \in Days : e = d.enrollment /\ s = d.bill.start
  BY <1>4
<1>5. CASE billed[e][s] # None
  <2>1. UNCHANGED billed
    BY <1>5 DEF BillNext, bills
  <2> QED  BY <1>2, <1>3, <2>1, WorkerDays
<1>6. CASE billed[e][s] = None
  <2> PICK row : row = [end |-> d.bill.end, amount |-> d.bill.amount,
                        charge |-> ChargeOf(charge[e][s], d.bill.amount)]
    OBVIOUS
  <2>1. billed' = [billed EXCEPT ![e][s] = row]
    BY <1>6 DEF BillNext
  <2>2. PeriodOf(e, s, row.end)
    BY <1>4 DEF PeriodBill
  <2> QED  BY <1>2, <1>3, <2>1, <2>2, BilledDays
<1> QED  BY <1>5, <1>6

LEMMA BeginRecalculateDays ==
  ASSUME DaysInv, BillsInv', NEW w \in Workers, NEW e \in Enrollments, NEW s \in Days,
         BeginRecalculate(w, e, s)
  PROVE  DaysInv'
<1>1. BillsInv
  BY DEF DaysInv
<1> PICK b \in Bill :
      /\ task' = [task EXCEPT ![w] =
           [op |-> "recalculate", enrollment |-> e, bill |-> b]]
      /\ b.start = s /\ billed[e][s] # None /\ e \in Enrolled
      /\ PeriodBill(e, b) \/ b.end = billed[e][s].end
  BY <1>1, RecalculatedOf
<1> PICK t : t = [op |-> "recalculate", enrollment |-> e, bill |-> b]
  OBVIOUS
<1>2. /\ t.op = "recalculate" /\ t.enrollment = e /\ t.bill = b
      /\ task' = [task EXCEPT ![w] = t]
  OBVIOUS
<1>3. PeriodBill(e, b)
  BY DEF DaysInv, RowsOfPeriods, PeriodBill
<1>4. TaskBills(t)
  BY <1>2, <1>3 DEF TaskBills
<1>5. UNCHANGED <<tariffMode, enrollment, billed>>
  BY DEF BeginRecalculate, terms, bills
<1> QED  BY <1>2, <1>4, <1>5, WorkerDays

LEMMA RecalculateDays ==
  ASSUME DaysInv, BillsInv', NEW w \in Workers, Recalculate(w)
  PROVE  DaysInv'
<1>1. task[w] \in [op: {"recalculate"}, enrollment: Enrollments, bill: Bill]
  BY TaskRows DEF Recalculate, Doing, Idle, TaskOK, Task, DaysInv, BillsInv
<1>2. /\ task[w].enrollment \in Enrolled
      /\ PeriodBill(task[w].enrollment, task[w].bill)
  <2>1. TaskBills(task[w]) /\ Doing(w, "recalculate")
    BY DEF DaysInv, Recalculate
  <2> QED  BY <2>1 DEF TaskBills, Doing, Idle
<1> PICK e \in Enrolled, b \in Bill : e = task[w].enrollment /\ b = task[w].bill
  BY <1>1, <1>2
<1> PICK row : row = [end |-> b.end, amount |-> b.amount,
                      charge |-> ChargeOf(VoidCharges(charge[e][b.start],
                                            billed[e][b.start].charge), b.amount)]
  OBVIOUS
<1>3. /\ billed' = [billed EXCEPT ![e][b.start] = row]
      /\ task' = [task EXCEPT ![w] = None] /\ UNCHANGED <<tariffMode, enrollment>>
  BY DEF Recalculate, Done, terms
<1>4. PeriodOf(e, b.start, row.end) /\ b.start \in Days
  BY <1>2 DEF PeriodBill, Bill
<1>5. TaskBills(None)
  BY DEF TaskBills
<1> QED  BY <1>3, <1>4, <1>5, BilledDays

(* The mode of a tariff with enrollments does not change.                  *)
ModeKept == Enrolled # {} => tariffMode' = tariffMode

LEMMA NextDays ==
  DaysInv /\ [BillingNext]_billingVars /\ [ModeKept]_billingVars => DaysInv'
<1> SUFFICES ASSUME DaysInv, [BillingNext]_billingVars, [ModeKept]_billingVars
             PROVE  DaysInv'
  OBVIOUS
<1>1. BillsInv'
  BY NextBills DEF DaysInv
<1>2. ModeKept
  BY DEF ModeKept, billingVars, terms
<1>3. ASSUME NEW w \in Workers, Terms(w) PROVE DaysInv'
  BY <1>1, <1>2, <1>3, BeginTermsDays, SetModeDays, BeginEnrollDays, EnrollDays,
     EndDaysStep DEF Terms, ModeKept
<1>4. ASSUME NEW w \in Workers, Billing(w) PROVE DaysInv'
  BY <1>1, <1>4, BeginBillsDays, BillNextDays, FailEnrollmentDays, BeginTermsDays,
     BeginRecalculateDays, RecalculateDays DEF Billing
<1>5. ASSUME \/ \E row \in PriceRows : AddPrice(row)
             \/ \E e \in Enrollments, n \in 1..MaxAdjustments : VoidAdjustment(e, n)
             \/ \E e \in Enrollments, s \in Days, n \in 1..MaxCharges : VoidCharge(e, s, n)
             \/ \E days \in LeadDays : SetLeadDays(days)
             \/ NextDay \/ UNCHANGED billingVars
      PROVE  DaysInv'
  <2>1. UNCHANGED <<tariffMode, enrollment, billed, task>>
    BY <1>5 DEF AddPrice, VoidAdjustment, VoidCharge, SetLeadDays, NextDay,
                billingVars, terms, bills
  <2> QED  BY <1>1, <2>1, OneStepDays
<1> QED  BY <1>1, <1>3, <1>4, <1>5, BeginTermsDays DEF BillingNext

(***************************************************************************)
(* Neither a period nor a day of an enrollment is billed twice, whatever   *)
(* runs, requests and recalculations meet and however often its end is     *)
(* moved between them (charging.service.ts), as long as a tariff with      *)
(* enrollments keeps its mode.  TariffsService.update checks that before   *)
(* it writes, but not in the same transaction: an enrollment that is       *)
(* created in between changes its mode with the tariff, and its periods    *)
(* with the mode.                                                          *)
(***************************************************************************)
THEOREM BilledOnce ==
  BillingSpec /\ [][ModeKept]_billingVars => []NothingBilledTwice
<1>1. DaysInv => NothingBilledTwice
  BY BillsOneCharge, DaysNoneTwice DEF NothingBilledTwice, DaysInv
<1> QED  BY InitDays, NextDays, <1>1, PTL DEF BillingSpec

-----------------------------------------------------------------------------
(* The periods of an enrollment tile its days                              *)

LEMMA MonthIs ==
  ASSUME NEW d \in Days, NEW m \in 1..L, monthStart[m] <= d, d < monthStart[m + 1]
  PROVE  monthOf(d) = m
<1> PICK n \in Nat : n = monthOf(d)
  BY MonthOfDay, Calendar
<1>1. /\ n \in 1..L - 1 /\ monthStart[n] <= d /\ d < monthStart[n + 1]
  BY MonthOfDay
<1>2. /\ n \in 1..L + 1 /\ n + 1 \in 1..L + 1 /\ m \in 1..L + 1 /\ m + 1 \in 1..L + 1
      /\ m \in Nat
  BY <1>1, Calendar
<1>3. /\ monthStart[n] \in Nat /\ monthStart[n + 1] \in Nat
      /\ monthStart[m] \in Nat /\ monthStart[m + 1] \in Nat /\ d \in Nat
  BY <1>2, StartsGrow, LastDays
<1>4. CASE n < m
  <2>1. n + 1 = m \/ n + 1 < m
    BY <1>2, <1>4
  <2>2. monthStart[n + 1] <= monthStart[m]
    BY <2>1, <1>2, <1>3, StartsGrow
  <2> QED  BY <2>2, <1>1, <1>3
<1>5. CASE m < n
  <2>1. m + 1 = n \/ m + 1 < n
    BY <1>2, <1>5
  <2>2. monthStart[m + 1] <= monthStart[n]
    BY <2>1, <1>2, <1>3, StartsGrow
  <2> QED  BY <2>2, <1>1, <1>3
<1> QED  BY <1>4, <1>5, <1>2

(* A period starts in its own month, the first on the first day.           *)
LEMMA PeriodStarts ==
  ASSUME NEW e \in Input, NEW k \in numbers(e)
  PROVE  /\ monthOf(naturalPeriod(e, k).start) = monthOf(e.start) + k
         /\ k = 0 => naturalPeriod(e, k).start = e.start
         /\ e.start <= naturalPeriod(e, k).start
<1> PICK first \in Nat, anchor \in Int, m \in Int :
      /\ first = monthOf(e.start) /\ anchor = e.start - monthStart[first] + 1
      /\ m = first + k
  <2>1. monthOf(e.start) \in 1..L - 1 /\ e.start \in Int
    BY MonthOfDay, LastDays DEF Input
  <2>2. monthOf(e.start) \in Nat /\ monthStart[monthOf(e.start)] \in Int /\ k \in Int
    BY <2>1, StartsGrow, Calendar DEF numbers
  <2> QED  BY <2>1, <2>2
<1>1. /\ first \in 1..L - 1 /\ m \in 1..L - 1
      /\ naturalPeriod(e, k).start \in Days /\ naturalPeriod(e, k).start \in Nat
      /\ e.start \in Days /\ e.start \in Nat
      /\ monthStart[first] <= e.start /\ e.start < monthStart[first + 1]
  BY MonthOfDay, NaturalPeriods, LastDays DEF Input
<1>2. /\ first \in CalendarMonths /\ first \in 1..L + 1 /\ m \in 1..L /\ m \in CalendarMonths
      /\ m \in 1..L + 1 /\ m + 1 \in 1..L + 1 /\ m < m + 1 /\ k \in Nat
      /\ k # 0 => first < m
  <2>1. first \in 1..L - 1 /\ m \in 1..L - 1
    BY <1>1
  <2>2. k \in Nat
    BY CalendarLength DEF numbers
  <2> QED  BY <2>1, <2>2, CalendarLength
<1>3. /\ monthStart[first] \in Nat \ {0} /\ monthStart[m] \in Nat \ {0}
      /\ monthStart[m + 1] \in Nat \ {0} /\ monthStart[m] < monthStart[m + 1]
      /\ monthStart[first + 1] = monthStart[first] + MonthDays[first]
      /\ MonthDays[first] \in Nat \ {0}
  BY <1>2, StartsGrow, Starts, Calendar
<1>4. /\ monthStart[m] <= naturalPeriod(e, k).start
      /\ naturalPeriod(e, k).start < monthStart[m + 1]
      /\ k = 0 => naturalPeriod(e, k).start = e.start
  <2>1. CASE e.mode = "anniversary"
    <3>1. naturalPeriod(e, k).start = monthDay(m, anchor)
      BY <2>1 DEF naturalPeriod
    <3>2. anchor \in Nat \ {0}
      BY <1>1, <1>3
    <3>3. ASSUME k = 0 PROVE monthDay(m, anchor) = e.start
      <4>1. m = first /\ anchor <= MonthDays[first]
        BY <3>3, <1>1, <1>3
      <4> QED  BY <4>1, <1>1, <1>3 DEF monthDay, minDay
    <3> QED  BY <3>1, <3>2, <3>3, <1>2, MonthDays1
  <2>2. CASE e.mode # "anniversary"
    <3>1. naturalPeriod(e, k).start = IF k = 0 THEN e.start ELSE monthStart[m]
      BY <2>2 DEF naturalPeriod
    <3>2. k = 0 => m = first
      OBVIOUS
    <3> QED  BY <3>1, <3>2, <1>1, <1>3
  <2> QED  BY <2>1, <2>2
<1>5. monthOf(naturalPeriod(e, k).start) = m
  BY <1>1, <1>2, <1>4, MonthIs
<1>6. e.start <= naturalPeriod(e, k).start
  <2>1. CASE k = 0
    BY <2>1, <1>1, <1>4
  <2>2. CASE k # 0
    <3>1. first + 1 = m \/ first + 1 < m
      BY <2>2, <1>2
    <3>2. first + 1 \in 1..L + 1 /\ monthStart[first + 1] \in Nat
      <4>1. first + 1 \in 1..L + 1
        BY <1>1, Calendar
      <4> QED  BY <4>1, StartsGrow
    <3>3. monthStart[first + 1] <= monthStart[m]
      <4>1. CASE first + 1 = m
        BY <4>1, <1>3
      <4>2. CASE first + 1 < m
        <5>1. monthStart[first + 1] < monthStart[m]
          BY <4>2, <3>2, <1>2, StartsGrow
        <5> QED  BY <5>1, <3>2, <1>3
      <4> QED  BY <3>1, <4>1, <4>2
    <3> QED  BY <3>2, <3>3, <1>1, <1>3, <1>4
  <2> QED  BY <2>1, <2>2
<1> QED  BY <1>4, <1>5, <1>6

(* Each day from the first on is in a period.                              *)
LEMMA PeriodOfDay ==
  ASSUME NEW e \in Input, NEW d \in Days, e.start <= d
  PROVE  \E k \in numbers(e) : naturalPeriod(e, k).start <= d /\ d <= naturalPeriod(e, k).end
<1> PICK first \in Nat, anchor \in Int, m \in Int :
      /\ first = monthOf(e.start) /\ anchor = e.start - monthStart[first] + 1
      /\ m = monthOf(d)
  <2>1. monthOf(e.start) \in 1..L - 1 /\ e.start \in Int /\ monthOf(d) \in 1..L - 1
    BY MonthOfDay, LastDays DEF Input
  <2>2. monthOf(e.start) \in Nat /\ monthStart[monthOf(e.start)] \in Int
    BY <2>1, StartsGrow, Calendar
  <2> QED  BY <2>1, <2>2
<1>1. /\ first \in 1..L - 1 /\ m \in 1..L - 1 /\ d \in Nat
      /\ e.start \in Days /\ e.start \in Nat
      /\ monthStart[first] <= e.start /\ e.start < monthStart[first + 1]
      /\ monthStart[m] <= d /\ d < monthStart[m + 1]
  BY MonthOfDay, LastDays DEF Input
<1>2. /\ first \in 1..L + 1 /\ m \in 1..L /\ m + 1 \in 1..L /\ m \in 1..L + 1
      /\ m + 1 \in 1..L + 1 /\ (m + 1) + 1 \in 1..L + 1
  <2>1. first \in 1..L - 1 /\ m \in 1..L - 1
    BY <1>1
  <2> QED  BY <2>1, CalendarLength
<1>3. /\ monthStart[first] \in Nat \ {0} /\ monthStart[m] \in Nat \ {0}
      /\ monthStart[m + 1] \in Nat \ {0} /\ anchor \in Nat \ {0}
  BY <1>1, <1>2, StartsGrow
<1>4. first <= m
  <2>1. SUFFICES ASSUME m < first PROVE FALSE
    BY <1>1
  <2>2. m + 1 = first \/ m + 1 < first
    BY <2>1, <1>1
  <2>3. monthStart[m + 1] <= monthStart[first]
    BY <2>2, <1>2, <1>3, StartsGrow
  <2> QED  BY <2>3, <1>1, <1>3
<1>5. m - first \in numbers(e) /\ first + (m - first) = m /\ 0 \in numbers(e)
  BY <1>1, <1>4, Calendar DEF numbers
<1>6. naturalPeriod(e, 0).start = e.start
  BY <1>5, PeriodStarts
<1>7. CASE e.mode # "anniversary"
  <2>1. /\ naturalPeriod(e, m - first).end = monthStart[m + 1] - 1
        /\ naturalPeriod(e, m - first).start = IF m - first = 0 THEN e.start ELSE monthStart[m]
    BY <1>5, <1>7 DEF naturalPeriod
  <2>2. /\ naturalPeriod(e, m - first).start <= d
        /\ d <= naturalPeriod(e, m - first).end
    BY <2>1, <1>1, <1>3
  <2> QED  BY <1>5, <2>2
<1>8. CASE e.mode = "anniversary"
  <2>1. /\ monthDay(m, anchor) \in Nat
        /\ monthDay(m + 1, anchor) \in Nat /\ monthStart[m + 1] <= monthDay(m + 1, anchor)
    BY <1>2, <1>3, MonthDays1
  <2>2. CASE monthDay(m, anchor) <= d
    <3>1. /\ naturalPeriod(e, m - first).start = monthDay(m, anchor)
          /\ naturalPeriod(e, m - first).end = monthDay(m + 1, anchor) - 1
      BY <1>5, <1>8 DEF naturalPeriod
    <3>2. /\ naturalPeriod(e, m - first).start <= d
          /\ d <= naturalPeriod(e, m - first).end
      BY <3>1, <2>1, <2>2, <1>1, <1>3
    <3> QED  BY <1>5, <3>2
  <2>3. CASE d < monthDay(m, anchor)
    <3>1. m # first
      <4>1. first + 0 = first
        OBVIOUS
      <4>2. naturalPeriod(e, 0).start = monthDay(first, anchor)
        BY <4>1, <1>8 DEF naturalPeriod
      <4> QED  BY <4>2, <2>3, <2>1, <1>1, <1>6
    <3>2. PICK n \in Int : n = m - 1
      OBVIOUS
    <3>3. /\ n - first \in numbers(e) /\ first + (n - first) = n /\ n + 1 = m
          /\ n \in 1..L
      BY <3>1, <3>2, <1>1, <1>4, Calendar DEF numbers
    <3>4. /\ naturalPeriod(e, n - first).start = monthDay(n, anchor)
          /\ naturalPeriod(e, n - first).end = monthDay(m, anchor) - 1
      BY <3>3, <1>8 DEF naturalPeriod
    <3>5. monthDay(n, anchor) \in Nat /\ monthDay(n, anchor) < monthStart[m]
      BY <3>3, <1>3, MonthDays1
    <3>6. /\ naturalPeriod(e, n - first).start <= d
          /\ d <= naturalPeriod(e, n - first).end
      BY <3>4, <3>5, <2>1, <2>3, <1>1, <1>3
    <3> QED  BY <3>3, <3>6
  <2> QED  BY <2>1, <2>2, <2>3, <1>1
<1> QED  BY <1>7, <1>8

AllOf(e) == periodsUntil(e, monthStart[Len(MonthDays)] - 1)

LEMMA AllPeriods ==
  ASSUME NEW e \in Input
  PROVE  /\ \A p \in AllOf(e) : \E k \in numbers(e) :
              /\ p.start = naturalPeriod(e, k).start /\ p.end = periodEnd(e, k)
              /\ p.fullDays = fullDays(e, k) /\ p.isFirst = (k = 0)
              /\ e.end = None \/ p.start <= e.end
         /\ \A k \in numbers(e) :
              e.end = None \/ naturalPeriod(e, k).start <= e.end =>
                \E p \in AllOf(e) :
                  p.start = naturalPeriod(e, k).start /\ p.end = periodEnd(e, k)
         /\ \A p, q \in AllOf(e) : p.start = q.start => p = q
<1>1. \A k \in numbers(e) : naturalPeriod(e, k).start <= monthStart[Len(MonthDays)] - 1
  BY NaturalPeriods, LastDays DEF Days
<1>2. AllOf(e) =
        {[start |-> naturalPeriod(e, k).start, end |-> periodEnd(e, k),
          fullDays |-> fullDays(e, k), isFirst |-> k = 0] :
           k \in {j \in numbers(e) :
                    /\ naturalPeriod(e, j).start <= monthStart[Len(MonthDays)] - 1
                    /\ e.end = None \/ naturalPeriod(e, j).start <= e.end}}
  BY DEF AllOf, periodsUntil, numbers, L
<1>3. ASSUME NEW p \in AllOf(e)
      PROVE  \E k \in numbers(e) :
              /\ p = [start |-> naturalPeriod(e, k).start, end |-> periodEnd(e, k),
                      fullDays |-> fullDays(e, k), isFirst |-> k = 0]
              /\ e.end = None \/ naturalPeriod(e, k).start <= e.end
  BY <1>2
<1>4. ASSUME NEW k \in numbers(e), e.end = None \/ naturalPeriod(e, k).start <= e.end
      PROVE  [start |-> naturalPeriod(e, k).start, end |-> periodEnd(e, k),
              fullDays |-> fullDays(e, k), isFirst |-> k = 0] \in AllOf(e)
  BY <1>1, <1>2, <1>4
<1>5. ASSUME NEW p \in AllOf(e), NEW q \in AllOf(e), p.start = q.start PROVE p = q
  <2>1. PICK j \in numbers(e) :
          p = [start |-> naturalPeriod(e, j).start, end |-> periodEnd(e, j),
               fullDays |-> fullDays(e, j), isFirst |-> j = 0]
    BY <1>3
  <2>2. PICK k \in numbers(e) :
          q = [start |-> naturalPeriod(e, k).start, end |-> periodEnd(e, k),
               fullDays |-> fullDays(e, k), isFirst |-> k = 0]
    BY <1>3
  <2>3. naturalPeriod(e, j).start = naturalPeriod(e, k).start
    BY <2>1, <2>2, <1>5
  <2>4. monthOf(e.start) + j = monthOf(e.start) + k
    BY <2>3, PeriodStarts
  <2>5. j = k
    <3>1. monthOf(e.start) \in 1..L - 1
      BY MonthOfDay DEF Input
    <3>2. monthOf(e.start) \in Int /\ j \in Int /\ k \in Int
      BY <3>1 DEF numbers
    <3> QED  BY <2>4, <3>2
  <2> QED  BY <2>1, <2>2, <2>5
<1>6. ASSUME NEW p \in AllOf(e)
      PROVE  \E k \in numbers(e) :
               /\ p.start = naturalPeriod(e, k).start /\ p.end = periodEnd(e, k)
               /\ p.fullDays = fullDays(e, k) /\ p.isFirst = (k = 0)
               /\ e.end = None \/ p.start <= e.end
  <2> PICK k \in numbers(e) :
        /\ p = [start |-> naturalPeriod(e, k).start, end |-> periodEnd(e, k),
                fullDays |-> fullDays(e, k), isFirst |-> k = 0]
        /\ e.end = None \/ naturalPeriod(e, k).start <= e.end
    BY <1>3
  <2> QED  OBVIOUS
<1>7. ASSUME NEW k \in numbers(e), e.end = None \/ naturalPeriod(e, k).start <= e.end
      PROVE  \E p \in AllOf(e) :
               p.start = naturalPeriod(e, k).start /\ p.end = periodEnd(e, k)
  BY <1>4, <1>7
<1> QED  BY <1>5, <1>6, <1>7

(* A day is in one period if it is of the enrollment, and else in none.    *)
LEMMA DaysTile ==
  ASSUME NEW e \in Input, NEW d \in Days
  PROVE  Cardinality({p \in AllOf(e) : d \in p.start..p.end}) =
           IF e.start <= d /\ (e.end = None \/ d <= e.end) THEN 1 ELSE 0
<1> DEFINE on == {p \in AllOf(e) : d \in p.start..p.end}
<1>1. d \in Nat /\ e.start \in Nat /\ (e.end # None => e.end \in Nat)
  BY LastDays DEF Input
<1>2. \A k \in numbers(e) : /\ naturalPeriod(e, k).start \in Nat
                            /\ naturalPeriod(e, k).end \in Nat
                            /\ e.start <= naturalPeriod(e, k).start
  BY NaturalPeriods, LastDays, PeriodStarts
<1>3. \A k \in numbers(e) :
        /\ periodEnd(e, k) \in Nat /\ periodEnd(e, k) <= naturalPeriod(e, k).end
        /\ e.end # None => periodEnd(e, k) <= e.end
        /\ \A x \in Nat : x <= naturalPeriod(e, k).end /\ (e.end = None \/ x <= e.end)
                            => x <= periodEnd(e, k)
  BY <1>1, <1>2 DEF periodEnd
<1>4. CASE e.start <= d /\ (e.end = None \/ d <= e.end)
  <2>1. PICK k \in numbers(e) : naturalPeriod(e, k).start <= d /\ d <= naturalPeriod(e, k).end
    BY <1>4, PeriodOfDay
  <2>2. e.end = None \/ naturalPeriod(e, k).start <= e.end
    BY <2>1, <1>1, <1>2, <1>4
  <2>3. PICK p \in AllOf(e) : p.start = naturalPeriod(e, k).start /\ p.end = periodEnd(e, k)
    BY <2>2, AllPeriods
  <2>4. p \in on
    BY <2>1, <2>3, <1>1, <1>2, <1>3, <1>4
  <2>5. ASSUME NEW q \in on PROVE q = p
    <3>1. q \in AllOf(e) /\ d \in q.start..q.end
      OBVIOUS
    <3>2. PICK j \in numbers(e) :
            q.start = naturalPeriod(e, j).start /\ q.end = periodEnd(e, j)
      BY <3>1, AllPeriods
    <3>3. naturalPeriod(e, j).start <= d /\ d <= naturalPeriod(e, j).end
      BY <3>1, <3>2, <1>1, <1>2, <1>3
    <3>4. ~(j < k) /\ ~(k < j)
      BY <3>3, <2>1, <1>1, <1>2, PeriodsApart
    <3>5. j = k
      BY <3>4 DEF numbers
    <3> QED  BY <3>1, <3>2, <3>5, <2>3, AllPeriods
  <2>6. on = {p}
    BY <2>4, <2>5
  <2> HIDE DEF on
  <2>7. Cardinality(on) = 1
    BY <2>6, FS_Singleton
  <2> QED  BY <2>7, <1>4 DEF on
<1>5. CASE ~(e.start <= d /\ (e.end = None \/ d <= e.end))
  <2>1. ASSUME NEW p \in on PROVE FALSE
    <3>1. p \in AllOf(e) /\ d \in p.start..p.end
      OBVIOUS
    <3>2. PICK k \in numbers(e) :
            p.start = naturalPeriod(e, k).start /\ p.end = periodEnd(e, k)
      BY <3>1, AllPeriods
    <3> QED  BY <3>1, <3>2, <1>1, <1>2, <1>3, <1>5
  <2>2. on = {}
    BY <2>1
  <2> HIDE DEF on
  <2>3. Cardinality(on) = 0
    BY <2>2, FS_EmptySet
  <2> QED  BY <2>3, <1>5 DEF on
<1> QED  BY <1>4, <1>5

LEMMA BillsTile == BillsInv => PeriodsTile
<1> SUFFICES ASSUME BillsInv, NEW e \in Enrolled
             PROVE  /\ \A d \in Days :
                         Cardinality({p \in AllOf(input(e)) : d \in p.start..p.end}) =
                           IF /\ input(e).start <= d
                              /\ input(e).end = None \/ d <= input(e).end
                           THEN 1 ELSE 0
                    /\ \A p, q \in AllOf(input(e)) :
                         monthOf(p.start) = monthOf(q.start) => p = q
  BY DEF PeriodsTile, AllOf
<1>1. input(e) \in Input
  BY InputOf
<1>2. \A d \in Days :
        Cardinality({p \in AllOf(input(e)) : d \in p.start..p.end}) =
          IF /\ input(e).start <= d
             /\ input(e).end = None \/ d <= input(e).end
          THEN 1 ELSE 0
  BY <1>1, DaysTile
<1>3. ASSUME NEW p \in AllOf(input(e)), NEW q \in AllOf(input(e)),
             monthOf(p.start) = monthOf(q.start)
      PROVE  p = q
  <2>1. PICK j \in numbers(input(e)) : p.start = naturalPeriod(input(e), j).start
    BY <1>1, AllPeriods
  <2>2. PICK k \in numbers(input(e)) : q.start = naturalPeriod(input(e), k).start
    BY <1>1, AllPeriods
  <2>3. monthOf(input(e).start) + j = monthOf(input(e).start) + k
    BY <2>1, <2>2, <1>1, <1>3, PeriodStarts
  <2>4. monthOf(input(e).start) \in 1..L - 1
    BY <1>1, MonthOfDay DEF Input
  <2>5. j = k
    BY <2>3, <2>4 DEF numbers
  <2> QED  BY <2>1, <2>2, <2>5, <1>1, AllPeriods
<1> QED  BY <1>2, <1>3

(* Each day from the start of an enrollment to its end is in one period,   *)
(* no other day is in any, and no month starts two: for every calendar,    *)
(* and every start, end and mode (naturalPeriod and periodsUntil of        *)
(* billing-engine.ts).                                                     *)
THEOREM DaysInOnePeriod == BillingSpec => []PeriodsTile
BY InitBills, NextBills, BillsTile, PTL DEF BillingSpec

-----------------------------------------------------------------------------
(* What periods cost                                                       *)

LEMMA QuotientBounds ==
  ASSUME NEW a \in Nat, NEW b \in Nat \ {0}
  PROVE  /\ a \div b \in Nat
         /\ b * (a \div b) <= a
         /\ a < b * (a \div b) + b
OBVIOUS

LEMMA CancelFactor ==
  ASSUME NEW b \in Nat \ {0}, NEW u \in Int, NEW v \in Int, b * u < b * v
  PROVE  u < v
OBVIOUS

LEMMA ProductGrows ==
  ASSUME NEW b \in Nat, NEW u \in Int, NEW v \in Int, u <= v
  PROVE  b * u <= b * v /\ u * b <= v * b
OBVIOUS

LEMMA RoundedGrows ==
  ASSUME NEW m \in Nat, NEW n \in Nat, m <= n, NEW d \in Nat \ {0}
  PROVE  roundHalfUp(m, d) <= roundHalfUp(n, d)
<1> DEFINE b == 2 * d
           p == (2 * m + d) \div b
           q == (2 * n + d) \div b
<1>1. b \in Nat \ {0} /\ 2 * m + d \in Nat /\ 2 * n + d \in Nat /\ 2 * m + d <= 2 * n + d
  OBVIOUS
<1>2. p \in Nat /\ b * p <= 2 * m + d
  BY <1>1, QuotientBounds
<1>3. q \in Nat /\ 2 * n + d < b * q + b
  BY <1>1, QuotientBounds
<1> HIDE DEF p, q
<1>4. b * p < b * (q + 1)
  <2>1. b * (q + 1) = b * q + b /\ b * p \in Int /\ b * q \in Int
    BY <1>1, <1>2, <1>3
  <2> QED  BY <2>1, <1>1, <1>2, <1>3
<1>5. p < q + 1
  <2> HIDE DEF b
  <2> QED  BY <1>4, <1>1, <1>2, <1>3, CancelFactor, q + 1 \in Int
<1>6. p <= q
  BY <1>5, <1>2, <1>3
<1> QED  BY <1>6 DEF roundHalfUp, p, q

LEMMA RoundedWithin ==
  ASSUME NEW f \in Nat, NEW d \in Nat \ {0}, NEW n \in Nat, n <= f * d
  PROVE  roundHalfUp(n, d) <= f
<1> DEFINE b == 2 * d
           p == (2 * n + d) \div b
<1>1. b \in Nat \ {0} /\ 2 * n + d \in Nat /\ f * d \in Nat
  OBVIOUS
<1>2. p \in Nat /\ b * p <= 2 * n + d
  BY <1>1, QuotientBounds
<1> HIDE DEF p
<1>3. b * (f + 1) = 2 * (f * d) + 2 * d
  OBVIOUS
<1>4. b * p < b * (f + 1)
  <2>1. b * p \in Int
    BY <1>1, <1>2
  <2> HIDE DEF b
  <2> QED  BY <2>1, <1>1, <1>2, <1>3
<1>5. p < f + 1
  <2> HIDE DEF b
  <2> QED  BY <1>4, <1>1, <1>2, CancelFactor, f + 1 \in Int
<1>6. p <= f
  BY <1>5, <1>2
<1> QED  BY <1>6 DEF roundHalfUp, p

(* The two parts of an amount, rounded, make the amount or one unit more.  *)
LEMMA RoundedParts ==
  ASSUME NEW f \in Nat, NEW d \in Nat \ {0}, NEW x \in Nat, NEW y \in Nat,
         x + y = f * d
  PROVE  roundHalfUp(x, d) + roundHalfUp(y, d) \in {f, f + 1}
<1> DEFINE b == 2 * d
           p == (2 * x + d) \div b
           q == (2 * y + d) \div b
<1>1. b \in Nat \ {0} /\ 2 * x + d \in Nat /\ 2 * y + d \in Nat /\ f * d \in Nat
  OBVIOUS
<1>2. p \in Nat /\ b * p <= 2 * x + d /\ 2 * x + d < b * p + b
  BY <1>1, QuotientBounds
<1>3. q \in Nat /\ b * q <= 2 * y + d /\ 2 * y + d < b * q + b
  BY <1>1, QuotientBounds
<1> HIDE DEF p, q
<1>4. /\ b * (p + q) = b * p + b * q
      /\ b * p \in Int /\ b * q \in Int
      /\ b * (f + 2) = 2 * (f * d) + 4 * d
      /\ b * f = 2 * (f * d)
  BY <1>1, <1>2, <1>3
<1>5. b * (p + q) < b * (f + 2) /\ b * f < b * (p + q + 1)
  <2>1. b * (p + q + 1) = b * p + b * q + b
    BY <1>1, <1>2, <1>3
  <2>2. b = 2 * d
    OBVIOUS
  <2> HIDE DEF b
  <2> QED  BY <2>1, <2>2, <1>1, <1>2, <1>3, <1>4
<1>6. p + q < f + 2 /\ f < p + q + 1
  <2> HIDE DEF b
  <2>1. p + q \in Int /\ f + 2 \in Int /\ p + q + 1 \in Int
    BY <1>2, <1>3
  <2> QED  BY <2>1, <1>5, <1>1, CancelFactor
<1>7. p + q = f \/ p + q = f + 1
  BY <1>6, <1>2, <1>3
<1> QED  BY <1>7 DEF roundHalfUp, p, q

(* Fewer discounts make a price no smaller, and none exceeds the base.     *)
LEMMA FewerDiscounts ==
  ASSUME NEW base \in Nat, NEW percent \in Nat \cup {None}, NEW fixed \in Nat \cup {None},
         NEW less \in {percent, None}, NEW cheaper \in {fixed, None}
  PROVE  /\ discounted(base, percent, fixed) <= discounted(base, less, cheaper)
         /\ discounted(base, percent, fixed) <= base * 100
<1> DEFINE after(x) == IF x = None THEN base * 100 ELSE base * (100 - x)
           rest(a, y) == IF y = None THEN a ELSE a - y * 100
<1>1. /\ after(percent) \in Int /\ after(less) \in Int
      /\ after(percent) <= after(less) /\ after(percent) <= base * 100 /\ base * 100 \in Nat
  <2>1. ASSUME percent \in Nat PROVE base * (100 - percent) <= base * 100
    BY <2>1, ProductGrows
  <2>2. percent \in Nat => base * (100 - percent) \in Int
    OBVIOUS
  <2> QED  BY <2>1, <2>2, InputAssumption
<1> HIDE DEF after
<1>2. ASSUME NEW a \in Int, NEW b \in Int, a <= b
      PROVE  /\ rest(a, fixed) \in Int /\ rest(b, cheaper) \in Int
             /\ rest(a, fixed) <= rest(b, cheaper) /\ rest(a, fixed) <= a
  BY <1>2
<1>3. /\ rest(after(percent), fixed) <= rest(after(less), cheaper)
      /\ rest(after(percent), fixed) <= after(percent)
      /\ rest(after(percent), fixed) \in Int /\ rest(after(less), cheaper) \in Int
  BY <1>1, <1>2
<1>4. /\ discounted(base, percent, fixed) = maxDay(rest(after(percent), fixed), 0)
      /\ discounted(base, less, cheaper) = maxDay(rest(after(less), cheaper), 0)
  BY DEF discounted, after
<1> HIDE DEF rest
<1> QED  BY <1>1, <1>3, <1>4 DEF maxDay

-----------------------------------------------------------------------------
(* Days that are paid for                                                  *)

LEMMA WindowFits ==
  ASSUME NEW e \in Input, NEW p \in AllOf(e)
  PROVE  /\ p \in Period
         /\ windowStart(e, p) \in Nat \ {0} /\ windowStart(e, p) <= p.start
         /\ p.start <= p.end
         /\ dayCount(windowStart(e, p), p.end) <= p.fullDays
<1>1. p \in Period
  BY PeriodsOf DEF AllOf
<1>2. PICK k \in numbers(e) :
        /\ p.start = naturalPeriod(e, k).start /\ p.end = periodEnd(e, k)
        /\ p.fullDays = fullDays(e, k) /\ p.isFirst = (k = 0)
        /\ e.end = None \/ p.start <= e.end
  BY AllPeriods
<1>3. PICK m \in Nat : m = monthOf(e.start) + k
  <2>1. monthOf(e.start) + k \in 1..L - 1
    BY NaturalPeriods
  <2> QED  BY <2>1, Calendar
<1>4. /\ m \in 1..L - 1 /\ m = monthOf(p.start) /\ p.start \in Days /\ p.start \in Nat
      /\ monthStart[m] <= p.start /\ p.start < monthStart[m + 1]
  BY <1>1, <1>2, <1>3, NaturalPeriods, PeriodStarts, MonthOfDay, LastDays DEF Period
<1>5. /\ m \in CalendarMonths /\ m \in 1..L + 1 /\ m + 1 \in 1..L + 1
      /\ monthStart[m] \in Nat \ {0} /\ monthStart[m + 1] \in Nat
      /\ monthStart[m + 1] = monthStart[m] + MonthDays[m] /\ MonthDays[m] \in Nat
  <2>1. /\ m \in CalendarMonths /\ m \in 1..L + 1 /\ m + 1 \in 1..L + 1
        /\ MonthDays[m] \in Nat
    BY <1>4, Calendar
  <2>2. monthStart[m] \in Nat \ {0} /\ monthStart[m + 1] \in Nat
    BY <2>1, StartsGrow
  <2> QED  BY <2>1, <2>2, Starts
<1>6. /\ naturalPeriod(e, k).end \in Nat /\ p.end \in Nat
      /\ p.end <= naturalPeriod(e, k).end /\ p.start <= p.end
  <2>1. e.end # None => e.end \in Nat
    BY LastDays DEF Input
  <2>2. naturalPeriod(e, k).end \in Nat /\ p.start <= naturalPeriod(e, k).end
    BY <1>2, NaturalPeriods, LastDays
  <2> QED  BY <1>2, <2>1, <2>2 DEF periodEnd
<1>7. windowStart(e, p) \in {p.start, monthStart[m]}
  BY <1>4 DEF windowStart
<1>8. CASE e.mode = "anniversary"
  <2>1. windowStart(e, p) = p.start
    BY <1>8 DEF windowStart
  <2>2. p.fullDays = naturalPeriod(e, k).end - p.start + 1
    BY <1>2, <1>8 DEF fullDays, dayCount
  <2> QED  BY <2>1, <2>2, <1>1, <1>4, <1>5, <1>6 DEF dayCount
<1>9. CASE e.mode # "anniversary"
  <2>1. p.fullDays = MonthDays[m]
    BY <1>2, <1>3, <1>9 DEF fullDays
  <2>2. naturalPeriod(e, k).end = monthStart[m + 1] - 1
    BY <1>3, <1>9 DEF naturalPeriod
  <2> QED  BY <2>1, <2>2, <1>1, <1>4, <1>5, <1>6, <1>7 DEF dayCount
<1> QED  BY <1>8, <1>9

(* A day that a pause covers, and pauses that do not meet.                 *)
pausedOn(list, d) ==
  \E n \in DOMAIN list : list[n].type = "pause" /\ isActiveOn(list[n], d)

PausesApart(list) ==
  \A m, n \in DOMAIN list :
    (/\ m # n /\ list[m].type = "pause" /\ list[n].type = "pause"
     /\ ~list[m].voided /\ ~list[n].voided) =>
      ~overlaps(list[m].from, list[m].to, list[n].from, list[n].to)

LEMMA BothActiveMeet ==
  ASSUME NEW a \in AdjustmentRow, NEW b \in AdjustmentRow, NEW d \in Int,
         isActiveOn(a, d), isActiveOn(b, d)
  PROVE  ~a.voided /\ ~b.voided /\ overlaps(a.from, a.to, b.from, b.to)
<1>1. /\ a.from \in Int /\ b.from \in Int
      /\ a.to # None => a.to \in Int
      /\ b.to # None => b.to \in Int
  BY LastDays DEF AdjustmentRow
<1> QED  BY <1>1 DEF isActiveOn, overlaps

LEMMA PausedOnce ==
  ASSUME NEW list \in Seq(AdjustmentRow), PausesApart(list), NEW p \in Period
  PROVE  /\ IsFiniteSet({d \in p.start..p.end : pausedOn(list, d)})
         /\ pausedDays(list, p) = Cardinality({d \in p.start..p.end : pausedOn(list, d)})
<1> DEFINE pairs == {x \in (DOMAIN list) \X (p.start..p.end) :
                       list[x[1]].type = "pause" /\ isActiveOn(list[x[1]], x[2])}
           days == {d \in p.start..p.end : pausedOn(list, d)}
           f == [x \in pairs |-> x[2]]
<1>1. p.start \in Int /\ p.end \in Int
  BY LastDays DEF Period
<1>2. DOMAIN list = 1..Len(list) /\ Len(list) \in Int
      /\ \A n \in DOMAIN list : list[n] \in AdjustmentRow
  BY Rows
<1>3. IsFiniteSet(pairs)
  <2>1. IsFiniteSet(DOMAIN list) /\ IsFiniteSet(p.start..p.end)
    BY <1>1, <1>2, FS_Interval
  <2>2. IsFiniteSet((DOMAIN list) \X (p.start..p.end))
    BY <2>1, FS_Product
  <2> QED  BY <2>2, FS_Subset, pairs \subseteq (DOMAIN list) \X (p.start..p.end)
<1>4. f \in [pairs -> days]
  BY DEF pausedOn
<1>5. \A x, y \in pairs : f[x] = f[y] => x = y
  <2> SUFFICES ASSUME NEW x \in pairs, NEW y \in pairs, x[2] = y[2]
               PROVE  x = y
    OBVIOUS
  <2>1. /\ x[1] \in DOMAIN list /\ y[1] \in DOMAIN list /\ x[2] \in Int
        /\ x = <<x[1], x[2]>> /\ y = <<y[1], y[2]>>
    BY <1>1
  <2>2. /\ list[x[1]] \in AdjustmentRow /\ list[y[1]] \in AdjustmentRow
        /\ isActiveOn(list[x[1]], x[2]) /\ isActiveOn(list[y[1]], x[2])
        /\ list[x[1]].type = "pause" /\ list[y[1]].type = "pause"
    BY <2>1, <1>2
  <2>3. x[1] = y[1]
    BY <2>1, <2>2, BothActiveMeet DEF PausesApart
  <2> QED  BY <2>1, <2>3
<1>6. \A d \in days : \E x \in pairs : f[x] = d
  <2> TAKE d \in days
  <2>1. PICK n \in DOMAIN list : list[n].type = "pause" /\ isActiveOn(list[n], d)
    BY DEF pausedOn
  <2>2. <<n, d>> \in pairs
    BY <2>1
  <2>3. f[<<n, d>>] = d
    BY <2>2
  <2> QED  BY <2>2, <2>3
<1>7. ExistsBijection(pairs, days)
  <2> HIDE DEF pairs, days, f
  <2>1. f \in Bijection(pairs, days)
    BY <1>4, <1>5, <1>6 DEF Bijection, Injection, Surjection, IsInjective
  <2> QED  BY <2>1 DEF ExistsBijection
<1>8. IsFiniteSet(days) /\ Cardinality(days) = Cardinality(pairs)
  <2> HIDE DEF pairs, days
  <2> QED  BY <1>3, <1>7, FS_Bijection
<1> QED  BY <1>8 DEF pausedDays

LEMMA RowsFinite ==
  ASSUME NEW last \in Int
  PROVE  IsFiniteSet(1..last)
BY FS_Interval

LEMMA DaysBetween ==
  ASSUME NEW a \in Int, NEW b \in Int
  PROVE  /\ IsFiniteSet(a..b)
         /\ a <= b => Cardinality(a..b) = b - a + 1
BY FS_Interval

LEMMA UnpausedDays ==
  ASSUME NEW e \in Input, NEW list \in Seq(AdjustmentRow), PausesApart(list),
         NEW p \in Period, windowStart(e, p) \in Nat, windowStart(e, p) <= p.start,
         p.start <= p.end
  PROVE  billableDays(e, list, p) =
           Cardinality({d \in windowStart(e, p)..p.end :
                          ~(d >= p.start /\ pausedOn(list, d))})
<1> DEFINE w == windowStart(e, p)
           days == {d \in p.start..p.end : pausedOn(list, d)}
           paid == {d \in w..p.end : ~(d >= p.start /\ pausedOn(list, d))}
<1>1. p.start \in Int /\ p.end \in Int /\ w \in Int /\ w <= p.end
  <2>1. p.start \in Int /\ p.end \in Int /\ w \in Int
    BY LastDays DEF Period
  <2> HIDE DEF w
  <2> QED  BY <2>1 DEF w
<1>2. /\ IsFiniteSet(w..p.end) /\ Cardinality(w..p.end) = p.end - w + 1
  <2> HIDE DEF w
  <2> QED  BY <1>1, DaysBetween
<1>3. days \subseteq w..p.end /\ paid = (w..p.end) \ days
  BY <1>1
<1>4. IsFiniteSet(days) /\ pausedDays(list, p) = Cardinality(days)
  BY PausedOnce
<1> HIDE DEF days, paid
<1>5. Cardinality(paid) = Cardinality(w..p.end) - Cardinality(days)
  <2>1. (w..p.end) \cap days = days
    BY <1>3
  <2>2. Cardinality((w..p.end) \ days) =
          Cardinality(w..p.end) - Cardinality((w..p.end) \cap days)
    BY <1>2, FS_Difference
  <2> QED  BY <2>1, <2>2, <1>3
<1>6. Cardinality(paid) \in Nat
  BY <1>2, <1>3, FS_Subset, FS_CardinalityType
<1> QED  BY <1>1, <1>2, <1>4, <1>5, <1>6 DEF billableDays, dayCount, maxDay, w, paid

LEMMA PausedDaysFree == BillsInv => PausedDaysAreFree
<1> SUFFICES ASSUME BillsInv PROVE PausedDaysAreFree
  OBVIOUS
<1> SUFFICES ASSUME NEW e \in Enrolled, pausesDisjoint(e),
                    NEW p \in AllOf(input(e))
             PROVE  billableDays(input(e), adjustment[e], p) =
                      Cardinality({d \in windowStart(input(e), p)..p.end :
                                     ~(d >= p.start /\ pausedOn(adjustment[e], d))})
  <2>1. \A e \in Enrolled : pausesDisjoint(e) =>
          \A p \in AllOf(input(e)) :
            LET paused(d) ==
                  d >= p.start /\ \E n \in DOMAIN adjustment[e] :
                    /\ adjustment[e][n].type = "pause"
                    /\ isActiveOn(adjustment[e][n], d)
            IN  billableDays(input(e), adjustment[e], p) =
                  Cardinality({d \in windowStart(input(e), p)..p.end : ~paused(d)})
    <3> TAKE f \in Enrolled
    <3> HAVE pausesDisjoint(f)
    <3> TAKE q \in AllOf(input(f))
    <3>1. billableDays(input(f), adjustment[f], q) =
            Cardinality({d \in windowStart(input(f), q)..q.end :
                           ~(d >= q.start /\ pausedOn(adjustment[f], d))})
      OBVIOUS
    <3> QED  BY <3>1 DEF pausedOn
  <2> QED  BY <2>1 DEF PausedDaysAreFree, AllOf
<1>1. input(e) \in Input /\ adjustment[e] \in Seq(AdjustmentRow)
  BY InputOf, TermsKept
<1>2. PausesApart(adjustment[e])
  BY DEF pausesDisjoint, PausesApart
<1>3. /\ p \in Period /\ windowStart(input(e), p) \in Nat
      /\ windowStart(input(e), p) <= p.start /\ p.start <= p.end
  BY <1>1, WindowFits
<1> QED  BY <1>1, <1>2, <1>3, UnpausedDays

-----------------------------------------------------------------------------
(* Bills are fair                                                          *)

BaseOf(prices, list, day) ==
  LET custom == findActive(list, "custom_price", day)
  IN IF custom # None THEN custom ELSE priceOn(prices, day)

CostOf(prices, list, day) ==
  discounted(BaseOf(prices, list, day), findActive(list, "discount_percent", day),
             findActive(list, "discount_amount", day))

LEMMA Computed ==
  ASSUME NEW e \in Input, NEW prices \in [Days -> Nat \cup {None}],
         NEW list \in Seq(AdjustmentRow), NEW p \in Period
  PROVE  /\ computePeriod(e, prices, list, p) # None => BaseOf(prices, list, p.start) # None
         /\ BaseOf(prices, list, p.start) # None =>
              /\ computePeriod(e, prices, list, p).amount =
                   roundHalfUp(CostOf(prices, list, p.start) * billableDays(e, list, p),
                               100 * p.fullDays)
              /\ BaseOf(prices, list, p.start) \in Nat
              /\ CostOf(prices, list, p.start) \in Nat
              /\ billableDays(e, list, p) \in Nat /\ 100 * p.fullDays \in Nat \ {0}
              /\ CostOf(prices, list, p.start) * billableDays(e, list, p) \in Nat
<1>1. computePeriod(e, prices, list, p) =
        IF BaseOf(prices, list, p.start) = None THEN None
        ELSE [start |-> p.start, end |-> p.end,
              amount |-> roundHalfUp(CostOf(prices, list, p.start)
                                       * billableDays(e, list, p), 100 * p.fullDays)]
  BY DEF computePeriod, BaseOf, CostOf
<1>2. BaseOf(prices, list, p.start) \in Nat \cup {None}
  BY ActiveValue, PriceType DEF BaseOf
<1>3. BaseOf(prices, list, p.start) # None => CostOf(prices, list, p.start) \in Nat
  BY <1>2, ActiveValue, DiscountedType DEF CostOf
<1>4. billableDays(e, list, p) \in Nat /\ 100 * p.fullDays \in Nat \ {0}
  BY BillableType DEF Period
<1>5. BaseOf(prices, list, p.start) # None =>
        CostOf(prices, list, p.start) * billableDays(e, list, p) \in Nat
  BY <1>3, <1>4, Arithmetic
<1> QED  BY <1>1, <1>2, <1>3, <1>4, <1>5

(* Pauses leave at most the days of the window.                            *)
LEMMA NoMoreThanWindow ==
  ASSUME NEW e \in Input, NEW list \in Seq(AdjustmentRow), NEW p \in AllOf(e)
  PROVE  billableDays(e, list, p) <= p.fullDays
<1>1. /\ p \in Period /\ windowStart(e, p) \in Nat
      /\ dayCount(windowStart(e, p), p.end) <= p.fullDays
      /\ p.end \in Int /\ p.fullDays \in Nat
  BY WindowFits, LastDays DEF Period
<1>2. pausedDays(list, p) \in Nat
  BY <1>1, PausedType
<1>3. dayCount(windowStart(e, p), p.end) \in Int
  BY <1>1 DEF dayCount
<1> QED  BY <1>1, <1>2, <1>3 DEF billableDays, maxDay

LEMMA WithinPrice ==
  ASSUME NEW e \in Input, NEW prices \in [Days -> Nat \cup {None}],
         NEW list \in Seq(AdjustmentRow), NEW p \in AllOf(e),
         computePeriod(e, prices, list, p) # None
  PROVE  computePeriod(e, prices, list, p).amount <= BaseOf(prices, list, p.start)
<1> DEFINE base == BaseOf(prices, list, p.start)
           cost == CostOf(prices, list, p.start)
           paid == billableDays(e, list, p)
<1>1. p \in Period /\ p.fullDays \in Nat
  BY WindowFits DEF Period
<1>2. /\ computePeriod(e, prices, list, p).amount = roundHalfUp(cost * paid, 100 * p.fullDays)
      /\ base # None /\ base \in Nat /\ cost \in Nat /\ paid \in Nat
      /\ 100 * p.fullDays \in Nat \ {0} /\ cost * paid \in Nat
  BY <1>1, Computed
<1>3. cost <= base * 100
  BY <1>2, ActiveValue, FewerDiscounts DEF CostOf
<1>4. paid <= p.fullDays
  BY NoMoreThanWindow
<1> HIDE DEF base, cost, paid
<1>5. cost * paid <= base * (100 * p.fullDays)
  <2>1. cost * paid <= cost * p.fullDays
    BY <1>1, <1>2, <1>4, ProductGrows, SMTT(30)
  <2>2. base * 100 \in Int
    BY <1>2
  <2>3. cost * p.fullDays <= (base * 100) * p.fullDays
    BY <2>2, <1>1, <1>2, <1>3, ProductGrows
  <2>4. (base * 100) * p.fullDays = base * (100 * p.fullDays)
    BY <1>1, <1>2
  <2>5. cost * p.fullDays \in Int /\ base * (100 * p.fullDays) \in Int
    BY <1>1, <1>2
  <2> QED  BY <2>1, <2>3, <2>4, <2>5, <1>2
<1>6. base \in Nat
  BY <1>2
<1> QED
  <2> DEFINE owed == cost * paid
             share == 100 * p.fullDays
  <2>1. /\ owed \in Nat /\ share \in Nat \ {0} /\ owed <= base * share
        /\ computePeriod(e, prices, list, p).amount = roundHalfUp(owed, share)
    BY <1>2, <1>5
  <2> HIDE DEF owed, share
  <2>2. roundHalfUp(owed, share) <= base
    BY <1>6, <2>1, RoundedWithin
  <2> QED
    BY <2>1, <2>2 DEF base

(* Who leaves earlier pays for no more days, if pauses do not meet.        *)
LEMMA EarlierEndCostsNoMore ==
  ASSUME NEW e \in Input, NEW prices \in [Days -> Nat \cup {None}],
         NEW list \in Seq(AdjustmentRow), PausesApart(list), NEW p \in AllOf(e),
         computePeriod(e, prices, list, p) # None, NEW d \in p.start..p.end
  PROVE  computePeriod(e, prices, list, [p EXCEPT !.end = d]).amount
           <= computePeriod(e, prices, list, p).amount
<1> DEFINE q == [p EXCEPT !.end = d]
           w == windowStart(e, p)
           cost == CostOf(prices, list, p.start)
<1>1. /\ p \in Period /\ w \in Nat \ {0} /\ w <= p.start /\ p.start <= p.end
      /\ p.start \in Nat /\ p.end \in Nat /\ p.end \in 1..LastDay /\ LastDay \in Nat
      /\ p.fullDays \in Nat
  BY WindowFits, LastDays DEF Period
<1>2. /\ q \in Period /\ q.start = p.start /\ q.end = d /\ q.fullDays = p.fullDays
      /\ windowStart(e, q) = w /\ d \in Nat
  <2>1. d \in Nat /\ d \in 1..LastDay
    BY <1>1
  <2>2. q = [start |-> p.start, end |-> d, fullDays |-> p.fullDays, isFirst |-> p.isFirst]
    BY <1>1 DEF Period
  <2> HIDE DEF q
  <2> QED  BY <1>1, <2>1, <2>2 DEF Period, windowStart
<1> HIDE DEF q, w
<1>3. billableDays(e, list, q) <= billableDays(e, list, p)
  <2> DEFINE some == {x \in w..d : ~(x >= p.start /\ pausedOn(list, x))}
             more == {x \in w..p.end : ~(x >= p.start /\ pausedOn(list, x))}
  <2>1. billableDays(e, list, p) = Cardinality(more)
    BY <1>1, UnpausedDays DEF w
  <2>2. billableDays(e, list, q) = Cardinality(some)
    BY <1>1, <1>2, UnpausedDays
  <2>3. IsFiniteSet(more)
    <3>1. w \in Int /\ p.end \in Int
      BY <1>1
    <3>2. IsFiniteSet(w..p.end)
      BY <3>1, DaysBetween
    <3> QED  BY <3>2, FS_Subset, more \subseteq w..p.end
  <2>4. some \subseteq more
    BY <1>1, <1>2
  <2> HIDE DEF some, more
  <2> QED  BY <2>1, <2>2, <2>3, <2>4, FS_Subset
<1>4. BaseOf(prices, list, p.start) # None
  BY <1>1, Computed
<1>5. /\ computePeriod(e, prices, list, p).amount =
           roundHalfUp(cost * billableDays(e, list, p), 100 * p.fullDays)
      /\ cost \in Nat /\ billableDays(e, list, p) \in Nat /\ 100 * p.fullDays \in Nat \ {0}
      /\ cost * billableDays(e, list, p) \in Nat
  BY <1>1, <1>4, Computed
<1>6. /\ computePeriod(e, prices, list, q).amount =
           roundHalfUp(cost * billableDays(e, list, q), 100 * p.fullDays)
      /\ billableDays(e, list, q) \in Nat /\ cost * billableDays(e, list, q) \in Nat
  BY <1>2, <1>4, Computed
<1> HIDE DEF cost
<1>7. cost * billableDays(e, list, q) <= cost * billableDays(e, list, p)
  BY <1>3, <1>5, <1>6, ProductGrows
<1>8. roundHalfUp(cost * billableDays(e, list, q), 100 * p.fullDays)
        <= roundHalfUp(cost * billableDays(e, list, p), 100 * p.fullDays)
  BY <1>5, <1>6, <1>7, RoundedGrows
<1> QED  BY <1>5, <1>6, <1>8 DEF q

-----------------------------------------------------------------------------
(* Adjustments of a type that do not meet.                                 *)
Apart(list) ==
  \A m, n \in DOMAIN list :
    (m # n /\ list[m].type = list[n].type /\ ~list[m].voided /\ ~list[n].voided) =>
      ~overlaps(list[m].from, list[m].to, list[n].from, list[n].to)

Voided(list, n) == [list EXCEPT ![n].voided = TRUE]

LEMMA VoidedList ==
  ASSUME NEW list \in Seq(AdjustmentRow), NEW n \in DOMAIN list
  PROVE  /\ Voided(list, n) \in Seq(AdjustmentRow)
         /\ DOMAIN Voided(list, n) = DOMAIN list
         /\ \A m \in DOMAIN list :
              /\ Voided(list, n)[m].type = list[m].type
              /\ Voided(list, n)[m].value = list[m].value
              /\ \A d : isActiveOn(Voided(list, n)[m], d) <=>
                          m # n /\ isActiveOn(list[m], d)
<1> DEFINE row == [list[n] EXCEPT !.voided = TRUE]
<1>1. list[n] \in AdjustmentRow
  BY Rows
<1>2. row \in AdjustmentRow /\ row.type = list[n].type /\ row.value = list[n].value
      /\ row.voided
  BY <1>1 DEF AdjustmentRow
<1>3. Voided(list, n) = [list EXCEPT ![n] = row]
  BY DEF Voided
<1> HIDE DEF row
<1>4. Voided(list, n) \in Seq(AdjustmentRow) /\ DOMAIN Voided(list, n) = DOMAIN list
  BY <1>2, <1>3, ExceptSeq
<1>5. \A m \in DOMAIN list : Voided(list, n)[m] = IF m = n THEN row ELSE list[m]
  BY <1>3
<1> QED  BY <1>2, <1>4, <1>5 DEF isActiveOn

LEMMA VoidedValue ==
  ASSUME NEW list \in Seq(AdjustmentRow), Apart(list), NEW n \in DOMAIN list,
         NEW type, NEW day \in Int
  PROVE  /\ findActive(Voided(list, n), type, day) \in {findActive(list, type, day), None}
         /\ list[n].type # type =>
              findActive(Voided(list, n), type, day) = findActive(list, type, day)
<1> DEFINE found(l) == {m \in DOMAIN l : l[m].type = type /\ isActiveOn(l[m], day)}
<1>1. /\ found(Voided(list, n)) = found(list) \ {n}
      /\ \A m \in DOMAIN list : Voided(list, n)[m].value = list[m].value
  BY VoidedList
<1>2. \A l : findActive(l, type, day) =
               IF found(l) = {} THEN None ELSE l[Min(found(l))].value
  BY DEF findActive
<1>3. \A m, k \in found(list) : m = k
  <2> SUFFICES ASSUME NEW m \in found(list), NEW k \in found(list), m # k PROVE FALSE
    OBVIOUS
  <2>1. list[m] \in AdjustmentRow /\ list[k] \in AdjustmentRow
    BY Rows
  <2> QED  BY <2>1, BothActiveMeet DEF Apart
<1>4. found(list) \in SUBSET Nat /\ found(list) \subseteq DOMAIN list
  BY Rows
<1>5. list[n].type # type => n \notin found(list)
  OBVIOUS
<1> HIDE DEF found
<1>6. CASE n \in found(list)
  <2>1. found(Voided(list, n)) = {}
    BY <1>1, <1>3, <1>6
  <2> QED  BY <2>1, <1>2, <1>5, <1>6
<1>7. CASE n \notin found(list)
  <2>1. found(Voided(list, n)) = found(list)
    BY <1>1, <1>7
  <2>2. CASE found(list) = {}
    BY <2>1, <2>2, <1>2
  <2>3. CASE found(list) # {}
    <3>1. Min(found(list)) \in DOMAIN list
      BY <2>3, <1>4, MinIn
    <3> QED  BY <3>1, <2>1, <2>3, <1>1, <1>2
  <2> QED  BY <2>2, <2>3
<1> QED  BY <1>6, <1>7

(* Without a discount or a pause a period costs no less.                   *)
LEMMA VoidingCostsNoLess ==
  ASSUME NEW e \in Input, NEW prices \in [Days -> Nat \cup {None}],
         NEW list \in Seq(AdjustmentRow), Apart(list), NEW p \in AllOf(e),
         computePeriod(e, prices, list, p) # None,
         NEW n \in DOMAIN list, list[n].type # "custom_price"
  PROVE  computePeriod(e, prices, list, p).amount
           <= computePeriod(e, prices, Voided(list, n), p).amount
<1> DEFINE less == Voided(list, n)
           base == BaseOf(prices, list, p.start)
           cost == CostOf(prices, list, p.start)
           more == CostOf(prices, less, p.start)
           percent == findActive(list, "discount_percent", p.start)
           fixed == findActive(list, "discount_amount", p.start)
<1>1. p \in Period /\ p.start \in Int /\ p.end \in Int /\ p.fullDays \in Nat
  BY WindowFits, LastDays DEF Period
<1>2. less \in Seq(AdjustmentRow) /\ DOMAIN less = DOMAIN list
  BY VoidedList
<1>3. BaseOf(prices, less, p.start) = base
  BY <1>1, VoidedValue DEF BaseOf
<1>4. base # None
  BY <1>1, Computed
<1>5. /\ computePeriod(e, prices, list, p).amount =
           roundHalfUp(cost * billableDays(e, list, p), 100 * p.fullDays)
      /\ base \in Nat /\ cost \in Nat
      /\ billableDays(e, list, p) \in Nat /\ 100 * p.fullDays \in Nat \ {0}
      /\ cost * billableDays(e, list, p) \in Nat
  BY <1>1, <1>4, Computed
<1>6. /\ computePeriod(e, prices, less, p).amount =
           roundHalfUp(more * billableDays(e, less, p), 100 * p.fullDays)
      /\ more \in Nat /\ billableDays(e, less, p) \in Nat
      /\ more * billableDays(e, less, p) \in Nat
  BY <1>1, <1>2, <1>3, <1>4, Computed
<1>7. cost <= more
  <2>1. /\ findActive(less, "discount_percent", p.start) \in {percent, None}
        /\ findActive(less, "discount_amount", p.start) \in {fixed, None}
    BY <1>1, VoidedValue
  <2>2. percent \in Nat \cup {None} /\ fixed \in Nat \cup {None}
    BY ActiveValue
  <2>3. /\ cost = discounted(base, percent, fixed)
        /\ more = discounted(base, findActive(less, "discount_percent", p.start),
                             findActive(less, "discount_amount", p.start))
    BY <1>3 DEF CostOf
  <2> HIDE DEF base, percent, fixed, less, cost, more
  <2> QED  BY <2>1, <2>2, <2>3, <1>5, FewerDiscounts
<1>8. billableDays(e, list, p) <= billableDays(e, less, p)
  <2> DEFINE pairs(l) == {x \in (DOMAIN l) \X (p.start..p.end) :
                            l[x[1]].type = "pause" /\ isActiveOn(l[x[1]], x[2])}
  <2>1. pairs(less) \subseteq pairs(list)
    BY VoidedList
  <2>2. IsFiniteSet(pairs(list))
    <3>1. PICK last \in Int : DOMAIN list = 1..last
      BY Rows
    <3>2. IsFiniteSet(DOMAIN list) /\ IsFiniteSet(p.start..p.end)
      <4>1. IsFiniteSet(1..last)
        BY RowsFinite
      <4>2. IsFiniteSet(p.start..p.end)
        BY <1>1, DaysBetween
      <4> QED  BY <3>1, <4>1, <4>2
    <3>3. IsFiniteSet((DOMAIN list) \X (p.start..p.end))
      BY <3>2, FS_Product
    <3> QED  BY <3>3, FS_Subset, pairs(list) \subseteq (DOMAIN list) \X (p.start..p.end)
  <2>3. /\ pausedDays(list, p) = Cardinality(pairs(list))
        /\ pausedDays(less, p) = Cardinality(pairs(less))
    BY DEF pausedDays
  <2> HIDE DEF pairs
  <2>4. pausedDays(less, p) <= pausedDays(list, p)
    BY <2>1, <2>2, <2>3, FS_Subset
  <2>5. pausedDays(less, p) \in Nat /\ pausedDays(list, p) \in Nat
    BY <1>1, <1>2, PausedType
  <2>6. dayCount(windowStart(e, p), p.end) \in Int
    BY <1>1, WindowFits DEF dayCount
  <2> HIDE DEF less
  <2> QED  BY <2>4, <2>5, <2>6 DEF billableDays, maxDay
<1> HIDE DEF less, base, cost, more
<1>9. cost * billableDays(e, list, p) <= more * billableDays(e, less, p)
  <2>1. cost * billableDays(e, list, p) <= cost * billableDays(e, less, p)
    BY <1>5, <1>6, <1>8, ProductGrows
  <2>2. cost * billableDays(e, less, p) <= more * billableDays(e, less, p)
    BY <1>5, <1>6, <1>7, ProductGrows
  <2>3. cost * billableDays(e, less, p) \in Int
    BY <1>5, <1>6
  <2> QED  BY <2>1, <2>2, <2>3, <1>5, <1>6
<1>10. roundHalfUp(cost * billableDays(e, list, p), 100 * p.fullDays)
         <= roundHalfUp(more * billableDays(e, less, p), 100 * p.fullDays)
  BY <1>5, <1>6, <1>9, RoundedGrows
<1> QED  BY <1>5, <1>6, <1>10 DEF less

-----------------------------------------------------------------------------
(* The parts of a month                                                    *)

LEMMA FirstPeriodOnly ==
  ASSUME NEW e \in Input, e.mode = "calendar_prorated",
         e.end = None \/ e.start <= e.end
  PROVE  periodsUntil(e, e.start) =
           {[start |-> e.start, end |-> periodEnd(e, 0), fullDays |-> fullDays(e, 0),
             isFirst |-> TRUE]}
<1> DEFINE P(k) == [start |-> naturalPeriod(e, k).start, end |-> periodEnd(e, k),
                    fullDays |-> fullDays(e, k), isFirst |-> k = 0]
           some == {j \in numbers(e) :
                      /\ naturalPeriod(e, j).start <= e.start
                      /\ e.end = None \/ naturalPeriod(e, j).start <= e.end}
<1>1. 0 \in numbers(e)
  <2>1. monthOf(e.start) \in 1..L - 1 /\ L \in Nat
    BY MonthOfDay, Calendar DEF Input
  <2> QED  BY <2>1 DEF numbers
<1>2. naturalPeriod(e, 0).start = e.start
  BY <1>1, PeriodStarts
<1>3. ASSUME NEW k \in numbers(e), k # 0 PROVE ~(naturalPeriod(e, k).start <= e.start)
  <2>1. 0 < k
    BY <1>3 DEF numbers
  <2>2. naturalPeriod(e, 0).end < naturalPeriod(e, k).start
    BY <1>1, <2>1, PeriodsApart
  <2>3. /\ naturalPeriod(e, 0).start <= naturalPeriod(e, 0).end
        /\ naturalPeriod(e, 0).start \in Nat /\ naturalPeriod(e, 0).end \in Nat
        /\ naturalPeriod(e, k).start \in Nat
    BY <1>1, NaturalPeriods, LastDays
  <2> QED  BY <2>2, <2>3, <1>2
<1>4. some = {0}
  <2>1. e.start \in Nat
    BY LastDays DEF Input
  <2> QED  BY <2>1, <1>1, <1>2, <1>3
<1>5. periodsUntil(e, e.start) = {P(k) : k \in some}
  BY DEF periodsUntil, numbers, L
<1> HIDE DEF some
<1>6. periodsUntil(e, e.start) = {P(0)}
  BY <1>4, <1>5
<1> QED  BY <1>2, <1>6

LEMMA AmountOf ==
  ASSUME NEW e \in Input, NEW prices \in [Days -> Nat \cup {None}],
         NEW list \in Seq(AdjustmentRow), NEW p \in Period,
         BaseOf(prices, list, p.start) # None
  PROVE  computePeriod(e, prices, list, p).amount =
           roundHalfUp(CostOf(prices, list, p.start) * billableDays(e, list, p),
                       100 * p.fullDays)
BY Computed

(* A period with a price has a bill.                                       *)
LEMMA BilledFor ==
  ASSUME NEW e \in Input, NEW prices \in [Days -> Nat \cup {None}],
         NEW list \in Seq(AdjustmentRow), NEW p \in Period,
         BaseOf(prices, list, p.start) # None
  PROVE  computePeriod(e, prices, list, p) \in Bill
<1> DEFINE amount == roundHalfUp(CostOf(prices, list, p.start) * billableDays(e, list, p),
                                 100 * p.fullDays)
<1>1. computePeriod(e, prices, list, p) = [start |-> p.start, end |-> p.end,
                                          amount |-> amount]
  BY DEF computePeriod, BaseOf, CostOf
<1>2. amount \in Nat
  <2>1. /\ CostOf(prices, list, p.start) * billableDays(e, list, p) \in Nat
        /\ 100 * p.fullDays \in Nat \ {0}
    BY Computed
  <2> QED  BY <2>1, Arithmetic
<1>3. p.start \in Days /\ p.end \in 1..LastDay
  BY DEF Period
<1> HIDE DEF amount
<1> QED  BY <1>1, <1>2, <1>3 DEF Bill

LEMMA CostOfFirst ==
  ASSUME NEW e \in Input, e.mode = "calendar_prorated",
         e.end = None \/ e.start <= e.end,
         NEW prices \in [Days -> Nat \cup {None}], priceOn(prices, e.start) # None,
         NEW m \in 1..L, m = monthOf(e.start)
  PROVE  (CHOOSE b \in dueBills(e, prices, <<>>, {}, e.start) : TRUE).amount =
           roundHalfUp((priceOn(prices, e.start) * 100)
                         * (periodEnd(e, 0) - e.start + 1), 100 * MonthDays[m])
<1> DEFINE p == [start |-> e.start, end |-> periodEnd(e, 0), fullDays |-> fullDays(e, 0),
                 isFirst |-> TRUE]
           none == <<>>
           full == priceOn(prices, e.start)
<1>1. periodsUntil(e, e.start) = {p}
  BY FirstPeriodOnly
<1>2. p \in Period /\ p.start = e.start /\ p.fullDays = MonthDays[m]
  <2>1. p \in Period
    BY <1>1, PeriodsOf
  <2>2. monthOf(e.start) + 0 = m
    OBVIOUS
  <2>3. fullDays(e, 0) = MonthDays[m]
    BY <2>2 DEF fullDays
  <2> QED  BY <2>1, <2>3
<1>3. /\ p.start \in Nat /\ p.end \in Nat /\ p.start <= p.end /\ p.end = periodEnd(e, 0)
  <2>1. p.start \in Nat /\ p.end \in Nat /\ p.end = periodEnd(e, 0)
    BY <1>2, LastDays DEF Period
  <2>2. 0 \in numbers(e)
    <3>1. monthOf(e.start) \in 1..L - 1 /\ L \in Nat
      BY MonthOfDay, Calendar DEF Input
    <3> QED  BY <3>1 DEF numbers
  <2>3. /\ naturalPeriod(e, 0).start <= naturalPeriod(e, 0).end
        /\ naturalPeriod(e, 0).start = e.start
    BY <2>2, NaturalPeriods, PeriodStarts
  <2>4. e.start <= periodEnd(e, 0)
    BY <2>3 DEF periodEnd
  <2> QED  BY <2>1, <2>4, <1>2
<1>4. none \in Seq(AdjustmentRow) /\ DOMAIN none = {}
  OBVIOUS
<1>5. \A type : findActive(none, type, e.start) = None
  BY <1>4 DEF findActive
<1>6. full \in Nat
  BY PriceType
<1>7. BaseOf(prices, none, e.start) = full
  BY <1>5 DEF BaseOf
<1>8. CostOf(prices, none, e.start) = full * 100
  <2>1. CostOf(prices, none, e.start) = discounted(full, None, None)
    BY <1>5, <1>7 DEF CostOf
  <2>2. discounted(full, None, None) = maxDay(full * 100, 0)
    BY DEF discounted
  <2>3. full * 100 \in Nat
    BY <1>6
  <2> QED  BY <2>1, <2>2, <2>3 DEF maxDay
<1>9. billableDays(e, none, p) = periodEnd(e, 0) - e.start + 1
  <2>1. pausedDays(none, p) = 0
    <3>1. {x \in (DOMAIN none) \X (p.start..p.end) :
             /\ none[x[1]].type = "pause"
             /\ isActiveOn(none[x[1]], x[2])} = {}
      BY <1>4
    <3> QED  BY <3>1, FS_EmptySet DEF pausedDays
  <2>2. windowStart(e, p) = p.start
    BY DEF windowStart
  <2>3. billableDays(e, none, p) = maxDay(dayCount(p.start, p.end) - 0, 0)
    BY <2>1, <2>2 DEF billableDays
  <2> HIDE DEF p
  <2> QED  BY <2>3, <1>2, <1>3 DEF dayCount, maxDay
<1> HIDE DEF p, none
<1>10. computePeriod(e, prices, none, p).amount =
         roundHalfUp((full * 100) * (periodEnd(e, 0) - e.start + 1), 100 * MonthDays[m])
  <2>1. BaseOf(prices, none, p.start) # None
    BY <1>2, <1>7
  <2>2. computePeriod(e, prices, none, p).amount =
          roundHalfUp(CostOf(prices, none, p.start) * billableDays(e, none, p),
                      100 * p.fullDays)
    BY <1>2, <1>4, <2>1, AmountOf, ZenonT(60)
  <2> HIDE DEF full
  <2> QED  BY <2>2, <1>2, <1>8, <1>9, Zenon
<1>11. computePeriod(e, prices, none, p) # None
  <2>1. BaseOf(prices, none, p.start) # None
    BY <1>2, <1>7
  <2>2. computePeriod(e, prices, none, p) \in Bill
    BY <1>2, <1>4, <2>1, BilledFor
  <2> QED  BY <2>2, InputAssumption
<1>12. dueBills(e, prices, none, {}, e.start) = {computePeriod(e, prices, none, p)}
  <2>1. {q \in periodsUntil(e, e.start) : q.start \notin {}} = {p}
    BY <1>1 DEF p
  <2>2. dueBills(e, prices, none, {}, e.start) =
          {computePeriod(e, prices, none, q) : q \in {p}} \ {None}
    BY <2>1 DEF dueBills
  <2> QED  BY <2>2, <1>11
<1>13. (CHOOSE b \in dueBills(e, prices, none, {}, e.start) : TRUE)
         = computePeriod(e, prices, none, p)
  BY <1>12
<1> QED  BY <1>10, <1>13 DEF none

LEMMA PartsOfMonth ==
  ASSUME NEW prices \in [Days -> Nat \cup {None}], NEW m \in 1..L - 1,
         NEW d \in monthStart[m]..monthStart[m + 1] - 2,
         NEW a, a = [start |-> monthStart[m], end |-> d, mode |-> "calendar_prorated"],
         NEW b, b = [start |-> d + 1, end |-> None, mode |-> "calendar_prorated"],
         priceOn(prices, monthStart[m]) # None,
         priceOn(prices, monthStart[m]) = priceOn(prices, d + 1)
  PROVE  (CHOOSE r \in dueBills(a, prices, <<>>, {}, a.start) : TRUE).amount
           + (CHOOSE r \in dueBills(b, prices, <<>>, {}, b.start) : TRUE).amount
           \in {priceOn(prices, monthStart[m]), priceOn(prices, monthStart[m]) + 1}
<1> DEFINE full == priceOn(prices, monthStart[m])
           s == monthStart[m]
           t == monthStart[m + 1]
           n == MonthDays[m]
<1>1. /\ m \in 1..L /\ m \in CalendarMonths /\ m \in 1..L + 1 /\ m + 1 \in 1..L + 1
      /\ L \in 1..L + 1 /\ (m + 1 = L \/ m + 1 < L) /\ m \in Nat
  BY Calendar
<1>2. /\ s \in Nat \ {0} /\ t \in Nat \ {0} /\ monthStart[L] \in Nat
      /\ n \in Nat \ {0} /\ t = s + n /\ d \in Int /\ s <= d /\ d + 1 < t
      /\ t <= monthStart[L]
  <2>1. /\ s \in Nat \ {0} /\ t \in Nat \ {0} /\ monthStart[L] \in Nat
        /\ n \in Nat \ {0} /\ t = s + n
    BY <1>1, StartsGrow, Starts, Calendar
  <2>2. t <= monthStart[L]
    <3>1. m + 1 = L \/ m + 1 < L
      BY Calendar
    <3> QED  BY <3>1, <2>1, <1>1, StartsGrow
  <2> QED  BY <2>1, <2>2
<1>3. s \in Days /\ d \in Days /\ d + 1 \in Days
  <2>1. Days = 1..monthStart[L] - 1
    BY DEF Days, L
  <2> HIDE DEF s, t
  <2> QED
    BY <1>2, <2>1
<1>4. /\ a \in Input /\ a.start = s /\ a.end = d /\ a.end # None
      /\ a.mode = "calendar_prorated"
      /\ b \in Input /\ b.start = d + 1 /\ b.end = None /\ b.mode = "calendar_prorated"
  <2>1. d # None
    BY <1>2, InputAssumption, d \in Nat
  <2> QED  BY <1>3, <2>1 DEF Input, BillingMode
<1>5. monthOf(a.start) = m /\ monthOf(b.start) = m
  <2>1. s <= d + 1 /\ s < t
    BY <1>2
  <2> QED  BY <2>1, <1>1, <1>2, <1>3, <1>4, MonthIs
<1>6. /\ periodEnd(a, 0) = d /\ periodEnd(b, 0) = t - 1
  <2>1. m + 0 = m
    BY <1>1
  <2>2. naturalPeriod(a, 0).end = t - 1 /\ naturalPeriod(b, 0).end = t - 1
    BY <2>1, <1>4, <1>5 DEF naturalPeriod
  <2> QED  BY <2>2, <1>2, <1>4 DEF periodEnd
<1>7. full \in Nat
  BY PriceType
<1>8. (CHOOSE r \in dueBills(a, prices, <<>>, {}, a.start) : TRUE).amount =
        roundHalfUp((full * 100) * (d - s + 1), 100 * n)
  <2>1. /\ a \in Input /\ a.mode = "calendar_prorated"
        /\ a.end = None \/ a.start <= a.end
        /\ priceOn(prices, a.start) # None /\ priceOn(prices, a.start) = full
        /\ m \in 1..L /\ m = monthOf(a.start)
    BY <1>1, <1>2, <1>4, <1>5
  <2>2. (CHOOSE r \in dueBills(a, prices, <<>>, {}, a.start) : TRUE).amount =
          roundHalfUp((priceOn(prices, a.start) * 100)
                        * (periodEnd(a, 0) - a.start + 1), 100 * MonthDays[m])
    <3> HIDE DEF full, s, t, n
    <3> QED  BY <2>1, CostOfFirst
  <2>3. /\ periodEnd(a, 0) = d /\ a.start = s
        /\ priceOn(prices, a.start) = full /\ MonthDays[m] = n
    BY <1>4, <1>6, <2>1
  <2> HIDE DEF full, s, t, n
  <2> QED  BY <2>2, <2>3, Zenon
<1>9. (CHOOSE r \in dueBills(b, prices, <<>>, {}, b.start) : TRUE).amount =
        roundHalfUp((full * 100) * ((t - 1) - (d + 1) + 1), 100 * n)
  <2>1. /\ b \in Input /\ b.mode = "calendar_prorated"
        /\ b.end = None \/ b.start <= b.end
        /\ priceOn(prices, b.start) # None /\ priceOn(prices, b.start) = full
        /\ m \in 1..L /\ m = monthOf(b.start)
    BY <1>1, <1>2, <1>4, <1>5
  <2>2. (CHOOSE r \in dueBills(b, prices, <<>>, {}, b.start) : TRUE).amount =
          roundHalfUp((priceOn(prices, b.start) * 100)
                        * (periodEnd(b, 0) - b.start + 1), 100 * MonthDays[m])
    <3> HIDE DEF full, s, t, n
    <3> QED  BY <2>1, CostOfFirst
  <2>3. /\ periodEnd(b, 0) = t - 1 /\ b.start = d + 1
        /\ priceOn(prices, b.start) = full /\ MonthDays[m] = n
    BY <1>4, <1>6, <2>1
  <2> HIDE DEF full, s, t, n
  <2> QED  BY <2>2, <2>3, Zenon
<1> HIDE DEF full, s, t, n
<1>10. PICK x \in Nat, y \in Nat : /\ x = d - s + 1 /\ y = (t - 1) - (d + 1) + 1
                                   /\ x + y = n
  BY <1>2
<1>11. /\ (full * 100) * x \in Nat /\ (full * 100) * y \in Nat
       /\ (full * 100) * x + (full * 100) * y = full * (100 * n)
       /\ 100 * n \in Nat \ {0}
  <2>1. (full * 100) * (x + y) = (full * 100) * x + (full * 100) * y
    BY <1>7, <1>10
  <2>2. (full * 100) * n = full * (100 * n)
    BY <1>2, <1>7
  <2>3. full * 100 \in Nat
    BY <1>7
  <2>4. (full * 100) * x \in Nat /\ (full * 100) * y \in Nat
    BY <2>3, Arithmetic, Zenon
  <2>5. 100 * n \in Nat \ {0}
    BY <1>2
  <2>6. x + y = n
    BY <1>10
  <2> QED  BY <2>1, <2>2, <2>4, <2>5, <2>6, Zenon
<1>12. roundHalfUp((full * 100) * x, 100 * n) + roundHalfUp((full * 100) * y, 100 * n)
         \in {full, full + 1}
  BY <1>7, <1>11, RoundedParts
<1> QED  BY <1>8, <1>9, <1>10, <1>12 DEF full

LEMMA MonthCostsMonth == BillsInv => SplitMonthCostsOneMonth
<1> SUFFICES ASSUME BillsInv, NEW m \in 1..Len(MonthDays) - 1,
                    NEW d \in monthStart[m]..monthStart[m + 1] - 2
             PROVE  LET base == [start |-> monthStart[m], end |-> d,
                                 mode |-> "calendar_prorated"]
                        cost(e) == CHOOSE b \in dueBills(e, price, <<>>, {}, e.start) : TRUE
                        rest == [start |-> d + 1, end |-> None,
                                 mode |-> "calendar_prorated"]
                        full == priceOn(price, monthStart[m])
                    IN  (full # None /\ full = priceOn(price, d + 1)) =>
                          cost(base).amount + cost(rest).amount \in {full, full + 1}
  BY DEF SplitMonthCostsOneMonth
<1>1. price \in [Days -> Nat \cup {None}]
  BY DEF BillsInv, BillingTypeOK
<1>2. m \in 1..L - 1
  BY DEF L
<1> QED  BY <1>1, <1>2, PartsOfMonth

-----------------------------------------------------------------------------
(* One adjustment at a time                                                *)

(* Of the requests that add an adjustment one has checked and not inserted.*)
AdjustsAlone ==
  \A v, w \in Workers : Doing(v, "adjust") /\ Doing(w, "adjust") => v = w

ApartFrom(list, row) ==
  \A n \in DOMAIN list :
    list[n].type = row.type /\ ~list[n].voided =>
      ~overlaps(row.from, row.to, list[n].from, list[n].to)

AdjustmentsInv ==
  /\ BillsInv
  /\ \A e \in Enrollments : Apart(adjustment[e])
  /\ \A w \in Workers : Doing(w, "adjust") =>
       ApartFrom(adjustment[task[w].enrollment], task[w].row)

LEMMA AdjustmentsFair == AdjustmentsInv => BillsAreFair
<1> SUFFICES ASSUME AdjustmentsInv, NEW e \in Enrolled, NEW p \in AllOf(input(e)),
                    computePeriod(input(e), price, adjustment[e], p) # None
             PROVE  LET i == input(e)
                        bill == computePeriod(i, price, adjustment[e], p)
                        custom == findActive(adjustment[e], "custom_price", p.start)
                    IN  /\ bill.amount <= IF custom # None THEN custom
                                                           ELSE priceOn(price, p.start)
                        /\ \A d \in p.start..p.end :
                             computePeriod(i, price, adjustment[e],
                                           [p EXCEPT !.end = d]).amount <= bill.amount
                        /\ \A n \in DOMAIN adjustment[e] :
                             adjustment[e][n].type # "custom_price" =>
                               bill.amount <=
                                 computePeriod(i, price,
                                   [adjustment[e] EXCEPT ![n].voided = TRUE], p).amount
  BY DEF BillsAreFair, AllOf
<1>1. /\ input(e) \in Input /\ e \in Enrollments
      /\ adjustment[e] \in Seq(AdjustmentRow) /\ price \in [Days -> Nat \cup {None}]
  BY InputOf, TermsKept DEF AdjustmentsInv, BillsInv, BillingTypeOK
<1>2. Apart(adjustment[e]) /\ PausesApart(adjustment[e])
  BY <1>1 DEF AdjustmentsInv, Apart, PausesApart
<1>3. computePeriod(input(e), price, adjustment[e], p).amount
        <= BaseOf(price, adjustment[e], p.start)
  BY <1>1, WithinPrice
<1>4. \A d \in p.start..p.end :
        computePeriod(input(e), price, adjustment[e], [p EXCEPT !.end = d]).amount
          <= computePeriod(input(e), price, adjustment[e], p).amount
  BY <1>1, <1>2, EarlierEndCostsNoMore
<1>5. \A n \in DOMAIN adjustment[e] :
        adjustment[e][n].type # "custom_price" =>
          computePeriod(input(e), price, adjustment[e], p).amount <=
            computePeriod(input(e), price, Voided(adjustment[e], n), p).amount
  BY <1>1, <1>2, VoidingCostsNoLess
<1> QED  BY <1>3, <1>4, <1>5 DEF BaseOf, Voided

LEMMA InitAdjustments == BillingInit => AdjustmentsInv
<1> SUFFICES ASSUME BillingInit PROVE AdjustmentsInv
  OBVIOUS
<1>1. BillsInv
  BY InitBills
<1>2. \A e \in Enrollments : adjustment[e] = <<>>
  BY DEF BillingInit
<1>3. Apart(<<>>)
  BY DEF Apart
<1>4. \A w \in Workers : ~Doing(w, "adjust")
  BY DEF BillingInit, Doing, Idle
<1> QED  BY <1>1, <1>2, <1>3, <1>4 DEF AdjustmentsInv

(* A step that neither adjusts nor begins to.                              *)
LEMMA OtherAdjustments ==
  ASSUME AdjustmentsInv, BillsInv', adjustment' = adjustment, NEW w \in Workers,
         NEW t, task' = [task EXCEPT ![w] = t] \/ task' = task,
         t # None => t.op # "adjust"
  PROVE  AdjustmentsInv'
<1>1. \A e \in Enrollments : Apart(adjustment[e])'
  BY DEF AdjustmentsInv, Apart
<1>2. ASSUME NEW u \in Workers, Doing(u, "adjust")'
      PROVE  Doing(u, "adjust") /\ task'[u] = task[u]
  <2>1. task \in [Workers -> Task \cup {None}]
    BY DEF AdjustmentsInv, BillsInv, BillingTypeOK
  <2>2. CASE task' = task
    BY <2>2, <1>2 DEF Doing, Idle
  <2>3. CASE task' = [task EXCEPT ![w] = t]
    <3>1. task'[u] = IF u = w THEN t ELSE task[u]
      BY <2>1, <2>3
    <3> QED  BY <3>1, <1>2 DEF Doing, Idle
  <2> QED  BY <2>2, <2>3
<1>3. \A u \in Workers : Doing(u, "adjust")' =>
        ApartFrom(adjustment[task[u].enrollment], task[u].row)'
  BY <1>2 DEF AdjustmentsInv, ApartFrom
<1> QED  BY <1>1, <1>3 DEF AdjustmentsInv

LEMMA BeginAdjustAlone ==
  ASSUME AdjustmentsInv, BillsInv', NEW w \in Workers, NEW e \in Enrollments,
         NEW row \in AdjustmentRows, BeginAdjust(w, e, row)
  PROVE  AdjustmentsInv'
<1> DEFINE t == [op |-> "adjust", enrollment |-> e, row |-> row]
<1>1. task' = [task EXCEPT ![w] = t] /\ adjustment' = adjustment
  BY DEF BeginAdjust, Begin, terms
<1>2. ApartFrom(adjustment[e], row)
  BY DEF BeginAdjust, ApartFrom
<1>3. task'[w] = t /\ \A u \in Workers \ {w} : task'[u] = task[u]
  BY <1>1 DEF AdjustmentsInv, BillsInv, BillingTypeOK
<1>4. \A f \in Enrollments : Apart(adjustment'[f])
  BY <1>1 DEF AdjustmentsInv
<1>5. ASSUME NEW u \in Workers, Doing(u, "adjust")'
      PROVE  ApartFrom(adjustment'[task'[u].enrollment], task'[u].row)
  <2>1. CASE u = w
    <3>1. task'[u].enrollment = e /\ task'[u].row = row
      BY <1>3, <2>1
    <3> QED  BY <3>1, <1>1, <1>2
  <2>2. CASE u # w
    <3>1. task'[u] = task[u] /\ Doing(u, "adjust")
      BY <1>3, <1>5, <2>2 DEF Doing, Idle
    <3> QED  BY <3>1, <1>1 DEF AdjustmentsInv
  <2> QED  BY <2>1, <2>2
<1> QED  BY <1>4, <1>5 DEF AdjustmentsInv

(* Two ranges meet, whichever is named first.                              *)
LEMMA OverlapsBothWays ==
  ASSUME NEW a, NEW b, NEW c, NEW d, overlaps(a, b, c, d)
  PROVE  overlaps(c, d, a, b)
BY DEF overlaps

LEMMA AppendApart ==
  ASSUME NEW list \in Seq(AdjustmentRow), NEW row \in AdjustmentRow,
         Apart(list), ApartFrom(list, row)
  PROVE  Apart(Append(list, row))
<1> DEFINE more == Append(list, row)
           N == Len(list)
<1>1. /\ N \in Nat /\ DOMAIN list = 1..N /\ DOMAIN more = 1..N + 1
      /\ more[N + 1] = row /\ \A n \in 1..N : more[n] = list[n]
  OBVIOUS
<1> HIDE DEF more, N
<1> SUFFICES ASSUME NEW m \in 1..N + 1, NEW n \in 1..N + 1, m # n,
                    more[m].type = more[n].type, ~more[m].voided, ~more[n].voided,
                    overlaps(more[m].from, more[m].to, more[n].from, more[n].to)
             PROVE  FALSE
  BY <1>1 DEF Apart, more
<1>2. CASE m \in 1..N /\ n \in 1..N
  BY <1>1, <1>2 DEF Apart
<1>3. CASE m = N + 1 /\ n \in 1..N
  BY <1>1, <1>3 DEF ApartFrom
<1>4. CASE n = N + 1 /\ m \in 1..N
  <2>1. overlaps(more[n].from, more[n].to, more[m].from, more[m].to)
    BY OverlapsBothWays
  <2> QED  BY <1>1, <1>4, <2>1 DEF ApartFrom
<1> QED  BY <1>1, <1>2, <1>3, <1>4

(* With one request at a time the check still holds at the insert.         *)
LEMMA AdjustAlone ==
  ASSUME AdjustmentsInv, BillsInv', AdjustsAlone, NEW w \in Workers, Adjust(w)
  PROVE  AdjustmentsInv'
<1> DEFINE e == task[w].enrollment
           row == task[w].row
<1>1. Doing(w, "adjust") /\ task' = [task EXCEPT ![w] = None]
      /\ adjustment' = [adjustment EXCEPT ![e] = Append(adjustment[e], row)]
  BY DEF Adjust, Done
<1>2. e \in Enrollments /\ row \in AdjustmentRow
  BY <1>1, TaskRows DEF Doing, Idle, TaskOK, Task, AdjustmentsInv, BillsInv
<1>3. ApartFrom(adjustment[e], row)
  BY <1>1 DEF AdjustmentsInv
<1> HIDE DEF e, row
<1>4. adjustment \in [Enrollments -> Seq(AdjustmentRow)]
  BY DEF AdjustmentsInv, BillsInv, BillingTypeOK
<1>5. ASSUME NEW f \in Enrollments PROVE Apart(adjustment'[f])
  <2>1. Apart(adjustment[f]) /\ adjustment[f] \in Seq(AdjustmentRow)
    BY <1>4 DEF AdjustmentsInv
  <2>2. CASE f = e
    <3>1. Apart(Append(adjustment[f], row))
      BY <2>1, <2>2, <1>2, <1>3, AppendApart
    <3> QED  BY <3>1, <2>2, <1>1, <1>4
  <2>3. CASE f # e
    BY <2>1, <2>3, <1>1, <1>4
  <2> QED  BY <2>2, <2>3
<1>6. \A u \in Workers : ~Doing(u, "adjust")'
  <2>1. ASSUME NEW u \in Workers, Doing(u, "adjust")' PROVE FALSE
    <3>1. task'[u] = IF u = w THEN None ELSE task[u]
      BY <1>1 DEF AdjustmentsInv, BillsInv, BillingTypeOK
    <3>2. u # w /\ Doing(u, "adjust")
      BY <2>1, <3>1 DEF Doing, Idle
    <3> QED  BY <3>2, <1>1 DEF AdjustsAlone
  <2> QED  BY <2>1
<1> QED  BY <1>5, <1>6 DEF AdjustmentsInv

LEMMA Unvoiding ==
  ASSUME NEW list \in Seq(AdjustmentRow), NEW k \in DOMAIN list, NEW n \in DOMAIN list
  PROVE  /\ DOMAIN Voided(list, k) = DOMAIN list
         /\ Voided(list, k)[n].type = list[n].type
         /\ Voided(list, k)[n].from = list[n].from
         /\ Voided(list, k)[n].to = list[n].to
         /\ list[n].voided => Voided(list, k)[n].voided
<1>1. list[k] \in AdjustmentRow
  BY Rows
<1>2. Voided(list, k) = [list EXCEPT ![k] = [list[k] EXCEPT !.voided = TRUE]]
  BY DEF Voided
<1> DEFINE row == [list[k] EXCEPT !.voided = TRUE]
<1>3. /\ row.type = list[k].type /\ row.from = list[k].from /\ row.to = list[k].to
      /\ row.voided
  BY <1>1 DEF AdjustmentRow
<1> HIDE DEF row
<1>4. Voided(list, k)[n] = IF n = k THEN row ELSE list[n]
  BY <1>2 DEF row
<1> QED  BY <1>2, <1>3, <1>4

LEMMA VoidAdjustmentAlone ==
  ASSUME AdjustmentsInv, BillsInv', NEW e \in Enrollments, NEW k,
         VoidAdjustment(e, k)
  PROVE  AdjustmentsInv'
<1>1. /\ k \in DOMAIN adjustment[e] /\ task' = task
      /\ adjustment' = [adjustment EXCEPT ![e] = Voided(adjustment[e], k)]
  BY DEF VoidAdjustment, Voided
<1>2. adjustment \in [Enrollments -> Seq(AdjustmentRow)]
  BY DEF AdjustmentsInv, BillsInv, BillingTypeOK
<1>3. adjustment' = [f \in Enrollments |-> IF f = e THEN Voided(adjustment[e], k)
                                                    ELSE adjustment[f]]
  BY <1>1, <1>2
<1>4. ASSUME NEW f \in Enrollments
      PROVE  /\ DOMAIN adjustment'[f] = DOMAIN adjustment[f]
             /\ \A n \in DOMAIN adjustment[f] :
                  /\ adjustment'[f][n].type = adjustment[f][n].type
                  /\ adjustment'[f][n].from = adjustment[f][n].from
                  /\ adjustment'[f][n].to = adjustment[f][n].to
                  /\ adjustment[f][n].voided => adjustment'[f][n].voided
  BY <1>1, <1>2, <1>3, Unvoiding
<1>5. \A f \in Enrollments : Apart(adjustment'[f])
  BY <1>4 DEF AdjustmentsInv, Apart
<1>6. ASSUME NEW u \in Workers, Doing(u, "adjust")'
      PROVE  ApartFrom(adjustment'[task'[u].enrollment], task'[u].row)
  <2>1. Doing(u, "adjust") /\ task'[u] = task[u]
    BY <1>1, <1>6 DEF Doing, Idle
  <2>2. task[u].enrollment \in Enrollments
    BY <2>1, TaskRows DEF Doing, Idle, TaskOK, Task, AdjustmentsInv, BillsInv
  <2>3. ApartFrom(adjustment[task[u].enrollment], task[u].row)
    BY <2>1 DEF AdjustmentsInv
  <2> QED  BY <2>1, <2>2, <2>3, <1>4 DEF ApartFrom
<1> QED  BY <1>5, <1>6 DEF AdjustmentsInv

LEMMA NextAdjustments ==
  AdjustmentsInv /\ AdjustsAlone /\ [BillingNext]_billingVars => AdjustmentsInv'
<1> SUFFICES ASSUME AdjustmentsInv, AdjustsAlone, [BillingNext]_billingVars
             PROVE  AdjustmentsInv'
  OBVIOUS
<1>1. BillsInv'
  BY NextBills DEF AdjustmentsInv
<1>2. ASSUME NEW w \in Workers, Terms(w) PROVE AdjustmentsInv'
  <2>1. \/ /\ adjustment' = adjustment
           /\ \E t : task' = [task EXCEPT ![w] = t] /\ (t # None => t.op # "adjust")
        \/ \E e \in Enrollments, row \in AdjustmentRows : BeginAdjust(w, e, row)
        \/ Adjust(w)
    <3>1. CASE \/ \E m \in Modes : BeginSetMode(w, m)
               \/ \E e \in Enrollments, row \in EnrollmentRows : BeginEnroll(w, e, row)
               \/ \E e \in Enrollments, day \in EndDays : BeginEnd(w, e, day)
      BY <3>1 DEF BeginSetMode, BeginEnroll, BeginEnd, Begin, terms
    <3>2. CASE SetMode(w) \/ Enroll(w) \/ End(w)
      <4>1. task' = [task EXCEPT ![w] = None] /\ adjustment' = adjustment
        BY <3>2 DEF SetMode, Enroll, End, Done
      <4> QED  BY <4>1
    <3> QED  BY <1>2, <3>1, <3>2 DEF Terms
  <2> QED  BY <1>1, <2>1, OtherAdjustments, BeginAdjustAlone, AdjustAlone
<1>3. ASSUME NEW w \in Workers, Billing(w) \/ GiveUp(w) PROVE AdjustmentsInv'
  <2>1. adjustment' = adjustment
    BY <1>3 DEF Billing, GiveUp, BeginRun, BeginBill, BillNext, FailEnrollment, EndRun,
                BeginRecalculate, Recalculate, terms
  <2>2. \E t : task' = [task EXCEPT ![w] = t] /\ (t # None => t.op # "adjust")
    <3>1. CASE \/ BeginRun(w) \/ \E e \in Enrollments : BeginBill(w, e)
               \/ \E e \in Enrollments, s \in Days : BeginRecalculate(w, e, s)
      BY <3>1 DEF BeginRun, BeginBill, BeginRecalculate, Begin
    <3>2. CASE EndRun(w) \/ Recalculate(w) \/ GiveUp(w)
      <4>1. task' = [task EXCEPT ![w] = None]
        BY <3>2 DEF EndRun, Recalculate, GiveUp, Done
      <4> QED  BY <4>1
    <3>3. ASSUME Doing(w, "run"), NEW rest, task' = [task EXCEPT ![w].todo = rest]
          PROVE  \E t : task' = [task EXCEPT ![w] = t] /\ (t # None => t.op # "adjust")
      <4> DEFINE t == [task[w] EXCEPT !.todo = rest]
      <4>1. task[w] \in [op: {"run"}, todo: SUBSET DueBill]
        BY <3>3, TaskRows DEF Doing, Idle, TaskOK, Task, AdjustmentsInv, BillsInv
      <4>2. t.op = "run"
        BY <4>1
      <4>3. task' = [task EXCEPT ![w] = t]
        BY <3>3
      <4> QED  BY <4>2, <4>3
    <3>4. CASE \/ \E d \in IF Doing(w, "run") THEN task[w].todo ELSE {} : BillNext(w, d)
               \/ \E e \in Enrollments : FailEnrollment(w, e)
      <4>1. Doing(w, "run") /\ \E rest : task' = [task EXCEPT ![w].todo = rest]
        BY <3>4 DEF BillNext, FailEnrollment
      <4> QED  BY <4>1, <3>3
    <3> QED  BY <1>3, <3>1, <3>2, <3>4 DEF Billing
  <2> QED  BY <1>1, <2>1, <2>2, OtherAdjustments
<1>4. ASSUME NEW e \in Enrollments, NEW n \in 1..MaxAdjustments, VoidAdjustment(e, n)
      PROVE  AdjustmentsInv'
  BY <1>1, <1>4, VoidAdjustmentAlone
<1>5. ASSUME \/ \E row \in PriceRows : AddPrice(row)
             \/ \E e \in Enrollments, s \in Days, n \in 1..MaxCharges : VoidCharge(e, s, n)
             \/ \E days \in LeadDays : SetLeadDays(days)
             \/ NextDay \/ UNCHANGED billingVars
      PROVE  AdjustmentsInv'
  <2>1. adjustment' = adjustment /\ task' = task
    BY <1>5 DEF AddPrice, VoidCharge, SetLeadDays, NextDay, billingVars, terms
  <2>2. \A e \in Enrollments : Apart(adjustment'[e])
    BY <2>1 DEF AdjustmentsInv
  <2>3. \A u \in Workers : Doing(u, "adjust")' =>
          ApartFrom(adjustment'[task'[u].enrollment], task'[u].row)
    BY <2>1 DEF AdjustmentsInv, Doing, Idle
  <2> QED  BY <1>1, <2>2, <2>3 DEF AdjustmentsInv
<1> QED  BY <1>2, <1>3, <1>4, <1>5 DEF BillingNext

(***************************************************************************)
(* What is charged is fair (billing-engine.ts): no bill is above the price *)
(* of its period, leaving earlier never costs more, a discount or a pause  *)
(* never raises a bill, paused days are free and the two halves of a month *)
(* cost the month, for every calendar, price, discount and pause.  It      *)
(* holds as long as one request at a time adds adjustments:                *)
(* EnrollmentsService.addAdjustment checks for overlaps without a lock     *)
(* (enrollments.service.ts), and of two pauses that meet every common day  *)
(* counts twice.                                                           *)
(***************************************************************************)
THEOREM PricesFair == BillingSpec /\ []AdjustsAlone => []PricesAreFair
<1>1. AdjustmentsInv => PricesAreFair
  BY AdjustmentsFair, PausedDaysFree, MonthCostsMonth DEF PricesAreFair, AdjustmentsInv
<1> QED  BY InitAdjustments, NextAdjustments, <1>1, PTL DEF BillingSpec

-----------------------------------------------------------------------------
(* Online payments                                                         *)

(* An invoice is known to the bank and belongs to a request that exists.   *)
InvoicesLinked ==
  \A i \in Invoices :
    invoice[i] # None => bank[i] # None /\ request[invoice[i].request] # None

(* What a handler relies on when it comes back from the bank: the invoice  *)
(* it inserts is new, and from the cabinet its request is new too.         *)
DraftsLinked ==
  \A d \in drafts :
    /\ invoice[d.invoice] = None
    /\ bank[d.invoice] # None
    /\ IF d.cabinet THEN request[d.request] = None ELSE request[d.request] # None

DraftsDistinct ==
  \A d, e \in drafts :
    (d.invoice = e.invoice \/ (d.cabinet /\ d.request = e.request)) => d = e

CancelsLinked == \A r \in cancelling : request[r] # None

(* Nobody heard of a payment that the bank has not taken.                  *)
AnswersAreTrue ==
  \A a \in answers : a.says = "success" => bank[a.invoice] = "success"

Linked ==
  /\ TypeOK
  /\ InvoicesLinked
  /\ DraftsLinked
  /\ DraftsDistinct
  /\ CancelsLinked

Settled ==
  /\ SuccessMeansPayment
  /\ NoPaymentWithoutMoney
  /\ PaidMeansPaidInvoice
  /\ AnswersAreTrue

-----------------------------------------------------------------------------
LEMMA LinkedInit == Init => Linked
  BY NoneAssumption, TtlAssumption
  DEF Init, Linked, TypeOK, InvoicesLinked, DraftsLinked, DraftsDistinct, CancelsLinked

LEMMA StatusUpdate ==
  ASSUME TypeOK, NEW r \in Requests, request[r] # None, NEW status \in RequestStatus
  PROVE  /\ [request[r] EXCEPT !.status = status] \in RequestRow
         /\ [request[r] EXCEPT !.status = status] # None
  BY NoneAssumption DEF TypeOK, RequestRow

LEMMA InvoiceUpdate ==
  ASSUME TypeOK, NEW i \in Invoices, invoice[i] # None, NEW status \in InvoiceStatus
  PROVE  /\ [invoice[i] EXCEPT !.status = status] \in InvoiceRow
         /\ [invoice[i] EXCEPT !.status = status] # None
         /\ [invoice[i] EXCEPT !.status = status].request = invoice[i].request
         /\ [invoice[i] EXCEPT !.status = status].status = status
  BY NoneAssumption DEF TypeOK, InvoiceRow

LEMMA DraftType ==
  ASSUME TypeOK, NEW r \in Requests, NEW i \in Invoices,
         NEW cabinet \in BOOLEAN, Draft(r, i, cabinet)
  PROVE  /\ bank' \in [Invoices -> BankStatus \cup {None}]
         /\ drafts' \subseteq [request: Requests, invoice: Invoices, cabinet: BOOLEAN]
<1>1. bank' \in [Invoices -> BankStatus \cup {None}]
  BY DEF TypeOK, Draft, BankStatus
<1>2. [request |-> r, invoice |-> i, cabinet |-> cabinet] \in
        [request: Requests, invoice: Invoices, cabinet: BOOLEAN]
  OBVIOUS
<1>3. QED
  BY <1>1, <1>2 DEF TypeOK, Draft

LEMMA TypeNext ==
  ASSUME Linked, [Next]_vars
  PROVE  TypeOK'
<1>a. TypeOK /\ InvoicesLinked /\ DraftsLinked /\ CancelsLinked
  BY DEF Linked
<1>1. ASSUME NEW r \in Requests, CreateLink(r) PROVE TypeOK'
  BY <1>1, <1>a, TtlAssumption
  DEF CreateLink, TypeOK, RequestRow, RequestStatus
<1>2. ASSUME NEW r \in Requests, OpenLateLink(r) PROVE TypeOK'
  BY <1>2, <1>a
  DEF OpenLateLink, Close, SetStatus, TypeOK, RequestRow, RequestStatus
<1>3. ASSUME NEW r \in Requests, BeginCancel(r) PROVE TypeOK'
  BY <1>3, <1>a DEF BeginCancel, rows, TypeOK
<1>4. ASSUME NEW r \in Requests, Cancel(r) PROVE TypeOK'
  BY <1>4, <1>a
  DEF Cancel, Close, SetStatus, CancelsLinked, TypeOK, RequestRow,
      RequestStatus
<1>5. ASSUME NEW r \in Requests, NEW i \in Invoices, PayFromCabinet(r, i) PROVE TypeOK'
  BY <1>5, <1>a, DraftType DEF PayFromCabinet, TypeOK, rows
<1>6. ASSUME NEW r \in Requests, NEW i \in Invoices, PayLink(r, i) PROVE TypeOK'
  BY <1>6, <1>a, DraftType DEF PayLink, TypeOK, rows
<1>7. ASSUME NEW d \in drafts, InsertInvoice(d) PROVE TypeOK'
  BY <1>7, <1>a
  DEF InsertInvoice, TypeOK, RequestRow, RequestStatus, InvoiceRow,
      InvoiceStatus
<1>8. ASSUME NEW d \in drafts, LoseDraft(d) PROVE TypeOK'
  BY <1>8, <1>a DEF LoseDraft, rows, TypeOK
<1>9. CASE ExpireRequests
  BY <1>9, <1>a DEF ExpireRequests, TypeOK, RequestRow, RequestStatus
<1>10. ASSUME NEW i \in Invoices, ReceiveWebhook(i) PROVE TypeOK'
  BY <1>10, <1>a DEF ReceiveWebhook, Read, rows, TypeOK, Answer
<1>11. ASSUME NEW i \in Invoices, PollByParent(i) PROVE TypeOK'
  BY <1>11, <1>a DEF PollByParent, Read, rows, TypeOK, Answer, InvoicesLinked
<1>12. ASSUME NEW i \in Invoices, SyncPending(i) PROVE TypeOK'
  BY <1>12, <1>a
  DEF SyncPending, Read, rows, TypeOK, Answer, BankStatus, InvoicesLinked
<1>13. ASSUME NEW a \in answers, Ignore(a) PROVE TypeOK'
  BY <1>13, <1>a DEF Ignore, Applied, rows, TypeOK
<1>14. ASSUME NEW a \in answers, RecordFailure(a) PROVE TypeOK'
  BY <1>14, <1>a
  DEF RecordFailure, Applied, SetInvoice, TypeOK, InvoiceRow, InvoiceStatus,
      Answer
<1>15. ASSUME NEW a \in answers, RecordMismatch(a) PROVE TypeOK'
  BY <1>15, <1>a
  DEF RecordMismatch, Applied, SetInvoice, TypeOK, InvoiceRow, InvoiceStatus,
      Answer
<1>16. ASSUME NEW a \in answers, Credit(a) PROVE TypeOK'
  BY <1>16, <1>a
  DEF Credit, Applied, SetInvoice, SetStatus, TypeOK, RequestRow,
      RequestStatus, InvoiceRow, InvoiceStatus, Answer, InvoicesLinked
<1>17. ASSUME NEW a \in answers, FailToApply(a) PROVE TypeOK'
  BY <1>17, <1>a DEF FailToApply, Applied, rows, TypeOK
<1>18. ASSUME NEW i \in Invoices, NEW to \in BankStatus, BankMoves(i, to) PROVE TypeOK'
  BY <1>18, <1>a DEF BankMoves, rows, TypeOK
<1>19. CASE Tick
  BY <1>19, <1>a, TtlAssumption DEF Tick, rows, TypeOK
<1>20. CASE UNCHANGED vars
  BY <1>20, <1>a DEF vars, TypeOK
<1>q. QED
  BY <1>1, <1>2, <1>3, <1>4, <1>5, <1>6, <1>7, <1>8, <1>9, <1>10, <1>11,
     <1>12, <1>13, <1>14, <1>15, <1>16, <1>17, <1>18, <1>19, <1>20
  DEF Next, Apply

LEMMA LinksNext ==
  ASSUME Linked, TypeOK', [Next]_vars
  PROVE  (InvoicesLinked /\ DraftsLinked /\ DraftsDistinct /\ CancelsLinked)'
<1> DEFINE Links == InvoicesLinked /\ DraftsLinked /\ DraftsDistinct /\ CancelsLinked
<1> USE DEF InvoicesLinked, DraftsLinked, DraftsDistinct, CancelsLinked
<1>a. Links /\ TypeOK
  BY DEF Linked
<1>1. ASSUME NEW r \in Requests, CreateLink(r)
      PROVE Links'
  BY <1>1, <1>a, NoneAssumption DEF CreateLink, TypeOK, RequestRow
<1>2. ASSUME NEW r \in Requests, OpenLateLink(r)
      PROVE Links'
  <2>1. \A q \in Requests : request'[q] = None <=> request[q] = None
    BY <1>2, <1>a, StatusUpdate
    DEF OpenLateLink, Close, SetStatus, TypeOK, RequestStatus
  <2>2. QED
    BY <1>2, <1>a, <2>1 DEF OpenLateLink, TypeOK, InvoiceRow
<1>3. ASSUME NEW r \in Requests, BeginCancel(r)
      PROVE Links'
  BY <1>3, <1>a, NoneAssumption DEF BeginCancel, rows
<1>4. ASSUME NEW r \in Requests, Cancel(r)
      PROVE Links'
  <2>1. \A q \in Requests : request'[q] = None <=> request[q] = None
    BY <1>4, <1>a, StatusUpdate
    DEF Cancel, Close, SetStatus, TypeOK, RequestStatus
  <2>2. QED
    BY <1>4, <1>a, <2>1 DEF Cancel, TypeOK, InvoiceRow
<1>5. ASSUME NEW r \in Requests, NEW i \in Invoices, PayFromCabinet(r, i)
      PROVE Links'
  <2> DEFINE new == [request |-> r, invoice |-> i, cabinet |-> TRUE]
  <2>1. drafts' = drafts \cup {new} /\ bank[i] = None
    BY <1>5 DEF PayFromCabinet, Draft
  <2>2. \A j \in Invoices : bank[j] # None => bank'[j] # None
    BY <1>5, <1>a, NoneAssumption DEF PayFromCabinet, Draft, TypeOK, BankStatus
  <2>3. InvoicesLinked' /\ CancelsLinked'
    BY <1>5, <1>a, <2>2 DEF PayFromCabinet, rows
  <2>4. bank'[i] # None
    BY <1>5, <1>a, NoneAssumption DEF PayFromCabinet, Draft, TypeOK, BankStatus
  <2>5. invoice[i] = None
    BY <1>a, <2>1
  <2>6. DraftsLinked'
    BY <1>5, <1>a, <2>1, <2>2, <2>4, <2>5 DEF PayFromCabinet, rows, TypeOK
  <2>7. \A d \in drafts : d.invoice # i
    BY <1>a, <2>1
  <2>8. \A d \in drafts : d.cabinet => d.request # r
    BY <1>5, <1>a DEF PayFromCabinet
  <2>9. DraftsDistinct'
    BY <1>5, <1>a, <2>1, <2>7, <2>8 DEF PayFromCabinet, TypeOK
  <2>10. QED
    BY <2>3, <2>6, <2>9
<1>6. ASSUME NEW r \in Requests, NEW i \in Invoices, PayLink(r, i)
      PROVE Links'
  <2> DEFINE new == [request |-> r, invoice |-> i, cabinet |-> FALSE]
  <2>1. drafts' = drafts \cup {new} /\ bank[i] = None
    BY <1>6 DEF PayLink, Draft
  <2>2. \A j \in Invoices : bank[j] # None => bank'[j] # None
    BY <1>6, <1>a, NoneAssumption DEF PayLink, Draft, TypeOK, BankStatus
  <2>3. InvoicesLinked' /\ CancelsLinked'
    BY <1>6, <1>a, <2>2 DEF PayLink, rows
  <2>4. bank'[i] # None
    BY <1>6, <1>a, NoneAssumption DEF PayLink, Draft, TypeOK, BankStatus
  <2>5. invoice[i] = None
    BY <1>a, <2>1
  <2>6. DraftsLinked'
    BY <1>6, <1>a, <2>1, <2>2, <2>4, <2>5 DEF PayLink, rows, TypeOK
  <2>7. \A d \in drafts : d.invoice # i
    BY <1>a, <2>1
  <2>8. \A d \in drafts : d.cabinet => d.request # r
    BY <1>6, <1>a DEF PayLink
  <2>9. DraftsDistinct'
    BY <1>6, <1>a, <2>1, <2>7, <2>8 DEF PayLink, TypeOK
  <2>10. QED
    BY <2>3, <2>6, <2>9
<1>7. ASSUME NEW d \in drafts, InsertInvoice(d)
      PROVE Links'
  <2>1. /\ d.request \in Requests /\ d.invoice \in Invoices
        /\ d.cabinet \in BOOLEAN
        /\ drafts' = drafts \ {d}
    BY <1>7, <1>a DEF InsertInvoice, TypeOK
  <2>2. \A q \in Requests :
          request'[q] # None <=> request[q] # None \/ q = d.request
    BY <1>7, <1>a, <2>1, NoneAssumption
    DEF InsertInvoice, TypeOK, RequestRow, RequestStatus
  <2>3. \A i \in Invoices :
          IF i = d.invoice THEN invoice'[i] # None /\ invoice'[i].request = d.request
                           ELSE invoice'[i] = invoice[i]
    BY <1>7, <1>a, <2>1, NoneAssumption
    DEF InsertInvoice, TypeOK, InvoiceRow, InvoiceStatus
  <2>4. InvoicesLinked' /\ CancelsLinked'
    BY <1>7, <1>a, <2>1, <2>2, <2>3 DEF InsertInvoice, TypeOK, InvoiceRow
  <2>5. DraftsLinked'
    <3>1. SUFFICES ASSUME NEW e \in drafts, e # d
                   PROVE  /\ invoice'[e.invoice] = None
                          /\ bank'[e.invoice] # None
                          /\ IF e.cabinet THEN request'[e.request] = None
                                          ELSE request'[e.request] # None
      BY <2>1
    <3>2. e.request \in Requests /\ e.invoice \in Invoices /\ e.cabinet \in BOOLEAN
      BY <1>a DEF TypeOK
    <3>3. e.invoice # d.invoice /\ (e.cabinet => e.request # d.request)
      BY <1>a, <3>1
    <3>4. bank' = bank
      BY <1>7 DEF InsertInvoice
    <3>5. QED
      BY <1>a, <2>1, <2>2, <2>3, <3>1, <3>2, <3>3, <3>4
  <2>6. DraftsDistinct'
    BY <1>a, <2>1
  <2>7. QED
    BY <2>4, <2>5, <2>6
<1>8. ASSUME NEW d \in drafts, LoseDraft(d)
      PROVE Links'
  BY <1>8, <1>a, NoneAssumption DEF LoseDraft, rows, TypeOK
<1>9. CASE ExpireRequests
  <2>1. \A q \in Requests : request'[q] = None <=> request[q] = None
    BY <1>9, <1>a, StatusUpdate DEF ExpireRequests, TypeOK, RequestStatus
  <2>2. QED
    BY <1>9, <1>a, <2>1 DEF ExpireRequests, TypeOK, InvoiceRow
<1>10. ASSUME NEW i \in Invoices, ReceiveWebhook(i)
      PROVE Links'
  BY <1>10, <1>a, NoneAssumption DEF ReceiveWebhook, Read, rows
<1>11. ASSUME NEW i \in Invoices, PollByParent(i)
      PROVE Links'
  BY <1>11, <1>a, NoneAssumption DEF PollByParent, Read, rows
<1>12. ASSUME NEW i \in Invoices, SyncPending(i)
      PROVE Links'
  BY <1>12, <1>a, NoneAssumption DEF SyncPending, Read, rows
<1>13. ASSUME NEW a \in answers, Ignore(a)
      PROVE Links'
  BY <1>13, <1>a, NoneAssumption DEF Ignore, Applied, rows
<1>14. ASSUME NEW a \in answers, RecordFailure(a)
      PROVE Links'
  BY <1>14, <1>a, NoneAssumption
  DEF RecordFailure, SetInvoice, TypeOK, InvoiceRow
<1>15. ASSUME NEW a \in answers, RecordMismatch(a)
      PROVE Links'
  BY <1>15, <1>a, NoneAssumption
  DEF RecordMismatch, SetInvoice, TypeOK, InvoiceRow
<1>16. ASSUME NEW a \in answers, Credit(a)
      PROVE Links'
  <2>1. a.invoice \in Invoices
    BY <1>a DEF TypeOK, Answer
  <2>2. \A q \in Requests : request'[q] = None <=> request[q] = None
    BY <1>16, <1>a, <2>1, StatusUpdate
    DEF Credit, SetStatus, TypeOK, InvoiceRow, RequestStatus
  <2>3. \A i \in Invoices :
          /\ invoice'[i] = None <=> invoice[i] = None
          /\ invoice[i] # None => invoice'[i].request = invoice[i].request
    BY <1>16, <1>a, <2>1, InvoiceUpdate
    DEF Credit, SetInvoice, TypeOK, InvoiceStatus
  <2>4. QED
    BY <1>16, <1>a, <2>2, <2>3 DEF Credit, TypeOK, InvoiceRow
<1>17. ASSUME NEW a \in answers, FailToApply(a)
      PROVE Links'
  BY <1>17, <1>a, NoneAssumption DEF FailToApply, rows
<1>18. ASSUME NEW i \in Invoices, NEW to \in BankStatus, BankMoves(i, to)
      PROVE Links'
  BY <1>18, <1>a, NoneAssumption DEF BankMoves, rows, TypeOK
<1>19. CASE Tick
  BY <1>19, <1>a, NoneAssumption DEF Tick, rows
<1>20. CASE UNCHANGED vars
  BY <1>20, <1>a, NoneAssumption DEF vars
<1>q. QED
  BY <1>1, <1>2, <1>3, <1>4, <1>5, <1>6, <1>7, <1>8, <1>9, <1>10, <1>11,
     <1>12, <1>13, <1>14, <1>15, <1>16, <1>17, <1>18, <1>19, <1>20
  DEF Next, Apply

LEMMA SettledInit == Init => Settled
  BY NoneAssumption
  DEF Init, Settled, SuccessMeansPayment, NoPaymentWithoutMoney,
      PaidMeansPaidInvoice, AnswersAreTrue

LEMMA SettledNext ==
  ASSUME Linked, Settled, Linked', [Next]_vars
  PROVE  Settled'
<1> USE DEF Settled, SuccessMeansPayment, NoPaymentWithoutMoney,
            PaidMeansPaidInvoice, AnswersAreTrue
<1>a. /\ TypeOK /\ InvoicesLinked /\ CancelsLinked /\ DraftsLinked
      /\ TypeOK' /\ InvoicesLinked'
  BY DEF Linked
<1>1. ASSUME NEW r \in Requests, CreateLink(r)
      PROVE Settled'
  BY <1>1, <1>a, NoneAssumption
  DEF CreateLink, TypeOK, RequestRow, InvoiceRow, InvoicesLinked
<1>2. ASSUME NEW r \in Requests, OpenLateLink(r)
      PROVE Settled'
  BY <1>2, <1>a, NoneAssumption
  DEF OpenLateLink, Close, SetStatus, linkState, TypeOK, RequestRow
<1>3. ASSUME NEW r \in Requests, BeginCancel(r)
      PROVE Settled'
  BY <1>3, <1>a, NoneAssumption DEF BeginCancel, rows
<1>4. ASSUME NEW r \in Requests, Cancel(r)
      PROVE Settled'
  BY <1>4, <1>a, NoneAssumption
  DEF Cancel, Close, SetStatus, TypeOK, RequestRow, CancelsLinked
<1>5. ASSUME NEW r \in Requests, NEW i \in Invoices, PayFromCabinet(r, i)
      PROVE Settled'
  BY <1>5, <1>a, NoneAssumption
  DEF PayFromCabinet, Draft, rows, TypeOK, Answer, BankStatus
<1>6. ASSUME NEW r \in Requests, NEW i \in Invoices, PayLink(r, i)
      PROVE Settled'
  BY <1>6, <1>a, NoneAssumption
  DEF PayLink, Draft, rows, TypeOK, Answer, BankStatus
<1>7. ASSUME NEW d \in drafts, InsertInvoice(d)
      PROVE Settled'
  BY <1>7, <1>a, NoneAssumption
  DEF InsertInvoice, TypeOK, RequestRow, InvoiceRow, InvoicesLinked,
      DraftsLinked
<1>8. ASSUME NEW d \in drafts, LoseDraft(d)
      PROVE Settled'
  BY <1>8, <1>a, NoneAssumption DEF LoseDraft, rows
<1>9. CASE ExpireRequests
  BY <1>9, <1>a, NoneAssumption
  DEF ExpireRequests, linkState, TypeOK, RequestRow
<1>10. ASSUME NEW i \in Invoices, ReceiveWebhook(i)
      PROVE Settled'
  BY <1>10, <1>a, NoneAssumption DEF ReceiveWebhook, Read, rows
<1>11. ASSUME NEW i \in Invoices, PollByParent(i)
      PROVE Settled'
  BY <1>11, <1>a, NoneAssumption DEF PollByParent, Read, rows
<1>12. ASSUME NEW i \in Invoices, SyncPending(i)
      PROVE Settled'
  BY <1>12, <1>a, NoneAssumption DEF SyncPending, Read, rows
<1>13. ASSUME NEW a \in answers, Ignore(a)
      PROVE Settled'
  BY <1>13, <1>a, NoneAssumption DEF Ignore, Applied, rows
<1>14. ASSUME NEW a \in answers, RecordFailure(a)
      PROVE Settled'
  <2>1. a.invoice \in Invoices /\ invoice[a.invoice] # None
    BY <1>14, <1>a DEF RecordFailure, TypeOK, Answer
  <2>2. \A i \in Invoices : i # a.invoice => invoice'[i] = invoice[i]
    BY <1>14, <1>a, <2>1 DEF RecordFailure, SetInvoice, TypeOK
  <2>3. /\ invoice[a.invoice].status # "success"
        /\ invoice'[a.invoice].status # "success"
        /\ invoice'[a.invoice].request = invoice[a.invoice].request
    BY <1>14, <1>a, <2>1, InvoiceUpdate
    DEF RecordFailure, SetInvoice, isFinal, TypeOK, InvoiceStatus
  <2>4. a.invoice \notin credited
    BY <2>3
  <2>5. QED
    BY <1>14, <1>a, <2>1, <2>2, <2>3, <2>4 DEF RecordFailure, Applied, TypeOK
<1>15. ASSUME NEW a \in answers, RecordMismatch(a)
      PROVE Settled'
  <2>1. a.invoice \in Invoices /\ invoice[a.invoice] # None
    BY <1>15, <1>a DEF RecordMismatch, TypeOK, Answer
  <2>2. \A i \in Invoices : i # a.invoice => invoice'[i] = invoice[i]
    BY <1>15, <1>a, <2>1 DEF RecordMismatch, SetInvoice, TypeOK
  <2>3. /\ invoice[a.invoice].status # "success"
        /\ invoice'[a.invoice].status # "success"
        /\ invoice'[a.invoice].request = invoice[a.invoice].request
    BY <1>15, <1>a, <2>1, InvoiceUpdate
    DEF RecordMismatch, SetInvoice, isSettled, TypeOK, InvoiceStatus
  <2>4. a.invoice \notin credited
    BY <2>3
  <2>5. QED
    BY <1>15, <1>a, <2>1, <2>2, <2>3, <2>4 DEF RecordMismatch, Applied, TypeOK
<1>16. ASSUME NEW a \in answers, Credit(a)
      PROVE Settled'
  <2> DEFINE paid == invoice[a.invoice].request
  <2>1. a.invoice \in Invoices /\ invoice[a.invoice] # None
    BY <1>16, <1>a DEF Credit, TypeOK, Answer
  <2>2. paid \in Requests /\ request[paid] # None
    BY <1>a, <2>1 DEF TypeOK, InvoiceRow, InvoicesLinked
  <2>3. \A i \in Invoices : i # a.invoice => invoice'[i] = invoice[i]
    BY <1>16, <1>a, <2>1 DEF Credit, SetInvoice, TypeOK
  <2>4. /\ invoice'[a.invoice] # None
        /\ invoice'[a.invoice].status = "success"
        /\ invoice'[a.invoice].request = paid
    BY <1>16, <1>a, <2>1, InvoiceUpdate
    DEF Credit, SetInvoice, TypeOK, InvoiceStatus
  <2>5. credited' = credited \cup {a.invoice}
    BY <1>16 DEF Credit
  <2>6. SuccessMeansPayment'
    BY <2>1, <2>3, <2>4, <2>5
  <2>7. NoPaymentWithoutMoney' /\ AnswersAreTrue'
    BY <1>16, <2>5 DEF Credit, Applied
  <2>8. \A r \in Requests : r # paid => request'[r] = request[r]
    BY <1>16, <1>a, <2>2 DEF Credit, SetStatus, TypeOK
  <2>9. request'[paid].status = "paid"
    BY <1>16, <1>a, <2>2 DEF Credit, SetStatus, TypeOK, RequestRow
  <2>10. credited \subseteq Invoices
    BY <1>a DEF TypeOK
  <2>11. \A i \in credited : invoice'[i].request = invoice[i].request
    BY <2>3, <2>4, <2>10
  <2>12. PaidMeansPaidInvoice'
    BY <2>2, <2>4, <2>5, <2>8, <2>9, <2>11
  <2>13. QED
    BY <2>6, <2>7, <2>12
<1>17. ASSUME NEW a \in answers, FailToApply(a)
      PROVE Settled'
  BY <1>17, <1>a, NoneAssumption DEF FailToApply, Applied, rows
<1>18. ASSUME NEW i \in Invoices, NEW to \in BankStatus, BankMoves(i, to)
      PROVE Settled'
  BY <1>18, <1>a, NoneAssumption DEF BankMoves, rows, TypeOK, Answer
<1>19. CASE Tick
  BY <1>19, <1>a, NoneAssumption DEF Tick, rows
<1>20. CASE UNCHANGED vars
  BY <1>20, <1>a, NoneAssumption DEF vars
<1>q. QED
  BY <1>1, <1>2, <1>3, <1>4, <1>5, <1>6, <1>7, <1>8, <1>9, <1>10, <1>11,
     <1>12, <1>13, <1>14, <1>15, <1>16, <1>17, <1>18, <1>19, <1>20
  DEF Next, Apply

-----------------------------------------------------------------------------
LEMMA InductiveInvariant == Spec => [](Linked /\ Settled)
<1>1. Init => Linked /\ Settled
  BY LinkedInit, SettledInit
<1>2. Linked /\ Settled /\ [Next]_vars => (Linked /\ Settled)'
  <2>1. ASSUME Linked, Settled, [Next]_vars
        PROVE  Linked'
    BY <2>1, TypeNext, LinksNext DEF Linked
  <2>2. QED
    BY <2>1, SettledNext
<1>3. QED
  BY <1>1, <1>2, PTL DEF Spec

(* Whatever the handlers, the jobs and the bank do, and in whatever order, *)
(* the rows keep their types and no step reads a row that is not there.    *)
THEOREM TypeCorrect == Spec => []TypeOK
<1>1. Linked => TypeOK
  BY DEF Linked
<1>2. QED
  BY <1>1, InductiveInvariant, PTL

(* The rows agree with each other and with the bank: an invoice is shown   *)
(* as paid exactly when its payment exists, a payment exists only for      *)
(* money the bank took, and a request is paid exactly when one of its      *)
(* invoices is, for any number of answers applied late, twice or out of    *)
(* order.                                                                  *)
THEOREM PaymentsAreExact ==
  Spec => [](SuccessMeansPayment /\ NoPaymentWithoutMoney /\ PaidMeansPaidInvoice)
<1>1. Settled => SuccessMeansPayment /\ NoPaymentWithoutMoney /\ PaidMeansPaidInvoice
  BY DEF Settled
<1>2. QED
  BY <1>1, InductiveInvariant, PTL

(* A payment exists only for money the bank took, and a request is paid    *)
(* exactly when one of its invoices is (applyInvoiceStatus).               *)
THEOREM PaymentsHaveMoney == Spec => []MoneyBacksPayments
<1>1. Settled => MoneyBacksPayments
  BY DEF Settled, MoneyBacksPayments
<1>2. QED
  BY <1>1, InductiveInvariant, PTL

-----------------------------------------------------------------------------
LEMMA OutcomeStandsNext ==
  ASSUME Linked, [Next]_vars, NEW i \in Invoices
  PROVE  OutcomeStands(i)
<1> USE DEF OutcomeStands
<1>1. ASSUME NEW d \in drafts, InsertInvoice(d)
      PROVE  OutcomeStands(i)
  BY <1>1 DEF InsertInvoice, Linked, TypeOK, DraftsLinked
<1>2. ASSUME NEW a \in answers, RecordFailure(a)
      PROVE  OutcomeStands(i)
  BY <1>2 DEF RecordFailure, SetInvoice, isFinal, Linked, TypeOK, Answer
<1>3. ASSUME NEW a \in answers, RecordMismatch(a) \/ Credit(a)
      PROVE  OutcomeStands(i)
  <2>1. a.invoice \in Invoices /\ TypeOK
    BY DEF Linked, TypeOK, Answer
  <2>2. i # a.invoice => invoice'[i] = invoice[i]
    BY <1>3, <2>1 DEF RecordMismatch, Credit, SetInvoice, TypeOK
  <2>3. isSettled(invoice'[a.invoice].status)
    <3>1. PICK status \in {"mismatch", "success"} :
            invoice[a.invoice] # None /\ SetInvoice(a.invoice, status)
      BY <1>3 DEF RecordMismatch, Credit
    <3>2. invoice'[a.invoice].status = status
      BY <2>1, <3>1, InvoiceUpdate DEF SetInvoice, TypeOK, InvoiceStatus
    <3>3. QED
      BY <3>2 DEF isSettled
  <2>4. /\ invoice[a.invoice] # None
        /\ invoice[a.invoice].status \in {"pending", "failure", "expired"}
    BY <1>3, <2>1
    DEF RecordMismatch, Credit, isSettled, TypeOK, InvoiceRow, InvoiceStatus
  <2>5. QED
    BY <2>2, <2>3, <2>4
<1>4. CASE UNCHANGED invoice
  BY <1>4
<1>5. QED
  BY <1>1, <1>2, <1>3, <1>4
  DEF Next, Apply, vars, rows, CreateLink, OpenLateLink, BeginCancel, Cancel,
      PayFromCabinet, PayLink, LoseDraft, ExpireRequests, ReceiveWebhook,
      PollByParent, SyncPending, Read, Ignore, FailToApply, BankMoves, Tick

(* A late answer never overturns an outcome: what was paid stays paid, what*)
(* was given up changes only when money came after all.                    *)
THEOREM LateAnswersNeverOverturn == Spec => OutcomesStand
<1>1. Linked /\ [Next]_vars => [\A i \in Invoices : OutcomeStands(i)]_vars
  BY OutcomeStandsNext
<1>2. QED
  BY <1>1, InductiveInvariant, PTL DEF Spec, OutcomesStand

=============================================================================
