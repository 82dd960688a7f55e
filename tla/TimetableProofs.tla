-------------------------- MODULE TimetableProofs --------------------------
(***************************************************************************)
(* What holds of the timetable for any classes, bells, subgroups and       *)
(* timetables, any list of changes, and any number of managers who check   *)
(* and write in two steps and of teachers who save.  What is recorded in   *)
(* time stands, if no two managers make timetables for one class at once;  *)
(* nobody is booked twice, if managers take turns.  Most of it is about    *)
(* the loop of slotsForDay, and is by induction over its steps.            *)
(***************************************************************************)
EXTENDS Timetable, FiniteSetTheorems, NaturalsInduction, WellFoundedInduction,
        TLAPS

-----------------------------------------------------------------------------
(* The loop over the changes of a class                                    *)

LEMMA LeastOf ==
  ASSUME NEW S \in SUBSET Nat, S # {}
  PROVE  \E n \in S : \A m \in S : n <= m
<1> DEFINE R == OpToRel(<, Nat)
<1>1. \A m, n \in Nat : m < n => <<m, n>> \in R
  BY DEF OpToRel
<1>2. IsWellFoundedOn(R, Nat)
  BY NatLessThanWellFounded
<1> HIDE DEF R
<1>3. PICK n \in S : \A m \in S : <<m, n>> \notin R
  BY <1>2, WFMin
<1>4. \A m \in S : ~(m < n)
  BY <1>1, <1>3
<1> QED
  BY <1>4

(* Induction up to a bound.                                                *)
LEMMA UpTo ==
  ASSUME NEW N \in Nat, NEW S, 0 \in S,
         \A n \in 1..N : n - 1 \in S => n \in S
  PROVE  0..N \subseteq S
<1> DEFINE Missing == {n \in 0..N : n \notin S}
<1> SUFFICES ASSUME Missing # {} PROVE FALSE
  OBVIOUS
<1>1. PICK n \in Missing : \A m \in Missing : n <= m
  <2>1. Missing \in SUBSET Nat
    OBVIOUS
  <2> HIDE DEF Missing
  <2> QED
    BY <2>1, LeastOf
<1>2. n \in 1..N /\ n - 1 \in 0..N /\ ~(n <= n - 1)
  BY <1>1
<1> QED
  BY <1>1, <1>2

skipped(ch, day) == ch.voided \/ ch.day # day

(* after[n] are the slots once the first n changes are applied.            *)
IsLoop(after, entries, day, list) ==
  /\ after[0] = planned(entries, day)
  /\ \A n \in 1..Len(list) :
       after[n] = IF skipped(list[n], day) THEN after[n - 1]
                  ELSE applyChange(after[n - 1], list[n])

LEMMA LoopExists ==
  ASSUME NEW entries, NEW day, NEW list, Len(list) \in Nat
  PROVE  \E after : /\ IsLoop(after, entries, day, list)
                    /\ slotsForDay(day, TRUE, entries, list) =
                         after[Len(list)]
<1> DEFINE body(f, n) ==
             IF n = 0 THEN planned(entries, day)
             ELSE IF list[n].voided \/ list[n].day # day THEN f[n - 1]
             ELSE applyChange(f[n - 1], list[n])
           step(f) == [n \in 0..Len(list) |-> body(f, n)]
           upTo(f, n) == \A m \in 0..n : f[m] = body(f, m)
           S == {n \in 0..Len(list) : \E f : upTo(f, n)}
           loop == CHOOSE f : f = step(f)
<1>1. 0 \in S
  <2>1. upTo([m \in {0} |-> planned(entries, day)], 0)
    OBVIOUS
  <2>2. 0 \in 0..Len(list)
    OBVIOUS
  <2> HIDE DEF upTo
  <2> QED
    BY <2>1, <2>2
<1>2. ASSUME NEW n \in 1..Len(list), n - 1 \in S PROVE n \in S
  <2>1. PICK f : upTo(f, n - 1)
    BY <1>2
  <2> DEFINE g == [m \in 0..n |-> body(f, m)]
  <2>2. ASSUME NEW m \in 0..n PROVE g[m] = body(g, m)
    <3>1. CASE m = 0
      BY <3>1
    <3>2. CASE m # 0
      <4>1. m - 1 \in 0..n - 1 /\ m - 1 \in 0..n
        BY <3>2
      <4>2. g[m - 1] = f[m - 1]
        BY <4>1, <2>1
      <4>3. g[m] = body(f, m)
        OBVIOUS
      <4> QED
        BY <3>2, <4>2, <4>3
    <3> QED
      BY <3>1, <3>2
  <2>3. upTo(g, n)
    <3> HIDE DEF g, body
    <3> QED
      BY <2>2
  <2> HIDE DEF upTo
  <2> QED
    BY <2>3
<1>3. Len(list) \in S
  <2> DEFINE N == Len(list)
  <2>1. N \in Nat /\ \A n \in 1..N : n - 1 \in S => n \in S
    BY <1>2
  <2> HIDE DEF S, N
  <2>2. 0..N \subseteq S
    BY <1>1, <2>1, UpTo
  <2>3. N \in 0..N
    BY <2>1
  <2> QED
    BY <2>2, <2>3 DEF N
<1>4. PICK f : upTo(f, Len(list))
  BY <1>3
<1>5. \E g : g = step(g)
  <2> DEFINE g == step(f)
  <2>1. ASSUME NEW m \in 0..Len(list) PROVE g[m] = f[m]
    <3> HIDE DEF body
    <3> QED
      BY <1>4
  <2>2. ASSUME NEW m \in 0..Len(list) PROVE body(g, m) = body(f, m)
    <3>1. m # 0 => m - 1 \in 0..Len(list)
      OBVIOUS
    <3>2. m # 0 => g[m - 1] = f[m - 1]
      BY <3>1, <2>1
    <3> HIDE DEF g
    <3> QED
      BY <3>2
  <2>3. step(g) = g
    <3> HIDE DEF body
    <3> QED
      BY <2>2
  <2> QED
    BY <2>3
<1>6. loop = step(loop)
  <2> HIDE DEF step
  <2> QED
    BY <1>5
<1>7. \A n \in 0..Len(list) : loop[n] = body(loop, n)
  <2> HIDE DEF body, loop
  <2> QED
    BY <1>6
<1>8. slotsForDay(day, TRUE, entries, list) = loop[Len(list)]
  BY DEF slotsForDay
<1> HIDE DEF loop
<1>9. IsLoop(loop, entries, day, list)
  <2>1. loop[0] = planned(entries, day)
    BY <1>7
  <2>2. ASSUME NEW n \in 1..Len(list)
        PROVE  loop[n] = IF skipped(list[n], day) THEN loop[n - 1]
                         ELSE applyChange(loop[n - 1], list[n])
    <3>1. n \in 0..Len(list) /\ n # 0
      OBVIOUS
    <3> QED
      BY <1>7, <3>1 DEF skipped
  <2> QED
    BY <2>1, <2>2 DEF IsLoop
<1> QED
  BY <1>8, <1>9

-----------------------------------------------------------------------------
(* Slots                                                                   *)

Slot(c) ==
  [period: DOMAIN Bell[c], subgroup: Subgroups, teacher: Teachers,
   room: Rooms \cup {None}, change: (1..MaxChanges) \cup {None},
   cancelled: BOOLEAN]

due(entries, day) ==
  {e \in entries : e.weekday = Week[day].weekday /\ parityMatches(e.parity, day)}

(* Each entry that is due is a slot, once.                                 *)
LEMMA PlannedSlots ==
  ASSUME NEW c \in Classes, NEW day,
         NEW entries \in SUBSET EntryRow(c), IsFiniteSet(entries)
  PROVE  LET plan == planned(entries, day)
         IN /\ plan \in Seq(Slot(c))
            /\ \A i \in DOMAIN plan :
                 \E e \in due(entries, day) : plan[i] = slot(e, None)
            /\ \A e \in due(entries, day) :
                 \E i \in DOMAIN plan : plan[i] = slot(e, None)
            /\ \A i, j \in DOMAIN plan : plan[i] = plan[j] => i = j
<1> DEFINE D == due(entries, day)
           S == {slot(e, None) : e \in D}
           f == [e \in D |-> slot(e, None)]
           plan == planned(entries, day)
<1>1. IsFiniteSet(S)
  <2>1. IsFiniteSet(D)
    BY FS_Subset DEF due
  <2>2. f \in Surjection(D, S)
    BY DEF Surjection
  <2> HIDE DEF f, S, D
  <2> QED
    BY <2>1, <2>2, FS_Surjection
<1>2. S \subseteq Slot(c)
  <2> SUFFICES ASSUME NEW e \in D PROVE slot(e, None) \in Slot(c)
    OBVIOUS
  <2>1. e \in EntryRow(c)
    BY DEF due
  <2> QED
    BY <2>1 DEF EntryRow, Slot, slot
<1>3. plan = SeqsExt!SetToSeq(S)
  BY DEF planned, due
<1> HIDE DEF S
<1> DEFINE N == Cardinality(S)
<1>4. N \in Nat /\ \E g : g \in Bijection(1..N, S)
  BY <1>1, FS_CardinalityType DEF ExistsBijection
<1>5. \E g \in [1..N -> S] : SeqsExt!IsInjective(g)
  BY <1>4 DEF Bijection, Injection, Surjection, IsInjective, SeqsExt!IsInjective
<1>6. plan \in [1..N -> S] /\ SeqsExt!IsInjective(plan)
  <2>1. plan = CHOOSE g \in [1..N -> S] : SeqsExt!IsInjective(g)
    BY <1>3 DEF SeqsExt!SetToSeq, SeqsExt!Cardinality, Cardinality
  <2> HIDE DEF plan, N
  <2> QED
    BY <1>5, <2>1
<1>7. plan \in Bijection(1..N, S)
  <2>1. plan \in Injection(1..N, S)
    BY <1>6 DEF Injection, IsInjective, SeqsExt!IsInjective
  <2>2. IsFiniteSet(1..N) /\ Cardinality(1..N) = N
    BY <1>4, FS_Interval
  <2> HIDE DEF plan
  <2>3. plan \in Surjection(1..N, S)
    BY <1>1, <2>1, <2>2, FS_Injection
  <2> QED
    BY <2>1, <2>3 DEF Bijection
<1> HIDE DEF plan
<1>8. plan \in Seq(S) /\ DOMAIN plan = 1..N
  BY <1>4, <1>6
<1>9. plan \in Seq(Slot(c))
  BY <1>2, <1>8
<1>10. \A s \in S : \E i \in DOMAIN plan : plan[i] = s
  BY <1>7, <1>8 DEF Bijection, Surjection
<1>11. \A i, j \in DOMAIN plan : plan[i] = plan[j] => i = j
  BY <1>6, <1>8 DEF SeqsExt!IsInjective
<1>12. \A i \in DOMAIN plan : \E e \in D : plan[i] = slot(e, None)
  BY <1>6, <1>8 DEF S
<1>13. \A e \in D : \E i \in DOMAIN plan : plan[i] = slot(e, None)
  BY <1>10 DEF S
<1> QED
  BY <1>9, <1>11, <1>12, <1>13 DEF plan

(* A change leaves a slot where it is, and holds it unless it cancels it.  *)
LEMMA ChangedSlot ==
  ASSUME NEW c \in Classes, NEW s \in Slot(c), NEW ch \in StoredChange(c)
  PROVE  LET new == changedSlot(s, ch)
         IN /\ new \in Slot(c)
            /\ new.period = s.period /\ new.subgroup = s.subgroup
            /\ new.change = ch.id
            /\ new.cancelled = IF ch.type = "cancel" THEN TRUE ELSE s.cancelled
<1> DEFINE given(new, old) == IF new = None THEN old ELSE new
<1>1. CASE ch.type = "cancel"
  <2>1. changedSlot(s, ch) =
          [period |-> s.period, subgroup |-> s.subgroup, teacher |-> s.teacher,
           room |-> s.room, change |-> ch.id, cancelled |-> TRUE]
    BY <1>1 DEF changedSlot, Slot
  <2> QED
    BY <1>1, <2>1 DEF Slot, StoredChange
<1>2. CASE ch.type # "cancel"
  <2>1. changedSlot(s, ch) =
          [period |-> s.period, subgroup |-> s.subgroup,
           teacher |-> given(ch.teacher, s.teacher),
           room |-> given(ch.room, s.room),
           change |-> ch.id, cancelled |-> s.cancelled]
    BY <1>2 DEF changedSlot, Slot
  <2>2. /\ given(ch.teacher, s.teacher) \in Teachers
        /\ given(ch.room, s.room) \in Rooms \cup {None}
    BY DEF Slot, StoredChange
  <2> HIDE DEF given
  <2> QED
    BY <1>2, <2>1, <2>2 DEF Slot, StoredChange
<1> QED
  BY <1>1, <1>2

first(slots, ch, t) ==
  /\ t \in heldAt(slots, ch.period, ch.subgroup)
  /\ \A j \in heldAt(slots, ch.period, ch.subgroup) : t <= j

LEMMA ApplyHit ==
  ASSUME NEW c \in Classes, NEW slots \in Seq(Slot(c)), NEW ch \in StoredChange(c),
         ch.type # "extra", heldAt(slots, ch.period, ch.subgroup) # {}
  PROVE  /\ applyChange(slots, ch) \in Seq(Slot(c))
         /\ \E t \in DOMAIN slots :
              /\ first(slots, ch, t)
              /\ slots[t] \in Slot(c) /\ sameLesson(slots[t], ch)
              /\ ~slots[t].cancelled
              /\ applyChange(slots, ch) =
                   [slots EXCEPT ![t] = changedSlot(slots[t], ch)]
<1> DEFINE hit == heldAt(slots, ch.period, ch.subgroup)
           new == applyChange(slots, ch)
           t == CHOOSE i \in hit : \A j \in hit : i <= j
<1>1. hit \in SUBSET Nat
  BY DEF heldAt
<1>2. t \in hit /\ \A j \in hit : t <= j
  <2>1. \E i \in hit : \A j \in hit : i <= j
    <3> HIDE DEF hit
    <3> QED
      BY <1>1, LeastOf DEF hit
  <2> HIDE DEF hit
  <2> QED
    BY <2>1
<1>3. new = [slots EXCEPT ![t] = changedSlot(slots[t], ch)]
  BY DEF applyChange
<1> HIDE DEF t, new
<1>4. /\ t \in DOMAIN slots /\ slots[t] \in Slot(c)
      /\ sameLesson(slots[t], ch) /\ ~slots[t].cancelled
  BY <1>2 DEF heldAt, sameLesson
<1>5. changedSlot(slots[t], ch) \in Slot(c)
  BY <1>4, ChangedSlot
<1>6. new \in Seq(Slot(c))
  BY <1>3, <1>4, <1>5
<1>7. first(slots, ch, t)
  BY <1>2 DEF first
<1> QED
  BY <1>3, <1>4, <1>6, <1>7 DEF new

LEMMA ApplyCases ==
  ASSUME NEW c \in Classes, NEW slots \in Seq(Slot(c)), NEW ch \in StoredChange(c)
  PROVE  /\ applyChange(slots, ch) \in Seq(Slot(c))
         /\ ch.type = "extra" =>
              applyChange(slots, ch) = Append(slots, slot(ch, ch.id))
         /\ ch.type # "extra" /\ heldAt(slots, ch.period, ch.subgroup) = {} =>
              applyChange(slots, ch) = slots
<1>1. CASE ch.type = "extra"
  <2>1. applyChange(slots, ch) = Append(slots, slot(ch, ch.id))
    BY <1>1 DEF applyChange
  <2>2. slot(ch, ch.id) \in Slot(c)
    BY <1>1 DEF slot, Slot, StoredChange
  <2> QED
    BY <1>1, <2>1, <2>2
<1>2. CASE ch.type # "extra" /\ heldAt(slots, ch.period, ch.subgroup) = {}
  BY <1>2 DEF applyChange
<1>3. CASE ch.type # "extra" /\ heldAt(slots, ch.period, ch.subgroup) # {}
  BY <1>3, ApplyHit
<1> QED
  BY <1>1, <1>2, <1>3

-----------------------------------------------------------------------------
(* The slots of a day                                                      *)

Timetabled(c, entries) == entries \in SUBSET EntryRow(c) /\ IsFiniteSet(entries)

LEMMA LoopType ==
  ASSUME NEW c \in Classes, NEW day, NEW entries, Timetabled(c, entries),
         NEW list \in Seq(StoredChange(c)), NEW after,
         IsLoop(after, entries, day, list)
  PROVE  \A n \in 0..Len(list) : after[n] \in Seq(Slot(c))
<1> DEFINE S == {n \in 0..Len(list) : after[n] \in Seq(Slot(c))}
           N == Len(list)
<1>1. N \in Nat
  OBVIOUS
<1>2. 0 \in S
  BY PlannedSlots, <1>1 DEF IsLoop, Timetabled
<1>3. ASSUME NEW n \in 1..N, n - 1 \in S PROVE n \in S
  <2>1. list[n] \in StoredChange(c)
    OBVIOUS
  <2>2. after[n] = after[n - 1] \/ after[n] = applyChange(after[n - 1], list[n])
    BY DEF IsLoop
  <2>3. applyChange(after[n - 1], list[n]) \in Seq(Slot(c))
    BY <1>3, <2>1, ApplyCases
  <2> QED
    BY <1>3, <2>2, <2>3
<1> HIDE DEF S, N
<1>4. 0..N \subseteq S
  BY <1>1, <1>2, <1>3, UpTo
<1> QED
  BY <1>4 DEF S, N

(* Two loops are alike as long as their changes are.                       *)
LEMMA LoopsAgree ==
  ASSUME NEW day, NEW entries, NEW list, NEW other, NEW f, NEW g, NEW N \in Nat,
         Len(list) \in Nat, Len(other) \in Nat, N <= Len(list), N <= Len(other),
         IsLoop(f, entries, day, list), IsLoop(g, entries, day, other),
         \A n \in 1..N : list[n] = other[n]
  PROVE  \A n \in 0..N : f[n] = g[n]
<1> DEFINE S == {n \in 0..N : f[n] = g[n]}
<1>1. 0 \in S
  BY DEF IsLoop
<1>2. ASSUME NEW n \in 1..N, n - 1 \in S PROVE n \in S
  <2>1. n \in 1..Len(list) /\ n \in 1..Len(other)
    OBVIOUS
  <2> QED
    BY <1>2, <2>1 DEF IsLoop
<1> HIDE DEF S
<1>3. 0..N \subseteq S
  BY <1>1, <1>2, UpTo
<1> QED
  BY <1>3 DEF S

slotsOf(entries, day, list) == slotsForDay(day, TRUE, entries, list)

LEMMA SlotsType ==
  ASSUME NEW c \in Classes, NEW day, NEW entries, Timetabled(c, entries),
         NEW list \in Seq(StoredChange(c))
  PROVE  slotsOf(entries, day, list) \in Seq(Slot(c))
<1>1. Len(list) \in Nat
  OBVIOUS
<1>2. PICK f : /\ IsLoop(f, entries, day, list)
               /\ slotsOf(entries, day, list) = f[Len(list)]
  BY <1>1, LoopExists DEF slotsOf
<1>3. \A n \in 0..Len(list) : f[n] \in Seq(Slot(c))
  BY <1>2, LoopType
<1> QED
  BY <1>1, <1>2, <1>3

(* A change made last is applied last.                                     *)
LEMMA OneMore ==
  ASSUME NEW day, NEW entries, NEW S, NEW list \in Seq(S), NEW ch
  PROVE  slotsOf(entries, day, Append(list, ch)) =
           IF skipped(ch, day) THEN slotsOf(entries, day, list)
           ELSE applyChange(slotsOf(entries, day, list), ch)
<1> DEFINE other == Append(list, ch)
           N == Len(list)
<1>1. /\ N \in Nat /\ Len(other) \in Nat
      /\ Len(other) = N + 1 /\ other[N + 1] = ch
  OBVIOUS
<1>2. \A n \in 1..N : list[n] = other[n]
  OBVIOUS
<1>3. PICK f : IsLoop(f, entries, day, list) /\ slotsOf(entries, day, list) = f[N]
  BY <1>1, LoopExists DEF slotsOf
<1> HIDE DEF other
<1>4. PICK g : /\ IsLoop(g, entries, day, other)
               /\ slotsOf(entries, day, other) = g[N + 1]
  BY ZenonT(30), <1>1, LoopExists DEF slotsOf
<1>5. f[N] = g[N]
  <2>1. \A n \in 0..N : f[n] = g[n]
    <3> HIDE DEF N
    <3> QED
      BY <1>1, <1>2, <1>3, <1>4, LoopsAgree DEF N
  <2> QED
    BY <2>1, <1>1
<1>6. g[N + 1] = IF skipped(ch, day) THEN g[N] ELSE applyChange(g[N], ch)
  BY <1>1, <1>4 DEF IsLoop
<1> QED
  BY <1>3, <1>4, <1>5, <1>6 DEF other

-----------------------------------------------------------------------------
(* Taking a change back                                                    *)

voidedAt(list, k) == [list EXCEPT ![k].voided = TRUE]

LEMMA VoidedChange ==
  ASSUME NEW c \in Classes, NEW ch \in StoredChange(c)
  PROVE  LET new == [ch EXCEPT !.voided = TRUE]
         IN new \in StoredChange(c) /\ new.voided /\ new.day = ch.day
<1> DEFINE new == [ch EXCEPT !.voided = TRUE]
           same == [day |-> ch.day, period |-> ch.period,
                    subgroup |-> ch.subgroup, type |-> ch.type,
                    teacher |-> ch.teacher, room |-> ch.room, id |-> ch.id,
                    voided |-> ch.voided]
<1>1. new = [day |-> ch.day, period |-> ch.period, subgroup |-> ch.subgroup,
             type |-> ch.type, teacher |-> ch.teacher, room |-> ch.room,
             id |-> ch.id, voided |-> TRUE]
  <2>1. ch = same
    BY DEF StoredChange
  <2>2. new = [same EXCEPT !.voided = TRUE]
    BY <2>1
  <2> HIDE DEF new
  <2> QED
    BY <2>2
<1> HIDE DEF new
<1>2. new.voided /\ new.day = ch.day
  BY <1>1
<1>3. new \in StoredChange(c)
  BY <1>1 DEF StoredChange
<1> QED
  BY <1>2, <1>3 DEF new

LEMMA VoidedList ==
  ASSUME NEW c \in Classes, NEW list \in Seq(StoredChange(c)),
         NEW k \in DOMAIN list
  PROVE  LET other == voidedAt(list, k)
         IN /\ other \in Seq(StoredChange(c))
            /\ Len(other) = Len(list)
            /\ \A n \in DOMAIN list \ {k} : other[n] = list[n]
            /\ other[k] = [list[k] EXCEPT !.voided = TRUE]
            /\ other[k].voided /\ other[k].day = list[k].day
<1> DEFINE new == [list[k] EXCEPT !.voided = TRUE]
<1>1. new \in StoredChange(c) /\ new.voided /\ new.day = list[k].day
  BY VoidedChange
<1>2. voidedAt(list, k) = [list EXCEPT ![k] = new]
  BY DEF voidedAt
<1> HIDE DEF new
<1>3. voidedAt(list, k) \in Seq(StoredChange(c)) /\ voidedAt(list, k)[k] = new
  BY <1>1, <1>2
<1>4. /\ Len(voidedAt(list, k)) = Len(list)
      /\ \A n \in DOMAIN list \ {k} : voidedAt(list, k)[n] = list[n]
  BY <1>1, <1>2
<1> QED
  BY <1>1, <1>3, <1>4 DEF new

(* Both loops, with the change k and without it.                           *)
TwoLoops(f, g, entries, day, list, k) ==
  /\ IsLoop(f, entries, day, list)
  /\ IsLoop(g, entries, day, voidedAt(list, k))
  /\ slotsOf(entries, day, list) = f[Len(list)]
  /\ slotsOf(entries, day, voidedAt(list, k)) = g[Len(list)]

(* They agree before the change; from it on each applies the same changes. *)
PartAt(c, f, g, entries, day, list, k) ==
  /\ TwoLoops(f, g, entries, day, list, k)
  /\ \A n \in 0..Len(list) : f[n] \in Seq(Slot(c)) /\ g[n] \in Seq(Slot(c))
  /\ f[k - 1] = g[k - 1] /\ g[k] = f[k - 1]
  /\ f[k] = IF skipped(list[k], day) THEN f[k - 1]
            ELSE applyChange(f[k - 1], list[k])
  /\ \A n \in k + 1..Len(list) :
       /\ list[n] \in StoredChange(c)
       /\ skipped(list[n], day) => f[n] = f[n - 1] /\ g[n] = g[n - 1]
       /\ ~skipped(list[n], day) =>
            /\ f[n] = applyChange(f[n - 1], list[n])
            /\ g[n] = applyChange(g[n - 1], list[n])

LEMMA VoidedLoop ==
  ASSUME NEW c \in Classes, NEW day, NEW entries, Timetabled(c, entries),
         NEW list \in Seq(StoredChange(c)), NEW k \in DOMAIN list
  PROVE  \E f, g : PartAt(c, f, g, entries, day, list, k)
<1> DEFINE other == voidedAt(list, k)
           N == Len(list)
<1>1. /\ N \in Nat /\ Len(other) = N /\ other \in Seq(StoredChange(c))
      /\ k \in 1..N /\ other[k].voided
      /\ \A n \in 1..N : n # k => other[n] = list[n]
  <2>1. N \in Nat /\ k \in 1..N /\ DOMAIN list = 1..N
    OBVIOUS
  <2> HIDE DEF other, N
  <2>2. /\ Len(other) = N /\ other \in Seq(StoredChange(c)) /\ other[k].voided
        /\ \A n \in DOMAIN list \ {k} : other[n] = list[n]
    BY VoidedList DEF other, N
  <2> QED
    BY <2>1, <2>2
<1>2. PICK f : IsLoop(f, entries, day, list) /\ slotsOf(entries, day, list) = f[N]
  BY <1>1, LoopExists DEF slotsOf
<1>3. PICK g : IsLoop(g, entries, day, other) /\ slotsOf(entries, day, other) = g[N]
  <2> HIDE DEF other, N
  <2> QED
    BY <1>1, LoopExists DEF slotsOf
<1>4. /\ \A n \in 0..N : f[n] \in Seq(Slot(c))
      /\ \A n \in 0..N : g[n] \in Seq(Slot(c))
  <2>1. \A n \in 0..N : f[n] \in Seq(Slot(c))
    BY <1>2, LoopType
  <2> HIDE DEF other
  <2>2. \A n \in 0..N : g[n] \in Seq(Slot(c))
    BY <1>1, <1>3, LoopType
  <2> QED
    BY <2>1, <2>2
<1>5. f[k - 1] = g[k - 1]
  <2> DEFINE j == k - 1
  <2>1. /\ j \in Nat /\ j <= N /\ \A n \in 1..j : list[n] = other[n]
        /\ Len(list) \in Nat /\ Len(other) \in Nat
        /\ j <= Len(list) /\ j <= Len(other)
    BY <1>1
  <2> HIDE DEF other, N, j
  <2>2. \A n \in 0..j : f[n] = g[n]
    BY <1>2, <1>3, <2>1, LoopsAgree
  <2> QED
    BY <2>1, <2>2 DEF j
<1> HIDE DEF other
<1>6. g[k] = g[k - 1]
  BY <1>1, <1>3 DEF IsLoop, skipped
<1>7. f[k] = IF skipped(list[k], day) THEN f[k - 1]
             ELSE applyChange(f[k - 1], list[k])
  BY <1>1, <1>2 DEF IsLoop
<1>8. ASSUME NEW n \in k + 1..N
      PROVE  /\ list[n] \in StoredChange(c)
             /\ skipped(list[n], day) => f[n] = f[n - 1] /\ g[n] = g[n - 1]
             /\ ~skipped(list[n], day) =>
                  /\ f[n] = applyChange(f[n - 1], list[n])
                  /\ g[n] = applyChange(g[n - 1], list[n])
  <2>1. n \in 1..N /\ n # k /\ other[n] = list[n] /\ n \in 1..Len(other)
    BY <1>1
  <2> QED
    BY <1>2, <1>3, <2>1 DEF IsLoop
<1>9. TwoLoops(f, g, entries, day, list, k)
  BY <1>2, <1>3 DEF TwoLoops, other
<1> QED
  BY <1>4, <1>5, <1>6, <1>7, <1>8, <1>9 DEF PartAt

(* Induction along a list from one place on.                               *)
LEMMA FromOn ==
  ASSUME NEW k \in Nat, NEW N \in Nat, k <= N, NEW S, k \in S,
         \A n \in k + 1..N : n - 1 \in S => n \in S
  PROVE  N \in S
<1> DEFINE T == {n \in 0..N : n < k \/ n \in S}
<1>1. 0 \in T
  OBVIOUS
<1>2. \A n \in 1..N : n - 1 \in T => n \in T
  OBVIOUS
<1>3. 0..N \subseteq T
  <2> HIDE DEF T
  <2> QED
    BY <1>1, <1>2, UpTo
<1> QED
  BY <1>3

(* The slots of a day applied one by one: the first that is held.          *)
LEMMA ApplyPoint ==
  ASSUME NEW c \in Classes, NEW F \in Seq(Slot(c)), NEW ch \in StoredChange(c),
         ch.type # "extra"
  PROVE  /\ Len(applyChange(F, ch)) = Len(F)
         /\ \A i \in 1..Len(F) :
              applyChange(F, ch)[i] =
                IF first(F, ch, i) THEN changedSlot(F[i], ch) ELSE F[i]
<1> DEFINE hit == heldAt(F, ch.period, ch.subgroup)
           G == applyChange(F, ch)
<1>1. CASE hit = {}
  <2>1. \A i \in 1..Len(F) : ~first(F, ch, i)
    BY <1>1 DEF first
  <2> QED
    BY <1>1, <2>1, ApplyCases
<1>2. CASE hit # {}
  <2>1. \E t \in DOMAIN F :
          first(F, ch, t) /\ G = [F EXCEPT ![t] = changedSlot(F[t], ch)]
    BY SMTT(30), <1>2, ApplyHit
  <2> HIDE DEF G
  <2>2. PICK t \in DOMAIN F :
          first(F, ch, t) /\ G = [F EXCEPT ![t] = changedSlot(F[t], ch)]
    BY <2>1
  <2>3. \A i \in 1..Len(F) : first(F, ch, i) => i = t
    BY <2>2 DEF first, heldAt
  <2> QED
    BY <2>2, <2>3 DEF G
<1> QED
  BY <1>1, <1>2

-----------------------------------------------------------------------------
(* Two lists of slots, of which the first may have a slot more, at m       *)

place(i, m) == IF m = 0 \/ i < m THEN i ELSE i + 1

(* They are the same but for the lessons at the time of the change.        *)
Parallel(B, S, m, ch) ==
  /\ Len(B) = Len(S) + (IF m = 0 THEN 0 ELSE 1)
  /\ m \in 0..Len(B)
  /\ m # 0 => sameLesson(B[m], ch)
  /\ \A i \in 1..Len(S) :
       /\ sameLesson(B[place(i, m)], ch) <=> sameLesson(S[i], ch)
       /\ ~sameLesson(S[i], ch) => B[place(i, m)] = S[i]

LEMMA Places ==
  ASSUME NEW N \in Nat, NEW M \in Nat, NEW m \in Nat, m <= M,
         m = 0 => M = N, m # 0 => M = N + 1
  PROVE  /\ \A i \in 1..N : place(i, m) \in 1..M /\ place(i, m) # m
         /\ \A i, j \in 1..N : place(i, m) <= place(j, m) <=> i <= j
         /\ \A i, j \in 1..N : place(i, m) = place(j, m) => i = j
BY DEF place

LEMMA PlaceOf ==
  ASSUME NEW N \in Nat, NEW M \in Nat, NEW m \in Nat, m <= M,
         m = 0 => M = N, m # 0 => M = N + 1, NEW b \in 1..M, b # m
  PROVE  \E i \in 1..N : b = place(i, m)
<1>1. CASE m = 0 \/ b < m
  <2>1. b \in 1..N /\ b = place(b, m)
    BY <1>1 DEF place
  <2> QED
    BY <2>1
<1>2. CASE m # 0 /\ b > m
  <2>1. b - 1 \in 1..N /\ b = place(b - 1, m)
    BY <1>2 DEF place
  <2> QED
    BY <2>1
<1> QED
  BY <1>1, <1>2

on(F, ch, i) == ~F[i].cancelled /\ sameLesson(F[i], ch)

LEMMA FirstOn ==
  ASSUME NEW c \in Classes, NEW F \in Seq(Slot(c)), NEW ch, NEW i \in 1..Len(F)
  PROVE  first(F, ch, i) <=>
           on(F, ch, i) /\ \A j \in 1..Len(F) : on(F, ch, j) => i <= j
BY DEF first, heldAt, on, sameLesson

LEMMA SameFirst ==
  ASSUME NEW c \in Classes, NEW B \in Seq(Slot(c)), NEW S \in Seq(Slot(c)),
         NEW m, NEW ch, NEW x, Parallel(B, S, m, ch),
         \A i \in 1..Len(S) : on(S, x, i) <=> on(B, x, place(i, m)),
         m # 0 => ~on(B, x, m)
  PROVE  /\ \A i \in 1..Len(S) : first(S, x, i) <=> first(B, x, place(i, m))
         /\ m # 0 => ~first(B, x, m)
<1> DEFINE N == Len(S)
           M == Len(B)
<1>1. /\ N \in Nat /\ M \in Nat /\ m \in Nat /\ m <= M
      /\ (m = 0 => M = N) /\ (m # 0 => M = N + 1)
  BY DEF Parallel
<1>2. /\ \A i \in 1..N : place(i, m) \in 1..M
      /\ \A i, j \in 1..N : place(i, m) <= place(j, m) <=> i <= j
      /\ \A b \in 1..M : b # m => \E i \in 1..N : b = place(i, m)
  <2> HIDE DEF N, M
  <2>1. \A i \in 1..N : place(i, m) \in 1..M
    BY <1>1, Places
  <2>2. \A i, j \in 1..N : place(i, m) <= place(j, m) <=> i <= j
    BY <1>1, Places
  <2>3. ASSUME NEW b \in 1..M, b # m PROVE \E i \in 1..N : b = place(i, m)
    BY ZenonT(30), <1>1, <2>3, PlaceOf
  <2> QED
    BY <2>1, <2>2, <2>3
<1>3. ASSUME NEW i \in 1..N
      PROVE  first(S, x, i) <=> first(B, x, place(i, m))
  <2> DEFINE p == place(i, m)
  <2>1. p \in 1..M
    BY <1>2
  <2> HIDE DEF p
  <2>2. first(B, x, p) <=>
          on(B, x, p) /\ \A b \in 1..M : on(B, x, b) => p <= b
    BY <2>1, FirstOn
  <2>3. first(S, x, i) <=>
          on(S, x, i) /\ \A j \in 1..N : on(S, x, j) => i <= j
    BY FirstOn
  <2>4. ASSUME first(S, x, i) PROVE first(B, x, p)
    <3>1. on(B, x, p)
      BY <2>3, <2>4 DEF p
    <3>2. ASSUME NEW b \in 1..M, on(B, x, b) PROVE p <= b
      <4>1. b # m
        BY <3>2, <1>1
      <4>2. PICK j \in 1..N : b = place(j, m)
        BY <1>2, <4>1
      <4>3. i <= j
        BY <2>3, <2>4, <3>2, <4>2
      <4> QED
        BY <1>2, <4>2, <4>3 DEF p
    <3> QED
      BY <2>2, <3>1, <3>2
  <2>5. ASSUME first(B, x, p) PROVE first(S, x, i)
    <3>1. on(S, x, i)
      BY <2>2, <2>5 DEF p
    <3>2. ASSUME NEW j \in 1..N, on(S, x, j) PROVE i <= j
      <4>1. on(B, x, place(j, m)) /\ place(j, m) \in 1..M
        BY <3>2, <1>2
      <4>2. p <= place(j, m)
        BY <2>2, <2>5, <4>1
      <4> QED
        BY <1>2, <4>2 DEF p
    <3> QED
      BY <2>3, <3>1, <3>2
  <2> QED
    BY <2>4, <2>5 DEF p
<1>4. m # 0 => ~first(B, x, m)
  <2>1. m # 0 => m \in 1..M
    BY <1>1
  <2> QED
    BY <2>1, FirstOn
<1> QED
  BY <1>3, <1>4

(* The slots that are held are the same.                                   *)
Kept(B, S, m, ch) ==
  /\ m # 0 => B[m].cancelled
  /\ \A i \in 1..Len(S) : sameLesson(S[i], ch) =>
       /\ B[place(i, m)].cancelled <=> S[i].cancelled
       /\ ~S[i].cancelled => B[place(i, m)] = S[i]

(* The first list holds one slot more, g.                                  *)
Ghost(B, S, m, ch, g) ==
  /\ g \in 1..Len(B) /\ on(B, ch, g)
  /\ m # 0 /\ ~B[m].cancelled => g = m
  /\ \A i \in 1..Len(S) : sameLesson(S[i], ch) =>
       (S[i].cancelled <=> B[place(i, m)].cancelled \/ place(i, m) = g)

HeldAlike(B, S, m, ch) ==
  Kept(B, S, m, ch) \/ \E g : Ghost(B, S, m, ch, g)

(* An added lesson.                                                        *)
LEMMA ParallelExtra ==
  ASSUME NEW c \in Classes, NEW B \in Seq(Slot(c)), NEW S \in Seq(Slot(c)),
         NEW m, NEW ch, NEW s \in Slot(c), Parallel(B, S, m, ch)
  PROVE  /\ Parallel(Append(B, s), Append(S, s), m, ch)
         /\ HeldAlike(B, S, m, ch) =>
              HeldAlike(Append(B, s), Append(S, s), m, ch)
<1> DEFINE N == Len(S)
           M == Len(B)
           B2 == Append(B, s)
           S2 == Append(S, s)
<1>1. N \in Nat /\ M \in Nat /\ m \in 0..M /\ M = N + (IF m = 0 THEN 0 ELSE 1)
  BY DEF Parallel
<1>2. /\ \A i \in 1..N : place(i, m) \in 1..M
      /\ place(N + 1, m) = M + 1
  BY <1>1 DEF place
<1>3. /\ Len(B2) = M + 1 /\ Len(S2) = N + 1 /\ B2[M + 1] = s /\ S2[N + 1] = s
      /\ \A i \in 1..M : B2[i] = B[i]
      /\ \A i \in 1..N : S2[i] = S[i]
  OBVIOUS
<1>4. \A i \in 1..N : B2[place(i, m)] = B[place(i, m)]
  BY <1>2, <1>3
<1>5. m # 0 => B2[m] = B[m]
  BY <1>1, <1>3
<1> HIDE DEF B2, S2
<1>6. \A i \in 1..Len(S2) : i \in 1..N \/ i = N + 1
  BY <1>1, <1>3
<1>7. Parallel(B2, S2, m, ch)
  <2>1. ASSUME NEW i \in 1..Len(S2)
        PROVE  /\ sameLesson(B2[place(i, m)], ch) <=> sameLesson(S2[i], ch)
               /\ ~sameLesson(S2[i], ch) => B2[place(i, m)] = S2[i]
    BY <1>2, <1>3, <1>4, <1>6 DEF Parallel
  <2>2. /\ Len(B2) = Len(S2) + (IF m = 0 THEN 0 ELSE 1)
        /\ m \in 0..Len(B2)
    BY <1>1, <1>3
  <2>3. m # 0 => sameLesson(B2[m], ch)
    BY <1>5 DEF Parallel
  <2> QED
    BY <2>1, <2>2, <2>3 DEF Parallel
<1>8. ASSUME Kept(B, S, m, ch) PROVE Kept(B2, S2, m, ch)
  <2>1. ASSUME NEW i \in 1..Len(S2), sameLesson(S2[i], ch)
        PROVE  /\ B2[place(i, m)].cancelled <=> S2[i].cancelled
               /\ ~S2[i].cancelled => B2[place(i, m)] = S2[i]
    BY <1>2, <1>3, <1>4, <1>6, <1>8, <2>1 DEF Kept
  <2> QED
    BY <1>5, <1>8, <2>1 DEF Kept
<1>9. ASSUME NEW g, Ghost(B, S, m, ch, g) PROVE Ghost(B2, S2, m, ch, g)
  <2>1. ASSUME NEW i \in 1..Len(S2), sameLesson(S2[i], ch)
        PROVE  S2[i].cancelled <=> B2[place(i, m)].cancelled \/ place(i, m) = g
    <3>1. CASE i \in 1..N
      BY <1>3, <1>4, <1>9, <2>1, <3>1 DEF Ghost
    <3>2. CASE i = N + 1
      <4>1. ~s.cancelled \/ s.cancelled
        OBVIOUS
      <4>2. place(i, m) # g
        BY <1>1, <1>2, <1>9, <3>2 DEF Ghost
      <4> QED
        BY <1>2, <1>3, <3>2, <4>2
    <3> QED
      BY <1>6, <3>1, <3>2
  <2>2. g \in 1..Len(B2) /\ B2[g] = B[g]
    BY <1>1, <1>3, <1>9 DEF Ghost
  <2> QED
    BY <1>5, <1>9, <2>1, <2>2 DEF Ghost, on
<1> QED
  BY <1>7, <1>8, <1>9 DEF HeldAlike, B2, S2

(* A change of a lesson at another time.                                   *)
LEMMA ParallelElsewhere ==
  ASSUME NEW c \in Classes, NEW B \in Seq(Slot(c)), NEW S \in Seq(Slot(c)),
         NEW m, NEW ch, NEW x \in StoredChange(c), Parallel(B, S, m, ch),
         x.type # "extra", ~sameLesson(x, ch)
  PROVE  /\ Parallel(applyChange(B, x), applyChange(S, x), m, ch)
         /\ HeldAlike(B, S, m, ch) =>
              HeldAlike(applyChange(B, x), applyChange(S, x), m, ch)
<1> DEFINE N == Len(S)
           M == Len(B)
           B2 == applyChange(B, x)
           S2 == applyChange(S, x)
<1>1. /\ N \in Nat /\ M \in Nat /\ m \in Nat /\ m <= M
      /\ (m = 0 => M = N) /\ (m # 0 => M = N + 1)
  BY DEF Parallel
<1>2. \A i \in 1..N : place(i, m) \in 1..M
  <2> HIDE DEF N, M
  <2> QED
    BY <1>1, Places
<1>3. \A i \in 1..N : on(S, x, i) <=> on(B, x, place(i, m))
  BY DEF Parallel, on, sameLesson
<1>4. m # 0 => ~on(B, x, m)
  BY DEF Parallel, on, sameLesson
<1>5. /\ \A i \in 1..N : first(S, x, i) <=> first(B, x, place(i, m))
      /\ m # 0 => ~first(B, x, m)
  BY <1>3, <1>4, SameFirst
<1>6. /\ Len(B2) = M /\ Len(S2) = N
      /\ \A i \in 1..M :
           B2[i] = IF first(B, x, i) THEN changedSlot(B[i], x) ELSE B[i]
      /\ \A i \in 1..N :
           S2[i] = IF first(S, x, i) THEN changedSlot(S[i], x) ELSE S[i]
  BY ApplyPoint
<1> HIDE DEF B2, S2
<1>7. \A i \in 1..M : first(B, x, i) => sameLesson(B[i], x)
  BY DEF first, heldAt, sameLesson
<1>8. \A i \in 1..N : first(S, x, i) => sameLesson(S[i], x)
  BY DEF first, heldAt, sameLesson
<1>9. \A i \in 1..M : B[i] \in Slot(c) /\ sameLesson(B2[i], ch) = sameLesson(B[i], ch)
  <2> TAKE i \in 1..M
  <2>1. B[i] \in Slot(c)
    OBVIOUS
  <2>2. sameLesson(changedSlot(B[i], x), ch) = sameLesson(B[i], ch)
    BY <2>1, ChangedSlot DEF sameLesson
  <2> QED
    BY <1>6, <2>1, <2>2
<1>10. \A i \in 1..N : S[i] \in Slot(c) /\ sameLesson(S2[i], ch) = sameLesson(S[i], ch)
  <2> TAKE i \in 1..N
  <2>1. S[i] \in Slot(c)
    OBVIOUS
  <2>2. sameLesson(changedSlot(S[i], x), ch) = sameLesson(S[i], ch)
    BY <2>1, ChangedSlot DEF sameLesson
  <2> QED
    BY <1>6, <2>1, <2>2
<1>11. \A i \in 1..M : sameLesson(B[i], ch) => B2[i] = B[i]
  BY <1>6, <1>7 DEF sameLesson
<1>12. \A i \in 1..N : sameLesson(S[i], ch) => S2[i] = S[i]
  BY <1>6, <1>8 DEF sameLesson
<1>13. Parallel(B2, S2, m, ch)
  <2>1. ASSUME NEW i \in 1..N
        PROVE  /\ sameLesson(B2[place(i, m)], ch) <=> sameLesson(S2[i], ch)
               /\ ~sameLesson(S2[i], ch) => B2[place(i, m)] = S2[i]
    <3>1. sameLesson(B2[place(i, m)], ch) <=> sameLesson(S2[i], ch)
      BY <1>2, <1>9, <1>10 DEF Parallel
    <3>2. ASSUME ~sameLesson(S2[i], ch) PROVE B2[place(i, m)] = S2[i]
      <4>1. B[place(i, m)] = S[i]
        BY <1>10, <3>2 DEF Parallel
      <4> QED
        BY <1>2, <1>5, <1>6, <4>1
    <3> QED
      BY <3>1, <3>2
  <2>2. m # 0 => sameLesson(B2[m], ch)
    BY <1>1, <1>9 DEF Parallel
  <2> QED
    BY <1>1, <1>6, <2>1, <2>2 DEF Parallel
<1>14. /\ m # 0 => B2[m] = B[m]
       /\ \A i \in 1..N : sameLesson(S2[i], ch) =>
            /\ sameLesson(S[i], ch) /\ S2[i] = S[i]
            /\ B2[place(i, m)] = B[place(i, m)]
  <2>1. m # 0 => m \in 1..M /\ sameLesson(B[m], ch)
    BY <1>1 DEF Parallel
  <2> QED
    BY <1>2, <1>10, <1>11, <1>12, <2>1 DEF Parallel
<1>15. ASSUME Kept(B, S, m, ch) PROVE Kept(B2, S2, m, ch)
  BY <1>6, <1>14, <1>15 DEF Kept
<1>16. ASSUME NEW g, Ghost(B, S, m, ch, g) PROVE Ghost(B2, S2, m, ch, g)
  <2>1. g \in 1..M /\ B2[g] = B[g]
    BY <1>11, <1>16 DEF Ghost, on
  <2> QED
    BY <1>6, <1>14, <1>16, <2>1 DEF Ghost, on
<1> QED
  BY <1>13, <1>15, <1>16 DEF HeldAlike, B2, S2

(* A change of the lesson itself, or of another at the same time.          *)
LEMMA ParallelHere ==
  ASSUME NEW c \in Classes, NEW B \in Seq(Slot(c)), NEW S \in Seq(Slot(c)),
         NEW m, NEW ch, NEW x \in StoredChange(c), Parallel(B, S, m, ch),
         x.type # "extra", sameLesson(x, ch)
  PROVE  Parallel(applyChange(B, x), applyChange(S, x), m, ch)
<1> DEFINE N == Len(S)
           M == Len(B)
           B2 == applyChange(B, x)
           S2 == applyChange(S, x)
<1>1. /\ N \in Nat /\ M \in Nat /\ m \in Nat /\ m <= M
      /\ (m = 0 => M = N) /\ (m # 0 => M = N + 1)
  BY DEF Parallel
<1>2. \A i \in 1..N : place(i, m) \in 1..M
  <2> HIDE DEF N, M
  <2> QED
    BY <1>1, Places
<1>6. /\ Len(B2) = M /\ Len(S2) = N
      /\ \A i \in 1..M :
           B2[i] = IF first(B, x, i) THEN changedSlot(B[i], x) ELSE B[i]
      /\ \A i \in 1..N :
           S2[i] = IF first(S, x, i) THEN changedSlot(S[i], x) ELSE S[i]
  BY ApplyPoint
<1> HIDE DEF B2, S2
<1>7. \A i \in 1..M : first(B, x, i) => sameLesson(B[i], ch)
  BY DEF first, heldAt, sameLesson
<1>8. \A i \in 1..N : first(S, x, i) => sameLesson(S[i], ch)
  BY DEF first, heldAt, sameLesson
<1>9. \A i \in 1..M : /\ sameLesson(B2[i], ch) = sameLesson(B[i], ch)
                      /\ ~sameLesson(B[i], ch) => B2[i] = B[i]
  <2> TAKE i \in 1..M
  <2>1. B[i] \in Slot(c)
    OBVIOUS
  <2>2. sameLesson(changedSlot(B[i], x), ch) = sameLesson(B[i], ch)
    BY <2>1, ChangedSlot DEF sameLesson
  <2> QED
    BY <1>6, <1>7, <2>1, <2>2
<1>10. \A i \in 1..N : /\ sameLesson(S2[i], ch) = sameLesson(S[i], ch)
                       /\ ~sameLesson(S[i], ch) => S2[i] = S[i]
  <2> TAKE i \in 1..N
  <2>1. S[i] \in Slot(c)
    OBVIOUS
  <2>2. sameLesson(changedSlot(S[i], x), ch) = sameLesson(S[i], ch)
    BY <2>1, ChangedSlot DEF sameLesson
  <2> QED
    BY <1>6, <1>8, <2>1, <2>2
<1>11. ASSUME NEW i \in 1..N
       PROVE  /\ sameLesson(B2[place(i, m)], ch) <=> sameLesson(S2[i], ch)
              /\ ~sameLesson(S2[i], ch) => B2[place(i, m)] = S2[i]
  BY <1>2, <1>9, <1>10 DEF Parallel
<1>12. m # 0 => sameLesson(B2[m], ch)
  BY <1>1, <1>9 DEF Parallel
<1> QED
  BY <1>1, <1>6, <1>11, <1>12 DEF Parallel, B2, S2

(* What a change does to the slots, as far as they are held.               *)
LEMMA ApplyHeld ==
  ASSUME NEW c \in Classes, NEW F \in Seq(Slot(c)), NEW ch \in StoredChange(c),
         ch.type # "extra"
  PROVE  /\ Len(applyChange(F, ch)) = Len(F)
         /\ \A i \in 1..Len(F) :
              /\ sameLesson(F[i], ch) <=> sameLesson(applyChange(F, ch)[i], ch)
              /\ applyChange(F, ch)[i].cancelled <=>
                   F[i].cancelled \/ (ch.type = "cancel" /\ first(F, ch, i))
<1> DEFINE G == applyChange(F, ch)
<1>1. /\ Len(G) = Len(F)
      /\ \A i \in 1..Len(F) :
           G[i] = IF first(F, ch, i) THEN changedSlot(F[i], ch) ELSE F[i]
  BY ApplyPoint
<1> HIDE DEF G
<1>2. ASSUME NEW i \in 1..Len(F)
      PROVE  /\ sameLesson(F[i], ch) <=> sameLesson(G[i], ch)
             /\ G[i].cancelled <=>
                  F[i].cancelled \/ (ch.type = "cancel" /\ first(F, ch, i))
  <2>1. F[i] \in Slot(c)
    OBVIOUS
  <2>2. LET new == changedSlot(F[i], ch)
        IN /\ new.period = F[i].period /\ new.subgroup = F[i].subgroup
           /\ new.cancelled = IF ch.type = "cancel" THEN TRUE ELSE F[i].cancelled
    BY <2>1, ChangedSlot
  <2> QED
    BY <1>1, <2>2 DEF sameLesson
<1> QED
  BY <1>1, <1>2 DEF G

LEMMA HeldHere ==
  ASSUME NEW c \in Classes, NEW B \in Seq(Slot(c)), NEW S \in Seq(Slot(c)),
         NEW m, NEW ch, NEW x \in StoredChange(c), Parallel(B, S, m, ch),
         x.type # "extra", sameLesson(x, ch), HeldAlike(B, S, m, ch)
  PROVE  HeldAlike(applyChange(B, x), applyChange(S, x), m, ch)
<1> DEFINE N == Len(S)
           M == Len(B)
           B2 == applyChange(B, x)
           S2 == applyChange(S, x)
<1>1. /\ N \in Nat /\ M \in Nat /\ m \in Nat /\ m <= M
      /\ (m = 0 => M = N) /\ (m # 0 => M = N + 1)
  BY DEF Parallel
<1>2. /\ \A i \in 1..N : place(i, m) \in 1..M
      /\ \A i, j \in 1..N : place(i, m) <= place(j, m) <=> i <= j
      /\ \A i, j \in 1..N : place(i, m) = place(j, m) => i = j
  <2> HIDE DEF N, M
  <2> QED
    BY <1>1, Places
<1>3. \A F, i : /\ sameLesson(F[i], x) <=> sameLesson(F[i], ch)
                /\ on(F, x, i) <=> on(F, ch, i)
  BY DEF sameLesson, on
<1>4. /\ Len(B2) = M /\ Len(S2) = N
      /\ \A i \in 1..M :
           /\ B2[i] = IF first(B, x, i) THEN changedSlot(B[i], x) ELSE B[i]
           /\ sameLesson(B[i], ch) <=> sameLesson(B2[i], ch)
           /\ B2[i].cancelled <=>
                B[i].cancelled \/ (x.type = "cancel" /\ first(B, x, i))
      /\ \A i \in 1..N :
           /\ S2[i] = IF first(S, x, i) THEN changedSlot(S[i], x) ELSE S[i]
           /\ sameLesson(S[i], ch) <=> sameLesson(S2[i], ch)
           /\ S2[i].cancelled <=>
                S[i].cancelled \/ (x.type = "cancel" /\ first(S, x, i))
  BY ApplyPoint, ApplyHeld, <1>3
<1> HIDE DEF B2, S2
<1>5. ASSUME NEW i \in 1..N
      PROVE  sameLesson(B[place(i, m)], ch) <=> sameLesson(S[i], ch)
  BY DEF Parallel
<1>6. ASSUME Kept(B, S, m, ch) PROVE Kept(B2, S2, m, ch)
  <2>1. \A i \in 1..N : on(S, x, i) <=> on(B, x, place(i, m))
    BY <1>3, <1>5, <1>6 DEF Kept, on
  <2>2. m # 0 => ~on(B, x, m)
    BY <1>6 DEF Kept, on
  <2>3. /\ \A i \in 1..N : first(S, x, i) <=> first(B, x, place(i, m))
        /\ m # 0 => ~first(B, x, m)
    BY <2>1, <2>2, SameFirst
  <2>4. m # 0 => B2[m].cancelled
    BY <1>1, <1>4, <1>6 DEF Kept
  <2>5. ASSUME NEW i \in 1..N, sameLesson(S2[i], ch)
        PROVE  /\ B2[place(i, m)].cancelled <=> S2[i].cancelled
               /\ ~S2[i].cancelled => B2[place(i, m)] = S2[i]
    <3>1. sameLesson(S[i], ch)
      BY <1>4, <2>5
    <3>2. /\ B[place(i, m)].cancelled <=> S[i].cancelled
          /\ ~S[i].cancelled => B[place(i, m)] = S[i]
      BY <1>6, <3>1 DEF Kept
    <3>3. place(i, m) \in 1..M /\ (first(S, x, i) <=> first(B, x, place(i, m)))
      BY <1>2, <2>3
    <3>4. B2[place(i, m)].cancelled <=> S2[i].cancelled
      BY <1>4, <3>2, <3>3
    <3>5. ASSUME ~S2[i].cancelled PROVE B2[place(i, m)] = S2[i]
      <4>1. B[place(i, m)] = S[i]
        BY <1>4, <3>2, <3>5
      <4> QED
        BY <1>4, <3>3, <4>1
    <3> QED
      BY <3>4, <3>5
  <2> QED
    BY <1>4, <2>4, <2>5 DEF Kept
<1>7. ASSUME NEW g, Ghost(B, S, m, ch, g), x.type # "cancel"
      PROVE  Ghost(B2, S2, m, ch, g)
  <2>1. \A i \in 1..N : sameLesson(S2[i], ch) =>
          (S2[i].cancelled <=> B2[place(i, m)].cancelled \/ place(i, m) = g)
    BY <1>2, <1>4, <1>7 DEF Ghost
  <2>2. g \in 1..M /\ on(B2, ch, g)
    BY <1>4, <1>7 DEF Ghost, on
  <2>3. m # 0 /\ ~B2[m].cancelled => g = m
    BY <1>1, <1>4, <1>7 DEF Ghost
  <2> QED
    BY <1>4, <2>1, <2>2, <2>3 DEF Ghost
<1>8. ASSUME NEW g, Ghost(B, S, m, ch, g), x.type = "cancel"
      PROVE  HeldAlike(B2, S2, m, ch)
  <2>1. g \in 1..M /\ on(B, ch, g) /\ (m # 0 /\ ~B[m].cancelled => g = m)
    BY <1>8 DEF Ghost
  <2>2. ASSUME NEW i \in 1..N
        PROVE  on(S, ch, i) <=> on(B, ch, place(i, m)) /\ place(i, m) # g
    BY <1>5, <1>8 DEF Ghost, on
  <2>3. ASSUME NEW i \in 1..M, on(B, ch, i), i # g
        PROVE  \E j \in 1..N : i = place(j, m) /\ on(S, ch, j)
    <3>1. i # m
      BY <1>1, <2>1, <2>3 DEF on
    <3>2. \E j \in 1..N : i = place(j, m)
      <4> HIDE DEF N, M
      <4> QED
        BY ZenonT(30), <1>1, <3>1, PlaceOf
    <3> QED
      BY <2>2, <2>3, <3>2
  <2>4. \A i \in 1..M : first(B, x, i) <=>
          on(B, ch, i) /\ \A j \in 1..M : on(B, ch, j) => i <= j
    BY <1>3, FirstOn
  <2>5. \A i \in 1..N : first(S, x, i) <=>
          on(S, ch, i) /\ \A j \in 1..N : on(S, ch, j) => i <= j
    BY <1>3, FirstOn
  <2>6. \A i \in 1..M : on(B2, ch, i) <=> on(B, ch, i) /\ ~first(B, x, i)
    BY <1>4, <1>8 DEF on
  <2>7. \A i \in 1..N : on(S2, ch, i) <=> on(S, ch, i) /\ ~first(S, x, i)
    BY <1>4, <1>8 DEF on
  <2>8. \A i \in 1..N :
          /\ sameLesson(S2[i], ch) <=> sameLesson(B2[place(i, m)], ch)
          /\ sameLesson(S2[i], ch) => (S2[i].cancelled <=> ~on(S2, ch, i))
          /\ sameLesson(S2[i], ch) =>
               (B2[place(i, m)].cancelled <=> ~on(B2, ch, place(i, m)))
    BY <1>2, <1>4, <1>5 DEF on
  <2>9. CASE ~first(B, x, g)
    <3>1. PICK b \in 1..M : first(B, x, b)
      <4> DEFINE H == {i \in 1..M : on(B, ch, i)}
      <4>1. H \in SUBSET Nat /\ H # {}
        BY <2>1
      <4>2. PICK b \in H : \A j \in H : b <= j
        <5> HIDE DEF H
        <5> QED
          BY <4>1, LeastOf
      <4> QED
        BY <2>4, <4>2
    <3>2. PICK j \in 1..N : b = place(j, m) /\ on(S, ch, j)
      BY <2>3, <2>4, <2>9, <3>1
    <3>3. \A i \in 1..N : on(S, ch, i) => j <= i
      BY <1>2, <2>2, <2>4, <3>1, <3>2
    <3>4. first(S, x, j)
      BY <2>5, <3>2, <3>3
    <3>5. \A i \in 1..M : first(B, x, i) => i = b
      BY <2>4, <3>1
    <3>6. \A i \in 1..N : first(S, x, i) => i = j
      BY <2>5, <3>4
    <3>7. \A i \in 1..N : on(S2, ch, i) <=>
            on(B2, ch, place(i, m)) /\ place(i, m) # g
      BY <1>2, <2>2, <2>6, <2>7, <3>1, <3>2, <3>4, <3>5, <3>6
    <3>8. on(B2, ch, g)
      BY <2>1, <2>6, <2>9
    <3>9. m # 0 /\ ~B2[m].cancelled => g = m
      BY <1>1, <1>4, <2>1
    <3>10. Ghost(B2, S2, m, ch, g)
      BY <1>4, <2>1, <2>8, <3>7, <3>8, <3>9 DEF Ghost
    <3> QED
      BY <3>10 DEF HeldAlike
  <2>10. CASE first(B, x, g)
    <3>1. \A i \in 1..M : first(B, x, i) => i = g
      BY <2>4, <2>10, <2>1
    <3>2. \A i \in 1..M : on(B2, ch, i) <=> on(B, ch, i) /\ i # g
      BY <2>6, <2>10, <3>1
    <3>3. m # 0 => B2[m].cancelled
      BY <1>1, <1>4, <1>8, <2>1, <2>10
    <3>4. CASE \A j \in 1..N : ~on(S, ch, j)
      <4>1. \A i \in 1..N : ~on(S2, ch, i) /\ ~on(B2, ch, place(i, m))
        BY <1>2, <2>2, <2>7, <3>2, <3>4
      <4>2. Kept(B2, S2, m, ch)
        BY <1>4, <2>8, <3>3, <4>1 DEF Kept
      <4> QED
        BY <4>2 DEF HeldAlike
    <3>5. CASE \E j \in 1..N : on(S, ch, j)
      <4>1. PICK j \in 1..N : first(S, x, j)
        <5> DEFINE H == {i \in 1..N : on(S, ch, i)}
        <5>1. H \in SUBSET Nat /\ H # {}
          BY <3>5
        <5>2. PICK b \in H : \A i \in H : b <= i
          <6> HIDE DEF H
          <6> QED
            BY <5>1, LeastOf
        <5> QED
          BY <2>5, <5>2
      <4> DEFINE h == place(j, m)
      <4>2. \A i \in 1..N : first(S, x, i) => i = j
        BY <2>5, <4>1
      <4>3. \A i \in 1..N : on(S2, ch, i) <=>
              on(B2, ch, place(i, m)) /\ place(i, m) # h
        BY <1>2, <2>2, <2>7, <3>2, <4>1, <4>2
      <4>4. h \in 1..M /\ on(B2, ch, h)
        BY <1>2, <2>2, <2>5, <3>2, <4>1
      <4>5. m # 0 /\ ~B2[m].cancelled => h = m
        BY <3>3
      <4> HIDE DEF h
      <4>6. Ghost(B2, S2, m, ch, h)
        BY <1>4, <2>8, <4>3, <4>4, <4>5 DEF Ghost
      <4> QED
        BY <4>6 DEF HeldAlike
    <3> QED
      BY <3>4, <3>5
  <2> QED
    BY <2>9, <2>10
<1> QED
  BY <1>6, <1>7, <1>8 DEF HeldAlike, B2, S2

LEMMA ParallelStep ==
  ASSUME NEW c \in Classes, NEW B \in Seq(Slot(c)), NEW S \in Seq(Slot(c)),
         NEW m, NEW ch, NEW x \in StoredChange(c), Parallel(B, S, m, ch)
  PROVE  /\ Parallel(applyChange(B, x), applyChange(S, x), m, ch)
         /\ HeldAlike(B, S, m, ch) =>
              HeldAlike(applyChange(B, x), applyChange(S, x), m, ch)
<1>1. CASE x.type = "extra"
  <2> DEFINE s == slot(x, x.id)
  <2>1. s \in Slot(c)
    BY <1>1 DEF slot, Slot, StoredChange
  <2>2. applyChange(B, x) = Append(B, s) /\ applyChange(S, x) = Append(S, s)
    BY <1>1, ApplyCases
  <2> HIDE DEF s
  <2> QED
    BY <2>1, <2>2, ParallelExtra
<1>2. CASE x.type # "extra" /\ ~sameLesson(x, ch)
  BY <1>2, ParallelElsewhere
<1>3. CASE x.type # "extra" /\ sameLesson(x, ch)
  BY <1>3, ParallelHere, HeldHere
<1> QED
  BY <1>1, <1>2, <1>3

(* From the change on, both loops apply the same.                          *)
InStep(c, b, s, list, day, k, N) ==
  /\ \A n \in 0..N : b[n] \in Seq(Slot(c)) /\ s[n] \in Seq(Slot(c))
  /\ \A n \in k + 1..N :
       /\ list[n] \in StoredChange(c)
       /\ skipped(list[n], day) => b[n] = b[n - 1] /\ s[n] = s[n - 1]
       /\ ~skipped(list[n], day) =>
            /\ b[n] = applyChange(b[n - 1], list[n])
            /\ s[n] = applyChange(s[n - 1], list[n])

LEMMA ParallelOn ==
  ASSUME NEW c \in Classes, NEW day, NEW list, NEW k \in Nat, NEW N \in Nat,
         k <= N, NEW b, NEW s, NEW m, NEW ch,
         InStep(c, b, s, list, day, k, N), Parallel(b[k], s[k], m, ch)
  PROVE  /\ Parallel(b[N], s[N], m, ch)
         /\ HeldAlike(b[k], s[k], m, ch) => HeldAlike(b[N], s[N], m, ch)
<1> DEFINE S == {n \in k..N :
                   /\ Parallel(b[n], s[n], m, ch)
                   /\ HeldAlike(b[k], s[k], m, ch) => HeldAlike(b[n], s[n], m, ch)}
<1>1. k \in S
  OBVIOUS
<1>2. ASSUME NEW n \in k + 1..N, n - 1 \in S PROVE n \in S
  <2>1. n - 1 \in 0..N
    OBVIOUS
  <2>2. /\ b[n - 1] \in Seq(Slot(c)) /\ s[n - 1] \in Seq(Slot(c))
        /\ list[n] \in StoredChange(c)
    BY <2>1 DEF InStep
  <2>3. CASE skipped(list[n], day)
    BY <1>2, <2>3 DEF InStep
  <2>4. CASE ~skipped(list[n], day)
    <3>1. /\ Parallel(b[n], s[n], m, ch)
          /\ HeldAlike(b[n - 1], s[n - 1], m, ch) => HeldAlike(b[n], s[n], m, ch)
      BY <1>2, <2>2, <2>4, ParallelStep DEF InStep
    <3> QED
      BY <1>2, <3>1
  <2> QED
    BY <2>3, <2>4
<1>3. N \in S
  <2> HIDE DEF S
  <2> QED
    BY <1>1, <1>2, FromOn
<1> QED
  BY <1>3

(* Other days are what they were.                                          *)
LEMMA VoidOtherDay ==
  ASSUME NEW c \in Classes, NEW day, NEW entries, Timetabled(c, entries),
         NEW list \in Seq(StoredChange(c)), NEW k \in DOMAIN list,
         skipped(list[k], day)
  PROVE  slotsOf(entries, day, voidedAt(list, k)) = slotsOf(entries, day, list)
<1> DEFINE N == Len(list)
<1>1. N \in Nat /\ k \in 1..N
  OBVIOUS
<1>2. PICK f, g : PartAt(c, f, g, entries, day, list, k)
  BY VoidedLoop
<1> DEFINE S == {n \in k..N : f[n] = g[n]}
<1>3. k \in S
  BY <1>1, <1>2 DEF PartAt
<1>4. \A n \in k + 1..N : n - 1 \in S => n \in S
  BY <1>2 DEF PartAt
<1>5. N \in S
  <2> HIDE DEF S, N
  <2> QED
    BY <1>1, <1>3, <1>4, FromOn
<1> QED
  BY <1>2, <1>5 DEF PartAt, TwoLoops

LEMMA ParallelSelf ==
  ASSUME NEW c \in Classes, NEW F \in Seq(Slot(c)), NEW ch
  PROVE  Parallel(F, F, 0, ch) /\ Kept(F, F, 0, ch)
BY DEF Parallel, Kept, place

(* The lesson without the cancellation or replacement, and with it.        *)
LEMMA ApplyParallel ==
  ASSUME NEW c \in Classes, NEW F \in Seq(Slot(c)), NEW ch \in StoredChange(c),
         ch.type # "extra"
  PROVE  /\ Parallel(F, applyChange(F, ch), 0, ch)
         /\ ch.type = "cancel" => HeldAlike(F, applyChange(F, ch), 0, ch)
<1> DEFINE G == applyChange(F, ch)
<1>1. /\ Len(G) = Len(F) /\ Len(F) \in Nat
      /\ \A i \in 1..Len(F) :
           /\ G[i] = IF first(F, ch, i) THEN changedSlot(F[i], ch) ELSE F[i]
           /\ sameLesson(F[i], ch) <=> sameLesson(G[i], ch)
           /\ G[i].cancelled <=>
                F[i].cancelled \/ (ch.type = "cancel" /\ first(F, ch, i))
  BY ApplyPoint, ApplyHeld
<1> HIDE DEF G
<1>2. \A i \in 1..Len(F) : place(i, 0) = i
  BY DEF place
<1>3. \A i \in 1..Len(F) : first(F, ch, i) <=>
        on(F, ch, i) /\ \A j \in 1..Len(F) : on(F, ch, j) => i <= j
  BY FirstOn
<1>4. Parallel(F, G, 0, ch)
  BY <1>1, <1>2, <1>3 DEF Parallel, on
<1>5. ASSUME ch.type = "cancel", NEW t \in 1..Len(F), first(F, ch, t)
      PROVE  Ghost(F, G, 0, ch, t)
  <2>1. \A i \in 1..Len(F) : first(F, ch, i) => i = t
    BY <1>3, <1>5
  <2>2. \A i \in 1..Len(F) : G[i].cancelled <=> F[i].cancelled \/ i = t
    BY <1>1, <1>5, <2>1
  <2> QED
    BY <1>1, <1>2, <1>3, <1>5, <2>2 DEF Ghost
<1>6. ASSUME \A i \in 1..Len(F) : ~first(F, ch, i)
      PROVE  Kept(F, G, 0, ch)
  BY <1>1, <1>2, <1>6 DEF Kept
<1> QED
  BY <1>4, <1>5, <1>6 DEF HeldAlike, G

(* The lessons with the added one, and without it.                         *)
LEMMA ExtraParallel ==
  ASSUME NEW c \in Classes, NEW F \in Seq(Slot(c)), NEW ch \in StoredChange(c),
         ch.type = "extra"
  PROVE  \E m \in Nat \ {0} :
           /\ Parallel(applyChange(F, ch), F, m, ch)
           /\ HeldAlike(applyChange(F, ch), F, m, ch)
<1> DEFINE s == slot(ch, ch.id)
           G == applyChange(F, ch)
           m == Len(F) + 1
<1>1. /\ m \in Nat \ {0} /\ Len(F) \in Nat /\ Len(G) = m /\ G[m] = s
      /\ \A i \in 1..Len(F) : G[i] = F[i]
  <2>1. G = Append(F, s)
    BY ApplyCases
  <2> HIDE DEF s, G
  <2> QED
    BY <2>1
<1>2. sameLesson(s, ch) /\ ~s.cancelled
  BY DEF slot, sameLesson
<1> HIDE DEF G, s
<1>3. \A i \in 1..Len(F) : place(i, m) = i /\ i # m
  BY <1>1 DEF place
<1>4. Parallel(G, F, m, ch)
  BY <1>1, <1>2, <1>3 DEF Parallel
<1>5. Ghost(G, F, m, ch, m)
  BY <1>1, <1>2, <1>3 DEF Ghost, on
<1> QED
  BY <1>1, <1>4, <1>5 DEF HeldAlike, G

-----------------------------------------------------------------------------
(* What a change, made or taken back, does to the slots of a day           *)

(* With a cancellation or a replacement taken back.                        *)
LEMMA VoidChanged ==
  ASSUME NEW c \in Classes, NEW day, NEW entries, Timetabled(c, entries),
         NEW list \in Seq(StoredChange(c)), NEW k \in DOMAIN list,
         list[k].type # "extra"
  PROVE  LET F == slotsOf(entries, day, list)
             G == slotsOf(entries, day, voidedAt(list, k))
         IN /\ Parallel(G, F, 0, list[k])
            /\ list[k].type = "cancel" => HeldAlike(G, F, 0, list[k])
<1> DEFINE ch == list[k]
           N == Len(list)
<1>1. N \in Nat /\ k \in 1..N /\ ch \in StoredChange(c)
  OBVIOUS
<1>2. PICK f, g : PartAt(c, f, g, entries, day, list, k)
  BY VoidedLoop
<1>3. /\ slotsOf(entries, day, list) = f[N]
      /\ slotsOf(entries, day, voidedAt(list, k)) = g[N]
  BY <1>2 DEF PartAt, TwoLoops
<1>4. k - 1 \in 0..N /\ f[k - 1] \in Seq(Slot(c))
  BY <1>1, <1>2 DEF PartAt
<1>5. g[k] = f[k - 1]
  BY <1>2 DEF PartAt
<1>6. /\ Parallel(g[k], f[k], 0, ch)
      /\ ch.type = "cancel" => HeldAlike(g[k], f[k], 0, ch)
  <2>1. CASE skipped(ch, day)
    <3>1. f[k] = f[k - 1]
      BY <1>2, <2>1 DEF PartAt
    <3>2. Parallel(f[k - 1], f[k - 1], 0, ch) /\ Kept(f[k - 1], f[k - 1], 0, ch)
      BY <1>4, ParallelSelf
    <3> QED
      BY <1>5, <3>1, <3>2 DEF HeldAlike
  <2>2. CASE ~skipped(ch, day)
    <3>1. f[k] = applyChange(f[k - 1], ch)
      BY <1>2, <2>2 DEF PartAt
    <3> HIDE DEF ch
    <3>2. ch.type # "extra"
      BY DEF ch
    <3> QED
      BY <1>1, <1>4, <1>5, <3>1, <3>2, ApplyParallel
  <2> QED
    BY <2>1, <2>2
<1>7. InStep(c, g, f, list, day, k, N)
  BY <1>2 DEF PartAt, InStep
<1>9. /\ Parallel(g[N], f[N], 0, ch)
      /\ HeldAlike(g[k], f[k], 0, ch) => HeldAlike(g[N], f[N], 0, ch)
  <2>1. k \in Nat /\ k <= N
    BY <1>1
  <2> HIDE DEF N, ch
  <2> QED
    BY <1>1, <1>6, <1>7, <2>1, ParallelOn
<1> QED
  BY <1>3, <1>6, <1>9

(* With an added lesson taken back.                                        *)
LEMMA VoidExtra ==
  ASSUME NEW c \in Classes, NEW day, NEW entries, Timetabled(c, entries),
         NEW list \in Seq(StoredChange(c)), NEW k \in DOMAIN list,
         list[k].type = "extra"
  PROVE  LET F == slotsOf(entries, day, list)
             G == slotsOf(entries, day, voidedAt(list, k))
         IN \E m \in Nat :
              Parallel(F, G, m, list[k]) /\ HeldAlike(F, G, m, list[k])
<1> DEFINE ch == list[k]
           N == Len(list)
<1>1. N \in Nat /\ k \in 1..N /\ ch \in StoredChange(c)
  OBVIOUS
<1>2. PICK f, g : PartAt(c, f, g, entries, day, list, k)
  BY VoidedLoop
<1>3. /\ slotsOf(entries, day, list) = f[N]
      /\ slotsOf(entries, day, voidedAt(list, k)) = g[N]
  BY <1>2 DEF PartAt, TwoLoops
<1>4. k - 1 \in 0..N /\ f[k - 1] \in Seq(Slot(c))
  BY <1>1, <1>2 DEF PartAt
<1>5. g[k] = f[k - 1]
  BY <1>2 DEF PartAt
<1>6. PICK m \in Nat : Parallel(f[k], g[k], m, ch) /\ HeldAlike(f[k], g[k], m, ch)
  <2>1. CASE skipped(ch, day)
    <3>1. f[k] = f[k - 1]
      BY <1>2, <2>1 DEF PartAt
    <3>2. Parallel(f[k - 1], f[k - 1], 0, ch) /\ Kept(f[k - 1], f[k - 1], 0, ch)
      BY <1>4, ParallelSelf
    <3> QED
      BY <1>5, <3>1, <3>2 DEF HeldAlike
  <2>2. CASE ~skipped(ch, day)
    <3>1. f[k] = applyChange(f[k - 1], ch)
      BY <1>2, <2>2 DEF PartAt
    <3> HIDE DEF ch
    <3>2. ch.type = "extra"
      BY DEF ch
    <3> QED
      BY <1>1, <1>4, <1>5, <3>1, <3>2, ExtraParallel
  <2> QED
    BY <2>1, <2>2
<1>7. InStep(c, f, g, list, day, k, N)
  BY <1>2 DEF PartAt, InStep
<1>9. Parallel(f[N], g[N], m, ch) /\ HeldAlike(f[N], g[N], m, ch)
  <2>1. k \in Nat /\ k <= N
    BY <1>1
  <2> HIDE DEF N, ch
  <2> QED
    BY <1>1, <1>6, <1>7, <2>1, ParallelOn
<1> QED
  BY <1>3, <1>9

-----------------------------------------------------------------------------
(* Whether a lesson is on the timetable of a day                           *)

gives(F, period, subgroup) ==
  \E i \in 1..Len(F) : /\ ~F[i].cancelled
                       /\ F[i].period = period /\ F[i].subgroup = subgroup

LEMMA GivesAlike ==
  ASSUME NEW c \in Classes, NEW B \in Seq(Slot(c)), NEW S \in Seq(Slot(c)),
         NEW m, NEW ch, NEW p, NEW s, Parallel(B, S, m, ch),
         ~(p = ch.period /\ s = ch.subgroup)
  PROVE  gives(B, p, s) <=> gives(S, p, s)
<1> DEFINE N == Len(S)
           M == Len(B)
<1>1. /\ N \in Nat /\ M \in Nat /\ m \in Nat /\ m <= M
      /\ (m = 0 => M = N) /\ (m # 0 => M = N + 1)
  BY DEF Parallel
<1>2. \A i \in 1..N : place(i, m) \in 1..M
  <2> HIDE DEF N, M
  <2> QED
    BY <1>1, Places
<1>3. ASSUME NEW i \in 1..N, ~S[i].cancelled, S[i].period = p, S[i].subgroup = s
      PROVE  gives(B, p, s)
  <2>1. B[place(i, m)] = S[i]
    BY <1>3 DEF Parallel, sameLesson
  <2> QED
    BY <1>2, <1>3, <2>1 DEF gives
<1>4. ASSUME NEW b \in 1..M, ~B[b].cancelled, B[b].period = p, B[b].subgroup = s
      PROVE  gives(S, p, s)
  <2>1. b # m
    BY <1>1, <1>4 DEF Parallel, sameLesson
  <2>2. \E i \in 1..N : b = place(i, m)
    <3> HIDE DEF N, M
    <3> QED
      BY ZenonT(30), <1>1, <2>1, PlaceOf
  <2>3. PICK i \in 1..N : b = place(i, m)
    BY <2>2
  <2>4. S[i] = B[b]
    BY <1>4, <2>3 DEF Parallel, sameLesson
  <2> QED
    BY <1>4, <2>4 DEF gives
<1> QED
  BY <1>3, <1>4 DEF gives

LEMMA GivesHeld ==
  ASSUME NEW c \in Classes, NEW B \in Seq(Slot(c)), NEW S \in Seq(Slot(c)),
         NEW m, NEW ch, Parallel(B, S, m, ch), HeldAlike(B, S, m, ch),
         gives(S, ch.period, ch.subgroup)
  PROVE  gives(B, ch.period, ch.subgroup)
<1> DEFINE N == Len(S)
           M == Len(B)
<1>1. /\ N \in Nat /\ M \in Nat /\ m \in Nat /\ m <= M
      /\ (m = 0 => M = N) /\ (m # 0 => M = N + 1)
  BY DEF Parallel
<1>2. \A i \in 1..N : place(i, m) \in 1..M
  <2> HIDE DEF N, M
  <2> QED
    BY <1>1, Places
<1>3. PICK i \in 1..N : ~S[i].cancelled /\ sameLesson(S[i], ch)
  BY DEF gives, sameLesson
<1>4. sameLesson(B[place(i, m)], ch)
  BY <1>3 DEF Parallel
<1>5. ~B[place(i, m)].cancelled
  <2>1. CASE Kept(B, S, m, ch)
    BY <1>3, <2>1 DEF Kept
  <2>2. CASE \E g : Ghost(B, S, m, ch, g)
    BY <1>3, <2>2 DEF Ghost
  <2> QED
    BY <2>1, <2>2 DEF HeldAlike
<1> QED
  BY <1>2, <1>4, <1>5 DEF gives, sameLesson

(* A change made leaves a lesson on the timetable unless it cancels it.    *)
LEMMA AddGives ==
  ASSUME NEW c \in Classes, NEW F \in Seq(Slot(c)), NEW ch \in StoredChange(c),
         NEW p, NEW s, gives(F, p, s),
         ch.type = "cancel" => ~(p = ch.period /\ s = ch.subgroup)
  PROVE  gives(applyChange(F, ch), p, s)
<1> DEFINE G == applyChange(F, ch)
<1>1. PICK i \in 1..Len(F) :
        ~F[i].cancelled /\ F[i].period = p /\ F[i].subgroup = s
  BY DEF gives
<1>2. CASE ch.type = "extra"
  <2>1. G = Append(F, slot(ch, ch.id))
    BY <1>2, ApplyCases
  <2> HIDE DEF G
  <2>2. i \in 1..Len(G) /\ G[i] = F[i]
    BY <2>1
  <2> QED
    BY <1>1, <2>2 DEF gives, G
<1>3. CASE ch.type # "extra"
  <2>1. /\ Len(G) = Len(F)
        /\ G[i] = IF first(F, ch, i) THEN changedSlot(F[i], ch) ELSE F[i]
        /\ G[i].cancelled <=>
             F[i].cancelled \/ (ch.type = "cancel" /\ first(F, ch, i))
    BY <1>3, ApplyPoint, ApplyHeld
  <2> HIDE DEF G
  <2>2. first(F, ch, i) => sameLesson(F[i], ch)
    BY DEF first, heldAt, sameLesson
  <2>3. F[i] \in Slot(c)
    OBVIOUS
  <2>4. G[i].period = p /\ G[i].subgroup = s
    <3>1. LET new == changedSlot(F[i], ch)
          IN new.period = F[i].period /\ new.subgroup = F[i].subgroup
      BY <2>3, ChangedSlot
    <3> QED
      BY <1>1, <2>1, <3>1
  <2>5. ~G[i].cancelled
    BY <1>1, <2>1, <2>2 DEF sameLesson
  <2> QED
    BY <2>1, <2>4, <2>5 DEF gives, G
<1> QED
  BY <1>2, <1>3

-----------------------------------------------------------------------------
(* Lessons that clash                                                      *)

LEMMA ConflictSymmetric ==
  ASSUME NEW c, NEW d, NEW s, NEW t
  PROVE  conflict(c, s, d, t) <=> conflict(d, t, c, s)
<1>1. overlap(during(c, s.period), during(d, t.period)) <=>
        overlap(during(d, t.period), during(c, s.period))
  BY DEF overlap
<1>2. conflictKind(c, s, d, t) <=> conflictKind(d, t, c, s)
  BY DEF conflictKind
<1> QED
  BY <1>1, <1>2 DEF conflict

(* A lesson clashes with another of its class, period and subgroup.        *)
LEMMA ConflictSame ==
  ASSUME NEW c \in Classes, NEW s \in Slot(c), NEW t \in Slot(c),
         s.period = t.period, s.subgroup = t.subgroup
  PROVE  conflict(c, s, c, t)
<1>1. overlap(during(c, s.period), during(c, t.period))
  <2>1. /\ Bell[c][s.period] \in [start: Nat, end: Nat]
        /\ Bell[c][s.period].start < Bell[c][s.period].end
    BY BellAssumption DEF Slot
  <2> QED
    BY <2>1 DEF overlap, during
<1> QED
  BY <1>1 DEF conflict, conflictKind

(* No two of the lessons that are held clash.                              *)
Apart(c, F, d, G) ==
  \A i \in DOMAIN F : \A j \in DOMAIN G :
    (<<c, i>> # <<d, j>> /\ ~F[i].cancelled /\ ~G[j].cancelled) =>
      ~conflict(c, F[i], d, G[j])

LEMMA ApartSymmetric ==
  ASSUME NEW c, NEW d, NEW F, NEW G, Apart(c, F, d, G)
  PROVE  Apart(d, G, c, F)
<1> SUFFICES ASSUME NEW i \in DOMAIN G, NEW j \in DOMAIN F,
                    <<d, i>> # <<c, j>>, ~G[i].cancelled, ~F[j].cancelled,
                    conflict(d, G[i], c, F[j])
             PROVE  FALSE
  BY DEF Apart
<1>1. conflict(c, F[j], d, G[i])
  BY ConflictSymmetric
<1> QED
  BY <1>1 DEF Apart

(* Apart stays apart when each lesson is one there was before, or one that *)
(* was looked at.                                                          *)
Looked(c, F, G, m, X) ==
  \A i \in DOMAIN G : ~G[i].cancelled =>
    i \in X \/ (place(i, m) \in DOMAIN F /\ F[place(i, m)] = G[i])

LEMMA ApartAlone ==
  ASSUME NEW c, NEW S, NEW F \in Seq(S), NEW G \in Seq(S), NEW m \in Nat, NEW X,
         Looked(c, F, G, m, X), Apart(c, F, c, F),
         \A i \in X \cap DOMAIN G : \A j \in DOMAIN G \ {i} :
           ~G[i].cancelled /\ ~G[j].cancelled => ~conflict(c, G[i], c, G[j])
  PROVE  Apart(c, G, c, G)
<1> SUFFICES ASSUME NEW i \in DOMAIN G, NEW j \in DOMAIN G, i # j,
                    ~G[i].cancelled, ~G[j].cancelled,
                    conflict(c, G[i], c, G[j])
             PROVE  FALSE
  BY DEF Apart
<1>1. i \notin X
  OBVIOUS
<1>2. j \notin X
  BY ConflictSymmetric
<1>3. place(i, m) # place(j, m)
  BY DEF place
<1> QED
  BY <1>1, <1>2, <1>3 DEF Looked, Apart

LEMMA ApartOthers ==
  ASSUME NEW c, NEW d, d # c, NEW F, NEW G, NEW D, NEW m, NEW X,
         Looked(c, F, G, m, X), Apart(c, F, d, D),
         \A i \in X \cap DOMAIN G : \A j \in DOMAIN D :
           ~G[i].cancelled /\ ~D[j].cancelled => ~conflict(c, G[i], d, D[j])
  PROVE  Apart(c, G, d, D)
<1> SUFFICES ASSUME NEW i \in DOMAIN G, NEW j \in DOMAIN D,
                    ~G[i].cancelled, ~D[j].cancelled,
                    conflict(c, G[i], d, D[j])
             PROVE  FALSE
  BY DEF Apart
<1>1. i \notin X
  OBVIOUS
<1> QED
  BY <1>1 DEF Looked, Apart
(* The invariant                                                           *)

OneOfEach == \A c \in Classes : \A u, v \in versions[c] : u.id = v.id => u = v

(* What is recorded, or about to be, is not of days to come.               *)
Past ==
  /\ \A l \in lessons : l.day <= today
  /\ \A w \in Savers : save[w] # None => save[w].lesson.day <= today

(* What a manager's request was checked against is still there when it is  *)
(* written.                                                                *)
Based(r) ==
  /\ r.op = "timetable" /\ r.previous # None => r.previous.from < r.from
  /\ r.op = "entries" => \E v \in versions[r.class] :
       v.id = r.version.id /\ v.from = r.version.from
  /\ r.op = "void" => r.change \in DOMAIN changes[r.class]

Requested == \A m \in Managers : managing[m] # None => Based(managing[m])

Standing == TimetableTypeOK /\ OneOfEach /\ Past /\ Requested

(* A class has one timetable on a day ...                                  *)
OneVersion ==
  \A c \in Classes : \A v, w \in versions[c] : v # w =>
    (v.to # None /\ v.to < w.from) \/ (w.to # None /\ w.to < v.from)

(* ... and the one that a new timetable is going to end is the last.       *)
Last(r) ==
  /\ \A v \in versions[r.class] : v.from < r.from
  /\ r.previous = None => versions[r.class] = {}
  /\ r.previous # None => \E v \in versions[r.class] :
       /\ v.id = r.previous.id /\ v.to = r.previous.to
       /\ \A u \in versions[r.class] : u.from <= v.from

Tiled ==
  /\ OneVersion
  /\ \A c \in Classes : \A v \in versions[c] : v.to = None \/ v.from <= v.to
  /\ \A m \in Managers : writes(m, "timetable") => Last(managing[m])

locked(w) == save[w] # None /\ save[w].locked

(* A lock keeps others from the lesson, so what was read under it is what  *)
(* there is.                                                               *)
LocksHold ==
  /\ \A u, w \in Savers : u # w /\ locked(u) /\ locked(w) =>
       lessonOf(save[u].lesson) # lessonOf(save[w].lesson)
  /\ \A w \in Savers : locked(w) =>
       save[w].seen = {m \in marks : /\ m.lesson = lessonOf(save[w].lesson)
                                     /\ m.child \in DOMAIN save[w].wanted}

(* No request that is going to be written takes away a lesson that was     *)
(* recorded in time.                                                       *)
Spared ==
  \A m \in Managers : managing[m] # None =>
    \A l \in lessons : l.late \/ ~endangers(managing[m], l)

(* Timetables fit: in one no two entries clash, nor do those of two        *)
(* classes that have a day in common.                                      *)
PlansFit ==
  /\ \A c \in Classes : \A v \in versions[c] : \A e, f \in v.entries :
       e # f => ~entriesClash(c, e, c, f)
  /\ \A c, d \in Classes : c # d =>
       \A v \in versions[c] : \A w \in versions[d] :
         spanOverlaps(v, w.from, w.to) =>
           \A e \in v.entries : \A f \in w.entries : ~entriesClash(c, e, d, f)

(* What a request was checked for holds when it is written.                *)
Fits(r) ==
  /\ r.op = "timetable" => ~planClashes(r.class, r.entries, r.from, None)
  /\ r.op = "entries" => \A v \in versions[r.class] :
       v.id = r.version.id => ~planClashes(r.class, r.entries, v.from, v.to)
  /\ r.op = "change" =>
       /\ r.row.day \in SchoolDays[r.class]
       /\ r.row.type # "cancel" => ~changeClashes(r.class, r.row)
  /\ r.op = "void" =>
       (changes[r.class][r.change].type # "extra" => ~voidClashes(r.class, r.change))

RequestsFit ==
  \A m \in Managers : \A r \in RequestRow : managing[m] = r => Fits(r)

(* A timetable is not changed for days that have changes of their own: the *)
(* check of a new timetable is against the other timetables alone.         *)
PlansFirst ==
  \A day \in Days :
    \/ \A c \in Classes : \A n \in DOMAIN changes[c] : skipped(changes[c][n], day)
    \/ \A c \in Classes : entriesOn(c, day)' = entriesOn(c, day)

-----------------------------------------------------------------------------
(* Slots in a state                                                        *)

LEMMA VersionTimetabled ==
  ASSUME NEW c \in Classes, NEW v \in VersionRow(c)
  PROVE  Timetabled(c, v.entries) /\ v.from \in Days /\ v.to \in Days \cup {None}
BY RequestsAssumption DEF VersionRow, Timetabled

LEMMA NothingTimetabled ==
  ASSUME NEW c \in Classes
  PROVE  Timetabled(c, {})
BY FS_EmptySet DEF Timetabled

LEMMA EntriesOfDay ==
  ASSUME TimetableTypeOK, NEW c \in Classes, NEW day \in Days
  PROVE  Timetabled(c, entriesOn(c, day))
<1>1. versions[c] \subseteq VersionRow(c) /\ versionOn(c, day) \subseteq versions[c]
  BY DEF TimetableTypeOK, versionOn
<1>2. CASE versionOn(c, day) = {}
  <2>1. entriesOn(c, day) = {}
    BY <1>2 DEF entriesOn
  <2> QED
    BY <2>1, NothingTimetabled
<1>3. CASE versionOn(c, day) # {}
  <2> DEFINE v == CHOOSE v \in versionOn(c, day) : TRUE
  <2>1. v \in VersionRow(c) /\ entriesOn(c, day) = v.entries
    BY <1>1, <1>3 DEF entriesOn
  <2> HIDE DEF v
  <2> QED
    BY <2>1, VersionTimetabled
<1> QED
  BY <1>2, <1>3

LEMMA SlotsWith ==
  ASSUME NEW c, NEW day, NEW list
  PROVE  slotsWith(c, day, list) =
           IF day \in SchoolDays[c] THEN slotsOf(entriesOn(c, day), day, list)
           ELSE <<>>
BY DEF slotsWith, slotsForDay, slotsOf

LEMMA EmptySlots ==
  ASSUME NEW S
  PROVE  <<>> \in Seq(S) /\ DOMAIN <<>> = {}
OBVIOUS

LEMMA DaySlotsType ==
  ASSUME TimetableTypeOK, NEW c \in Classes, NEW day \in Days,
         NEW list \in Seq(StoredChange(c))
  PROVE  slotsWith(c, day, list) \in Seq(Slot(c))
<1>1. Timetabled(c, entriesOn(c, day))
  BY EntriesOfDay
<1>2. slotsOf(entriesOn(c, day), day, list) \in Seq(Slot(c))
  BY <1>1, SlotsType
<1> QED
  BY <1>2, SlotsWith, EmptySlots

LEMMA SlotsOnType ==
  ASSUME TimetableTypeOK, NEW c \in Classes, NEW day \in Days
  PROVE  changes[c] \in Seq(StoredChange(c)) /\ slotsOn(c, day) \in Seq(Slot(c))
<1>1. changes[c] \in Seq(StoredChange(c))
  BY DEF TimetableTypeOK
<1> QED
  BY <1>1, DaySlotsType DEF slotsOn

-----------------------------------------------------------------------------
(* Requests of managers                                                    *)

LEMMA RequestOf ==
  ASSUME TimetableTypeOK, NEW m \in Managers, managing[m] # None
  PROVE  LET r == managing[m]
         IN /\ r \in RequestRow /\ r.class \in Classes
            /\ r.op = "timetable" => r \in TimetableRequest(r.class)
            /\ r.op = "entries" => r \in EntriesRequest(r.class)
            /\ r.op = "change" => r \in ChangeRequest(r.class)
            /\ r.op = "void" => r \in VoidRequest(r.class)
            /\ r.op \in {"timetable", "entries", "change", "void"}
<1> DEFINE r == managing[m]
<1>1. r \in RequestRow
  BY DEF TimetableTypeOK
<1> HIDE DEF r
<1>2. PICK c \in Classes :
        r \in TimetableRequest(c) \cup EntriesRequest(c) \cup ChangeRequest(c)
                \cup VoidRequest(c)
  BY <1>1 DEF RequestRow
<1>3. CASE r \in TimetableRequest(c)
  <2>1. r.op = "timetable" /\ r.class = c
    BY <1>3 DEF TimetableRequest
  <2> QED
    BY <1>1, <1>3, <2>1 DEF r
<1>4. CASE r \in EntriesRequest(c)
  <2>1. r.op = "entries" /\ r.class = c
    BY <1>4 DEF EntriesRequest
  <2> QED
    BY <1>1, <1>4, <2>1 DEF r
<1>5. CASE r \in ChangeRequest(c)
  <2>1. r.op = "change" /\ r.class = c
    BY <1>5 DEF ChangeRequest
  <2> QED
    BY <1>1, <1>5, <2>1 DEF r
<1>6. CASE r \in VoidRequest(c)
  <2>1. r.op = "void" /\ r.class = c
    BY <1>6 DEF VoidRequest
  <2> QED
    BY <1>1, <1>6, <2>1 DEF r
<1> QED
  BY <1>2, <1>3, <1>4, <1>5, <1>6

LEMMA Prepared ==
  ASSUME TimetableTypeOK, NEW m \in Managers, NEW r \in RequestRow, Prepare(m, r)
  PROVE  /\ managing[m] = None /\ managing'[m] = r /\ r # None
         /\ \A n \in Managers \ {m} : managing'[n] = managing[n]
         /\ managing' \in [Managers -> RequestRow \cup {None}]
         /\ UNCHANGED <<today, versions, changes, lessons, marks, save>>
<1>1. managing \in [Managers -> RequestRow \cup {None}]
  BY DEF TimetableTypeOK
<1>2. managing' = [managing EXCEPT ![m] = r] /\ managing[m] = None
  BY DEF Prepare
<1>3. UNCHANGED <<today, versions, changes, lessons, marks, save>>
  BY DEF Prepare
<1>4. r # None
  BY RowsAssumption
<1> QED
  BY <1>1, <1>2, <1>3, <1>4

LEMMA Finished ==
  ASSUME TimetableTypeOK, NEW m \in Managers, Done(m)
  PROVE  /\ managing'[m] = None
         /\ \A n \in Managers \ {m} : managing'[n] = managing[n]
         /\ managing' \in [Managers -> RequestRow \cup {None}]
BY DEF TimetableTypeOK, Done

(* What the requests to be written are based on.                           *)
LEMMA BegunTimetable ==
  ASSUME TimetableTypeOK, NEW m \in Managers, NEW c \in Classes,
         NEW from \in Days, NEW entries \in Plans[c],
         BeginCreateTimetable(m, c, from, entries)
  PROVE  \E v \in lastVersions(c) :
           LET r == [op |-> "timetable", class |-> c, from |-> from,
                     entries |-> entries, previous |-> v]
           IN /\ r \in RequestRow /\ Prepare(m, r) /\ Based(r)
              /\ v = None => versions[c] = {}
              /\ v # None => v \in versions[c] /\ \A u \in versions[c] : u.from <= v.from
<1>1. PICK v \in lastVersions(c) :
        Prepare(m, [op |-> "timetable", class |-> c, from |-> from,
                    entries |-> entries, previous |-> v])
  BY DEF BeginCreateTimetable
<1> DEFINE r == [op |-> "timetable", class |-> c, from |-> from,
                 entries |-> entries, previous |-> v]
<1>2. versions[c] \subseteq VersionRow(c) /\ None \notin VersionRow(c)
  BY RowsAssumption DEF TimetableTypeOK
<1>3. /\ v = None => versions[c] = {}
      /\ v # None => v \in versions[c] /\ \A u \in versions[c] : u.from <= v.from
  BY <1>2 DEF lastVersions
<1>4. v \in VersionRow(c) \cup {None}
  BY <1>2, <1>3
<1>5. r \in TimetableRequest(c)
  BY <1>4 DEF TimetableRequest
<1>6. r \in RequestRow
  BY <1>5 DEF RequestRow
<1>7. Based(r)
  BY <1>3 DEF Based, BeginCreateTimetable
<1> QED
  BY <1>1, <1>3, <1>6, <1>7

LEMMA BegunEntries ==
  ASSUME TimetableTypeOK, NEW m \in Managers, NEW c \in Classes,
         NEW v \in versions[c], NEW entries \in Plans[c],
         BeginReplaceEntries(m, c, v, entries)
  PROVE  LET r == [op |-> "entries", class |-> c, version |-> v, entries |-> entries]
         IN r \in RequestRow /\ Prepare(m, r) /\ Based(r)
<1> DEFINE r == [op |-> "entries", class |-> c, version |-> v, entries |-> entries]
<1>1. v \in VersionRow(c)
  BY DEF TimetableTypeOK
<1>2. r \in EntriesRequest(c)
  BY <1>1 DEF EntriesRequest
<1>3. r \in RequestRow
  BY <1>2 DEF RequestRow
<1>4. Based(r)
  BY DEF Based
<1> QED
  BY <1>3, <1>4 DEF BeginReplaceEntries

LEMMA BegunChange ==
  ASSUME NEW m \in Managers, NEW c \in Classes, NEW row \in ChangeRows[c],
         BeginCreateChange(m, c, row)
  PROVE  LET r == [op |-> "change", class |-> c, row |-> row]
         IN r \in RequestRow /\ Prepare(m, r) /\ Based(r)
<1> DEFINE r == [op |-> "change", class |-> c, row |-> row]
<1>1. r \in ChangeRequest(c)
  BY DEF ChangeRequest
<1>2. r \in RequestRow
  BY <1>1 DEF RequestRow
<1>3. Based(r)
  BY DEF Based
<1> QED
  BY <1>2, <1>3 DEF BeginCreateChange

LEMMA BegunVoid ==
  ASSUME TimetableTypeOK, NEW m \in Managers, NEW c \in Classes,
         NEW n \in DOMAIN changes[c], BeginVoidChange(m, c, n)
  PROVE  LET r == [op |-> "void", class |-> c, change |-> n]
         IN r \in RequestRow /\ Prepare(m, r) /\ Based(r)
<1> DEFINE r == [op |-> "void", class |-> c, change |-> n]
<1>1. n \in 1..MaxChanges
  <2>1. changes[c] \in Seq(StoredChange(c)) /\ Len(changes[c]) <= MaxChanges
    BY DEF TimetableTypeOK
  <2> QED
    BY <2>1, TimetableAssumption
<1>2. r \in VoidRequest(c)
  BY <1>1 DEF VoidRequest
<1>3. r \in RequestRow
  BY <1>2 DEF RequestRow
<1>4. Based(r)
  BY DEF Based
<1> QED
  BY <1>3, <1>4 DEF BeginVoidChange

-----------------------------------------------------------------------------
(* What the writes of managers make of the tables                          *)

(* The end a version gets when another takes over.                         *)
LEMMA CutVersion ==
  ASSUME NEW c \in Classes, NEW v \in VersionRow(c), NEW day \in Days
  PROVE  LET new == [v EXCEPT !.to = day]
         IN /\ new \in VersionRow(c)
            /\ new.id = v.id /\ new.from = v.from /\ new.to = day
            /\ new.entries = v.entries
BY DEF VersionRow

cutAt(v, from) ==
  IF v.to = None \/ v.to >= from THEN [v EXCEPT !.to = from - 1] ELSE v

LEMMA CutAt ==
  ASSUME NEW c \in Classes, NEW v \in VersionRow(c), NEW from \in Days,
         v.from < from
  PROVE  LET new == cutAt(v, from)
         IN /\ new \in VersionRow(c)
            /\ new.from = v.from /\ new.entries = v.entries
            /\ new.to # None /\ new.to < from
            /\ v.to # None => new.to <= v.to
            /\ v.to # None /\ v.to < from => new = v
            /\ new.to = v.to \/ new.to = from - 1
<1> DEFINE new == [v EXCEPT !.to = from - 1]
<1>1. from - 1 \in Days
  BY TimetableAssumption DEF VersionRow, Days
<1>2. /\ new \in VersionRow(c) /\ new.from = v.from /\ new.to = from - 1
      /\ new.entries = v.entries
  BY <1>1, CutVersion
<1>3. /\ from \in Nat /\ v.from \in Nat /\ v.to \in Nat \cup {None}
      /\ from - 1 # None
  BY TimetableAssumption DEF VersionRow, Days
<1> HIDE DEF new
<1>4. CASE v.to = None \/ v.to >= from
  <2>1. cutAt(v, from) = new
    BY <1>4 DEF cutAt, new
  <2> QED
    BY <1>2, <1>3, <1>4, <2>1
<1>5. CASE ~(v.to = None \/ v.to >= from)
  <2>1. cutAt(v, from) = v
    BY <1>5 DEF cutAt
  <2> QED
    BY <1>3, <1>5, <2>1
<1> QED
  BY <1>4, <1>5

(* A version once r is written, and the one that r adds.                   *)
ended(r, v) ==
  IF /\ r.previous # None /\ v.id = r.previous.id
     /\ r.previous.to = None \/ r.previous.to >= r.from
  THEN [v EXCEPT !.to = r.from - 1] ELSE v

begun(r, id) == [id |-> id, from |-> r.from, to |-> None, entries |-> r.entries]

LEMMA CreatedRows ==
  ASSUME Standing, NEW m \in Managers, NEW id \in TimetableIds,
         CreateTimetable(m, id)
  PROVE  LET r == managing[m]
             c == r.class
         IN /\ r # None /\ r.op = "timetable" /\ r \in TimetableRequest(c)
            /\ c \in Classes /\ r.from \in Days /\ r.entries \in Plans[c]
            /\ versions' = [versions EXCEPT ![c] =
                              {ended(r, v) : v \in versions[c]} \cup {begun(r, id)}]
            /\ versions'[c] = {ended(r, v) : v \in versions[c]} \cup {begun(r, id)}
            /\ \A d \in Classes \ {c} : versions'[d] = versions[d]
            /\ begun(r, id) \in VersionRow(c)
            /\ \A v \in versions[c] :
                 /\ v \in VersionRow(c) /\ v.id # id
                 /\ ended(r, v) \in VersionRow(c)
                 /\ ended(r, v).id = v.id /\ ended(r, v).from = v.from
                 /\ ended(r, v).entries = v.entries
<1>1. PICK r : r = managing[m]
  OBVIOUS
<1>2. PICK c : c = r.class
  OBVIOUS
<1>3. r # None /\ r.op = "timetable" /\ r \in TimetableRequest(c) /\ c \in Classes
  BY <1>1, <1>2, RequestOf DEF CreateTimetable, writes, Standing
<1>4. /\ r.from \in Days /\ r.entries \in Plans[c]
      /\ r.previous \in VersionRow(c) \cup {None}
      /\ r.previous # None => r.previous.from < r.from
  BY <1>1, <1>3 DEF TimetableRequest, Standing, Requested, Based
<1> DEFINE V == {ended(r, v) : v \in versions[c]} \cup {begun(r, id)}
<1>5. versions' = [versions EXCEPT ![c] = V] /\ \A v \in versions[c] : v.id # id
  BY <1>1, <1>2 DEF CreateTimetable, ended, begun
<1>6. begun(r, id) \in VersionRow(c)
  BY <1>4 DEF VersionRow, begun
<1>7. ASSUME NEW v \in versions[c]
      PROVE  /\ v \in VersionRow(c) /\ ended(r, v) \in VersionRow(c)
             /\ ended(r, v).id = v.id /\ ended(r, v).from = v.from
             /\ ended(r, v).entries = v.entries
  <2>1. v \in VersionRow(c)
    BY <1>3 DEF Standing, TimetableTypeOK
  <2>2. CASE ended(r, v) = v
    BY <2>1, <2>2
  <2>3. CASE ended(r, v) # v
    <3>1. r.previous # None /\ ended(r, v) = [v EXCEPT !.to = r.from - 1]
      BY <2>3 DEF ended
    <3>2. r.from - 1 \in Days
      BY <1>4, <3>1, TimetableAssumption DEF VersionRow, Days
    <3> QED
      BY <1>3, <2>1, <3>1, <3>2, CutVersion
  <2> QED
    BY <2>2, <2>3
<1>8. versions = [d \in Classes |-> versions[d]]
  BY DEF Standing, TimetableTypeOK
<1> HIDE DEF V
<1>9. versions'[c] = V /\ \A d \in Classes \ {c} : versions'[d] = versions[d]
  BY <1>3, <1>5, <1>8
<1> QED
  BY <1>1, <1>2, <1>3, <1>4, <1>5, <1>6, <1>7, <1>9 DEF V

(* When nobody else has made a timetable meanwhile, it is every version    *)
(* that ends before the new one begins.                                    *)
LEMMA CreatedVersions ==
  ASSUME Standing, Tiled, NEW m \in Managers, NEW id \in TimetableIds,
         CreateTimetable(m, id)
  PROVE  LET r == managing[m]
             c == r.class
         IN /\ versions'[c] = {cutAt(v, r.from) : v \in versions[c]} \cup {begun(r, id)}
            /\ \A v \in versions[c] : v.from < r.from
<1>1. PICK r : r = managing[m]
  OBVIOUS
<1>2. PICK c : c = r.class
  OBVIOUS
<1>3. /\ r # None /\ r.op = "timetable" /\ r \in TimetableRequest(c)
      /\ c \in Classes /\ r.from \in Days
      /\ versions'[c] = {ended(r, v) : v \in versions[c]} \cup {begun(r, id)}
      /\ \A v \in versions[c] : v \in VersionRow(c)
  BY <1>1, <1>2, CreatedRows
<1>4. Last(r)
  BY <1>1, <1>3 DEF Tiled, writes
<1>5. ASSUME NEW v \in versions[c] PROVE ended(r, v) = cutAt(v, r.from)
  <2>1. PICK p \in versions[c] :
          /\ r.previous # None /\ p.id = r.previous.id /\ p.to = r.previous.to
          /\ \A u \in versions[c] : u.from <= p.from
    BY <1>2, <1>4 DEF Last
  <2>2. CASE v = p
    BY <2>1, <2>2 DEF ended, cutAt
  <2>3. CASE v # p
    <3>1. v.id # r.previous.id
      BY <1>3, <2>1, <2>3 DEF Standing, OneOfEach
    <3>2. ended(r, v) = v
      BY <3>1 DEF ended
    <3>3. /\ v.from \in Nat /\ p.from \in Nat /\ r.from \in Nat
          /\ v.to \in Nat \cup {None} /\ p.to \in Nat \cup {None}
          /\ None \notin Nat
      BY <1>3, TimetableAssumption DEF VersionRow, Days
    <3>4. /\ (v.to # None /\ v.to < p.from) \/ (p.to # None /\ p.to < v.from)
          /\ p.to = None \/ p.from <= p.to
          /\ v.from <= p.from /\ p.from < r.from
      BY <1>2, <1>3, <1>4, <2>1, <2>3 DEF Tiled, OneVersion, Last
    <3>5. v.to # None /\ ~(v.to >= r.from)
      BY <3>3, <3>4
    <3> QED
      BY <3>2, <3>5 DEF cutAt
  <2> QED
    BY <2>2, <2>3
<1>6. {ended(r, v) : v \in versions[c]} = {cutAt(v, r.from) : v \in versions[c]}
  BY <1>5
<1>7. \A v \in versions[c] : v.from < r.from
  BY <1>2, <1>4 DEF Last
<1> QED
  BY <1>1, <1>2, <1>3, <1>6, <1>7

(* A version with the entries of r.                                        *)
replaced(r, v) ==
  IF v.id = r.version.id THEN [v EXCEPT !.entries = r.entries] ELSE v

LEMMA ReplacedVersions ==
  ASSUME Standing, NEW m \in Managers, ReplaceEntries(m)
  PROVE  LET r == managing[m]
             c == r.class
         IN /\ r # None /\ r.op = "entries" /\ r \in EntriesRequest(c)
            /\ c \in Classes /\ r.entries \in Plans[c]
            /\ versions' = [versions EXCEPT ![c] = {replaced(r, v) : v \in versions[c]}]
            /\ versions'[c] = {replaced(r, v) : v \in versions[c]}
            /\ \A d \in Classes \ {c} : versions'[d] = versions[d]
            /\ \A v \in versions[c] :
                 /\ v \in VersionRow(c) /\ replaced(r, v) \in VersionRow(c)
                 /\ replaced(r, v).id = v.id /\ replaced(r, v).from = v.from
                 /\ replaced(r, v).to = v.to
                 /\ replaced(r, v).entries =
                      IF v.id = r.version.id THEN r.entries ELSE v.entries
<1>1. PICK r : r = managing[m]
  OBVIOUS
<1>2. PICK c : c = r.class
  OBVIOUS
<1>3. r # None /\ r.op = "entries" /\ r \in EntriesRequest(c) /\ c \in Classes
  BY <1>1, <1>2, RequestOf DEF ReplaceEntries, writes, Standing
<1>4. r.entries \in Plans[c]
  BY <1>3 DEF EntriesRequest
<1> DEFINE V == {replaced(r, v) : v \in versions[c]}
<1>5. versions' = [versions EXCEPT ![c] = V]
  BY <1>1, <1>2 DEF ReplaceEntries, replaced
<1>6. ASSUME NEW v \in versions[c]
      PROVE  /\ v \in VersionRow(c) /\ replaced(r, v) \in VersionRow(c)
             /\ replaced(r, v).id = v.id /\ replaced(r, v).from = v.from
             /\ replaced(r, v).to = v.to
             /\ replaced(r, v).entries =
                  IF v.id = r.version.id THEN r.entries ELSE v.entries
  <2>1. v \in VersionRow(c)
    BY <1>3 DEF Standing, TimetableTypeOK
  <2>2. CASE v.id = r.version.id
    <3>1. replaced(r, v) = [v EXCEPT !.entries = r.entries]
      BY <2>2 DEF replaced
    <3> QED
      BY <1>4, <2>1, <2>2, <3>1 DEF VersionRow
  <2>3. CASE v.id # r.version.id
    BY <2>1, <2>3 DEF replaced
  <2> QED
    BY <2>2, <2>3
<1>7. versions = [d \in Classes |-> versions[d]]
  BY DEF Standing, TimetableTypeOK
<1> HIDE DEF V
<1>8. versions'[c] = V /\ \A d \in Classes \ {c} : versions'[d] = versions[d]
  BY <1>3, <1>5, <1>7
<1> QED
  BY <1>1, <1>2, <1>3, <1>4, <1>5, <1>6, <1>8 DEF V

LEMMA ChangeRowStored ==
  ASSUME NEW c \in Classes, NEW row \in ChangeRow(c), NEW id \in 1..MaxChanges
  PROVE  LET ch == changeRow(row, id)
         IN /\ ch \in StoredChange(c) /\ ~ch.voided /\ ch.id = id
            /\ ch.day = row.day /\ ch.period = row.period
            /\ ch.subgroup = row.subgroup /\ ch.type = row.type
BY DEF changeRow, ChangeRow, StoredChange

(* The changes after CreateChange, and after VoidChange.                   *)
LEMMA CreatedChanges ==
  ASSUME Standing, NEW m \in Managers, CreateChange(m)
  PROVE  LET r   == managing[m]
             c   == r.class
             row == r.row
             ch  == changeRow(row, Len(changes[c]) + 1)
         IN /\ r # None /\ r.op = "change" /\ c \in Classes
            /\ row \in ChangeRows[c]
            /\ ch \in StoredChange(c) /\ ~ch.voided
            /\ ch.id = Len(changes[c]) + 1
            /\ ch.day = row.day /\ ch.period = row.period
            /\ ch.subgroup = row.subgroup /\ ch.type = row.type
            /\ row.day \in Days
            /\ changes[c] \in Seq(StoredChange(c))
            /\ Len(changes[c]) < MaxChanges
            /\ added(c, row) = Append(changes[c], ch)
            /\ changes' = [changes EXCEPT ![c] = Append(changes[c], ch)]
            /\ changes'[c] = Append(changes[c], ch)
            /\ \A d \in Classes \ {c} : changes'[d] = changes[d]
<1>1. PICK r : r = managing[m]
  OBVIOUS
<1>2. PICK c : c = r.class
  OBVIOUS
<1>3. PICK row : row = r.row
  OBVIOUS
<1>4. r # None /\ r.op = "change" /\ r \in ChangeRequest(c) /\ c \in Classes
  BY <1>1, <1>2, RequestOf DEF CreateChange, writes, Standing
<1>5. row \in ChangeRows[c]
  BY <1>3, <1>4 DEF ChangeRequest
<1> DEFINE id == Len(changes[c]) + 1
           ch == changeRow(row, id)
<1>6. changes[c] \in Seq(StoredChange(c)) /\ changes = [d \in Classes |-> changes[d]]
  BY <1>4 DEF Standing, TimetableTypeOK
<1>7. Len(changes[c]) < MaxChanges /\ id \in 1..MaxChanges
  BY <1>1, <1>2, <1>6, TimetableAssumption DEF CreateChange
<1>8. row \in ChangeRow(c)
  BY <1>4, <1>5, RequestsAssumption
<1>9. changes' = [changes EXCEPT ![c] = Append(changes[c], ch)]
      /\ added(c, row) = Append(changes[c], ch)
  BY <1>1, <1>2, <1>3 DEF CreateChange, added
<1> HIDE DEF id
<1>10. /\ ch \in StoredChange(c) /\ ~ch.voided /\ ch.id = id
       /\ ch.day = row.day /\ ch.period = row.period
       /\ ch.subgroup = row.subgroup /\ ch.type = row.type
  BY <1>4, <1>7, <1>8, ChangeRowStored
<1>11. row.day \in Days
  BY <1>8 DEF ChangeRow
<1> HIDE DEF ch
<1>12. /\ changes'[c] = Append(changes[c], ch)
       /\ \A d \in Classes \ {c} : changes'[d] = changes[d]
  BY <1>4, <1>6, <1>9
<1> QED
  BY <1>1, <1>2, <1>3, <1>4, <1>5, <1>6, <1>7, <1>9, <1>10, <1>11, <1>12 DEF ch, id

LEMMA VoidedChanges ==
  ASSUME Standing, NEW m \in Managers, VoidChange(m)
  PROVE  LET r == managing[m]
             c == r.class
             n == r.change
         IN /\ r # None /\ r.op = "void" /\ c \in Classes
            /\ n \in DOMAIN changes[c]
            /\ changes[c] \in Seq(StoredChange(c))
            /\ changes[c][n] \in StoredChange(c) /\ changes[c][n].day \in Days
            /\ takenBack(c, n) = voidedAt(changes[c], n)
            /\ voidedAt(changes[c], n) \in Seq(StoredChange(c))
            /\ Len(voidedAt(changes[c], n)) = Len(changes[c])
            /\ changes' = [changes EXCEPT ![c] = voidedAt(changes[c], n)]
            /\ changes'[c] = voidedAt(changes[c], n)
            /\ \A d \in Classes \ {c} : changes'[d] = changes[d]
<1>1. PICK r : r = managing[m]
  OBVIOUS
<1>2. PICK c : c = r.class
  OBVIOUS
<1>3. PICK n : n = r.change
  OBVIOUS
<1>4. r # None /\ r.op = "void" /\ c \in Classes
  BY <1>1, <1>2, RequestOf DEF VoidChange, writes, Standing
<1>5. n \in DOMAIN changes[c]
  BY <1>1, <1>2, <1>3, <1>4 DEF Standing, Requested, Based
<1>6. changes[c] \in Seq(StoredChange(c)) /\ changes = [d \in Classes |-> changes[d]]
  BY <1>4 DEF Standing, TimetableTypeOK
<1>7. changes[c][n] \in StoredChange(c)
  BY <1>5, <1>6
<1>8. changes[c][n].day \in Days
  BY <1>7 DEF StoredChange
<1>9. voidedAt(changes[c], n) \in Seq(StoredChange(c))
      /\ Len(voidedAt(changes[c], n)) = Len(changes[c])
  BY <1>4, <1>5, <1>6, VoidedList
<1>10. changes' = [changes EXCEPT ![c] = voidedAt(changes[c], n)]
       /\ takenBack(c, n) = voidedAt(changes[c], n)
  BY <1>1, <1>2, <1>3 DEF VoidChange, takenBack, voidedAt
<1>11. /\ changes'[c] = voidedAt(changes[c], n)
       /\ \A d \in Classes \ {c} : changes'[d] = changes[d]
  BY <1>4, <1>6, <1>10
<1> QED
  BY <1>1, <1>2, <1>3, <1>4, <1>5, <1>6, <1>7, <1>8, <1>9, <1>10, <1>11

-----------------------------------------------------------------------------
(* Types, days of records and what requests are based on, step by step     *)

LEMMA StandingInit == TimetableInit => Standing
<1> SUFFICES ASSUME TimetableInit PROVE Standing
  OBVIOUS
<1>1. 1 \in Days
  BY TimetableAssumption DEF Days
<1>2. \A c \in Classes : <<>> \in Seq(StoredChange(c)) /\ Len(<<>>) <= MaxChanges
  BY TimetableAssumption
<1>3. TimetableTypeOK
  BY <1>1, <1>2 DEF TimetableInit, TimetableTypeOK
<1>4. OneOfEach /\ Past /\ Requested
  BY DEF TimetableInit, OneOfEach, Past, Requested
<1> QED
  BY <1>3, <1>4 DEF Standing

LEMMA StandingPrepare ==
  ASSUME Standing, NEW m \in Managers, NEW r \in RequestRow, Prepare(m, r), Based(r)
  PROVE  Standing'
<1>1. /\ managing'[m] = r
      /\ \A n \in Managers \ {m} : managing'[n] = managing[n]
      /\ managing' \in [Managers -> RequestRow \cup {None}]
      /\ UNCHANGED <<today, versions, changes, lessons, marks, save>>
  BY Prepared DEF Standing
<1>2. TimetableTypeOK'
  BY <1>1 DEF Standing, TimetableTypeOK
<1>3. OneOfEach' /\ Past'
  BY <1>1 DEF Standing, OneOfEach, Past
<1>4. Requested'
  <2> SUFFICES ASSUME NEW n \in Managers, managing'[n] # None
               PROVE  Based(managing[n])'
    BY DEF Requested
  <2>1. CASE n = m
    BY <1>1, <2>1 DEF Based
  <2>2. CASE n # m
    <3>1. managing'[n] = managing[n] /\ Based(managing[n])
      BY <1>1, <2>2 DEF Standing, Requested
    <3> QED
      BY <1>1, <3>1 DEF Based
  <2> QED
    BY <2>1, <2>2
<1> QED
  BY <1>2, <1>3, <1>4 DEF Standing

LEMMA StandingBegin ==
  ASSUME Standing, NEW m \in Managers, NEW c \in Classes,
         \/ \E from \in Days : \E p \in Plans[c] : BeginCreateTimetable(m, c, from, p)
         \/ \E v \in versions[c] : \E p \in Plans[c] : BeginReplaceEntries(m, c, v, p)
         \/ \E row \in ChangeRows[c] : BeginCreateChange(m, c, row)
         \/ \E n \in DOMAIN changes[c] : BeginVoidChange(m, c, n)
  PROVE  Standing'
<1> TimetableTypeOK
  BY DEF Standing
<1>1. ASSUME NEW from \in Days, NEW p \in Plans[c], BeginCreateTimetable(m, c, from, p)
      PROVE  Standing'
  BY <1>1, BegunTimetable, StandingPrepare
<1>2. ASSUME NEW v \in versions[c], NEW p \in Plans[c], BeginReplaceEntries(m, c, v, p)
      PROVE  Standing'
  BY <1>2, BegunEntries, StandingPrepare
<1>3. ASSUME NEW row \in ChangeRows[c], BeginCreateChange(m, c, row)
      PROVE  Standing'
  BY <1>3, BegunChange, StandingPrepare
<1>4. ASSUME NEW n \in DOMAIN changes[c], BeginVoidChange(m, c, n)
      PROVE  Standing'
  BY <1>4, BegunVoid, StandingPrepare
<1> QED
  BY <1>1, <1>2, <1>3, <1>4

(* What the other requests are based on stays.                             *)
LEMMA RequestedAfter ==
  ASSUME Standing, NEW m \in Managers, Done(m),
         \A c \in Classes : \A v \in versions[c] : \E u \in versions'[c] :
           u.id = v.id /\ u.from = v.from,
         \A c \in Classes : DOMAIN changes[c] \subseteq DOMAIN changes'[c]
  PROVE  Requested'
<1> SUFFICES ASSUME NEW n \in Managers, managing'[n] # None
             PROVE  Based(managing[n])'
  BY DEF Requested
<1>1. managing'[n] = managing[n]
  BY Finished DEF Standing
<1>2. Based(managing[n]) /\ managing[n].class \in Classes
  BY <1>1, RequestOf DEF Standing, Requested
<1> QED
  BY <1>1, <1>2 DEF Based

LEMMA StandingCreateTimetable ==
  ASSUME Standing, NEW m \in Managers, NEW id \in TimetableIds,
         CreateTimetable(m, id)
  PROVE  Standing'
<1>1. PICK r : r = managing[m]
  OBVIOUS
<1>2. PICK c : c = r.class
  OBVIOUS
<1> DEFINE V == {ended(r, v) : v \in versions[c]} \cup {begun(r, id)}
<1>3. /\ c \in Classes
      /\ versions' = [versions EXCEPT ![c] = V]
      /\ versions'[c] = V
      /\ \A d \in Classes \ {c} : versions'[d] = versions[d]
      /\ begun(r, id) \in VersionRow(c)
      /\ \A v \in versions[c] :
           /\ v \in VersionRow(c) /\ v.id # id
           /\ ended(r, v) \in VersionRow(c)
           /\ ended(r, v).id = v.id /\ ended(r, v).from = v.from
  BY <1>1, <1>2, CreatedRows
<1>4. /\ managing' \in [Managers -> RequestRow \cup {None}]
      /\ UNCHANGED <<today, changes, lessons, marks, save>> /\ Done(m)
  BY Finished DEF Standing, CreateTimetable
<1>5. V \subseteq VersionRow(c)
  BY <1>3
<1>6. versions' = [d \in Classes |-> versions'[d]]
  BY <1>3 DEF Standing, TimetableTypeOK
<1> HIDE DEF V
<1>7. TimetableTypeOK'
  <2>1. \A d \in Classes : versions'[d] \subseteq VersionRow(d)
    BY <1>3, <1>5 DEF Standing, TimetableTypeOK
  <2> QED
    BY <1>4, <1>6, <2>1 DEF Standing, TimetableTypeOK
<1>8. OneOfEach'
  <2>1. \A a \in V : a = begun(r, id) \/ \E v \in versions[c] : a = ended(r, v)
    BY DEF V
  <2>2. begun(r, id).id = id
    BY DEF begun
  <2>3. ASSUME NEW a \in V, NEW b \in V, a.id = b.id PROVE a = b
    <3>1. CASE a = begun(r, id)
      BY <1>3, <2>1, <2>2, <2>3, <3>1
    <3>2. CASE b = begun(r, id)
      BY <1>3, <2>1, <2>2, <2>3, <3>2
    <3>3. CASE a # begun(r, id) /\ b # begun(r, id)
      <4>1. PICK v \in versions[c] : a = ended(r, v)
        BY <2>1, <3>3
      <4>2. PICK w \in versions[c] : b = ended(r, w)
        BY <2>1, <3>3
      <4>3. v = w
        BY <1>3, <2>3, <4>1, <4>2 DEF Standing, OneOfEach
      <4> QED
        BY <4>1, <4>2, <4>3
    <3> QED
      BY <3>1, <3>2, <3>3
  <2> QED
    BY <1>3, <2>3 DEF Standing, OneOfEach
<1>9. Past'
  BY <1>4 DEF Standing, Past
<1>10. Requested'
  <2>1. \A v \in versions[c] : ended(r, v) \in V
    BY DEF V
  <2>2. \A d \in Classes : \A v \in versions[d] : \E u \in versions'[d] :
          u.id = v.id /\ u.from = v.from
    BY <1>3, <2>1
  <2>3. \A d \in Classes : DOMAIN changes[d] \subseteq DOMAIN changes'[d]
    BY <1>4
  <2> QED
    BY <1>4, <2>2, <2>3, RequestedAfter
<1> QED
  BY <1>7, <1>8, <1>9, <1>10 DEF Standing

LEMMA StandingReplaceEntries ==
  ASSUME Standing, NEW m \in Managers, ReplaceEntries(m)
  PROVE  Standing'
<1>1. PICK r : r = managing[m]
  OBVIOUS
<1>2. PICK c : c = r.class
  OBVIOUS
<1> DEFINE V == {replaced(r, v) : v \in versions[c]}
<1>3. /\ c \in Classes
      /\ versions' = [versions EXCEPT ![c] = V]
      /\ versions'[c] = V
      /\ \A d \in Classes \ {c} : versions'[d] = versions[d]
      /\ \A v \in versions[c] :
           /\ replaced(r, v) \in VersionRow(c)
           /\ replaced(r, v).id = v.id /\ replaced(r, v).from = v.from
  BY <1>1, <1>2, ReplacedVersions
<1>4. /\ managing' \in [Managers -> RequestRow \cup {None}]
      /\ UNCHANGED <<today, changes, lessons, marks, save>> /\ Done(m)
  BY Finished DEF Standing, ReplaceEntries
<1>5. V \subseteq VersionRow(c)
  BY <1>3
<1>6. versions' = [d \in Classes |-> versions'[d]]
  BY <1>3 DEF Standing, TimetableTypeOK
<1>7. \A v \in versions[c] : replaced(r, v) \in V
  OBVIOUS
<1>8. \A a \in V : \E v \in versions[c] : a = replaced(r, v)
  OBVIOUS
<1> HIDE DEF V
<1>9. TimetableTypeOK'
  <2>1. \A d \in Classes : versions'[d] \subseteq VersionRow(d)
    BY <1>3, <1>5 DEF Standing, TimetableTypeOK
  <2> QED
    BY <1>4, <1>6, <2>1 DEF Standing, TimetableTypeOK
<1>10. OneOfEach'
  <2>1. ASSUME NEW a \in V, NEW b \in V, a.id = b.id PROVE a = b
    <3>1. PICK v \in versions[c] : a = replaced(r, v)
      BY <1>8
    <3>2. PICK w \in versions[c] : b = replaced(r, w)
      BY <1>8
    <3>3. v = w
      BY <1>3, <2>1, <3>1, <3>2 DEF Standing, OneOfEach
    <3> QED
      BY <3>1, <3>2, <3>3
  <2> QED
    BY <1>3, <2>1 DEF Standing, OneOfEach
<1>11. Past'
  BY <1>4 DEF Standing, Past
<1>12. Requested'
  <2>1. \A d \in Classes : \A v \in versions[d] : \E u \in versions'[d] :
          u.id = v.id /\ u.from = v.from
    BY <1>3, <1>7
  <2>2. \A d \in Classes : DOMAIN changes[d] \subseteq DOMAIN changes'[d]
    BY <1>4
  <2> QED
    BY <1>4, <2>1, <2>2, RequestedAfter
<1> QED
  BY <1>9, <1>10, <1>11, <1>12 DEF Standing

LEMMA StandingChanges ==
  ASSUME Standing, NEW m \in Managers, Done(m), NEW c \in Classes,
         UNCHANGED <<today, versions, lessons, marks, save>>,
         NEW list \in Seq(StoredChange(c)), Len(list) <= MaxChanges,
         DOMAIN changes[c] \subseteq DOMAIN list,
         changes' = [changes EXCEPT ![c] = list]
  PROVE  Standing'
<1>1. changes = [d \in Classes |-> changes[d]]
  BY DEF Standing, TimetableTypeOK
<1>2. changes'[c] = list /\ \A d \in Classes \ {c} : changes'[d] = changes[d]
  BY <1>1
<1>3. changes' = [d \in Classes |-> changes'[d]]
  BY <1>1
<1>4. managing' \in [Managers -> RequestRow \cup {None}]
  BY Finished DEF Standing
<1>5. TimetableTypeOK'
  <2>1. \A d \in Classes :
          changes'[d] \in Seq(StoredChange(d)) /\ Len(changes'[d]) <= MaxChanges
    BY <1>2 DEF Standing, TimetableTypeOK
  <2> QED
    BY <1>3, <1>4, <2>1 DEF Standing, TimetableTypeOK
<1>6. OneOfEach' /\ Past'
  BY DEF Standing, OneOfEach, Past
<1>7. \A d \in Classes : DOMAIN changes[d] \subseteq DOMAIN changes'[d]
  BY <1>2
<1>8. Requested'
  BY <1>7, RequestedAfter
<1> QED
  BY <1>5, <1>6, <1>8 DEF Standing

LEMMA StandingCreateChange ==
  ASSUME Standing, NEW m \in Managers, CreateChange(m)
  PROVE  Standing'
<1>1. PICK c : c = managing[m].class
  OBVIOUS
<1>2. PICK ch : ch = changeRow(managing[m].row, Len(changes[c]) + 1)
  OBVIOUS
<1> DEFINE list == Append(changes[c], ch)
<1>3. /\ c \in Classes /\ ch \in StoredChange(c)
      /\ changes[c] \in Seq(StoredChange(c)) /\ Len(changes[c]) < MaxChanges
      /\ changes' = [changes EXCEPT ![c] = list]
  BY <1>1, <1>2, CreatedChanges
<1>4. /\ list \in Seq(StoredChange(c)) /\ Len(list) <= MaxChanges
      /\ DOMAIN changes[c] \subseteq DOMAIN list
  BY <1>3, TimetableAssumption
<1>5. UNCHANGED <<today, versions, lessons, marks, save>> /\ Done(m)
  BY DEF CreateChange
<1> HIDE DEF list
<1> QED
  BY <1>3, <1>4, <1>5, StandingChanges

LEMMA StandingVoidChange ==
  ASSUME Standing, NEW m \in Managers, VoidChange(m)
  PROVE  Standing'
<1>1. PICK c : c = managing[m].class
  OBVIOUS
<1>2. PICK list : list = voidedAt(changes[c], managing[m].change)
  OBVIOUS
<1>3. /\ c \in Classes /\ changes[c] \in Seq(StoredChange(c))
      /\ list \in Seq(StoredChange(c)) /\ Len(list) = Len(changes[c])
      /\ changes' = [changes EXCEPT ![c] = list]
  BY <1>1, <1>2, VoidedChanges
<1>4. Len(list) <= MaxChanges /\ DOMAIN changes[c] \subseteq DOMAIN list
  BY <1>3 DEF Standing, TimetableTypeOK
<1>5. UNCHANGED <<today, versions, lessons, marks, save>> /\ Done(m)
  BY DEF VoidChange
<1> QED
  BY <1>3, <1>4, <1>5, StandingChanges

(* The requests of managers and what they are based on are left alone.     *)
LEMMA RequestedStays ==
  ASSUME Requested, UNCHANGED <<versions, changes, managing>>
  PROVE  Requested'
BY DEF Requested, Based

(* A request as BeginSave and LockLesson leave it.                         *)
saved(lesson, wanted, isLocked, seen) ==
  [lesson |-> lesson, wanted |-> wanted, locked |-> isLocked, seen |-> seen]

LEMMA LockedRow ==
  ASSUME NEW row \in SaveRow, NEW seen
  PROVE  [row EXCEPT !.locked = TRUE, !.seen = seen] =
           saved(row.lesson, row.wanted, TRUE, seen)
<1> DEFINE one == [row EXCEPT !.locked = TRUE]
           two == [one EXCEPT !.seen = seen]
<1>1. row = saved(row.lesson, row.wanted, row.locked, row.seen)
  BY DEF SaveRow, saved
<1>2. one = saved(row.lesson, row.wanted, TRUE, row.seen)
  <2>1. PICK same : same = saved(row.lesson, row.wanted, row.locked, row.seen)
    OBVIOUS
  <2>2. one = [same EXCEPT !.locked = TRUE]
    BY <1>1, <2>1
  <2> HIDE DEF one
  <2> QED
    BY <2>1, <2>2 DEF saved
<1> HIDE DEF one
<1>3. two = saved(row.lesson, row.wanted, TRUE, seen)
  <2> HIDE DEF two
  <2>1. two = [one EXCEPT !.seen = seen]
    BY DEF two
  <2> QED
    BY <1>2, <2>1 DEF saved
<1> QED
  BY <1>3 DEF two, one

LEMMA SaveOf ==
  ASSUME TimetableTypeOK, NEW w \in Savers, save[w] # None
  PROVE  /\ save[w] \in SaveRow
         /\ save[w].lesson \in LessonRow
         /\ save[w].seen \subseteq MarkRow
         /\ \E c \in Classes : save[w].wanted \in Wishes(c)
BY DEF TimetableTypeOK, SaveRow

LEMMA SavedLesson ==
  ASSUME Standing, NEW c \in Classes, NEW day \in Days, NEW s,
         s \in held(slotsOn(c, day))
  PROVE  [class |-> c, day |-> day, period |-> s.period,
          subgroup |-> s.subgroup, teacher |-> s.teacher,
          late |-> FALSE] \in LessonRow
<1>1. slotsOn(c, day) \in Seq(Slot(c))
  BY SlotsOnType DEF Standing
<1>2. s \in Slot(c)
  BY <1>1 DEF held
<1>3. s.period \in Periods /\ s.subgroup \in Subgroups /\ s.teacher \in Teachers
  BY <1>2 DEF Slot, Periods
<1> QED
  BY <1>3 DEF LessonRow

(* The lesson of a request as BeginSave finds it.                          *)
lessonAt(c, day, s) ==
  [class |-> c, day |-> day, period |-> s.period, subgroup |-> s.subgroup,
   teacher |-> s.teacher, late |-> FALSE]

LEMMA BegunSave ==
  ASSUME Standing, NEW w \in Savers, NEW c \in Classes, NEW day \in Days,
         NEW s, NEW wanted \in Wishes(c), s \in held(slotsOn(c, day)),
         BeginSave(w, c, day, s, wanted)
  PROVE  \E row \in SaveRow :
           /\ row # None /\ row.lesson.day = day /\ ~row.locked
           /\ save' = [save EXCEPT ![w] = row]
           /\ save'[w] = row /\ \A u \in Savers \ {w} : save'[u] = save[u]
<1> DEFINE row == saved(lessonAt(c, day, s), wanted, FALSE, {})
<1>1. lessonAt(c, day, s) \in LessonRow
  BY SavedLesson DEF lessonAt
<1>2. save' = [save EXCEPT ![w] = row]
  BY DEF BeginSave, saved, lessonAt
<1>3. row \in SaveRow
  BY <1>1 DEF saved, SaveRow
<1>7. row.lesson.day = day /\ ~row.locked
  BY DEF saved, lessonAt
<1> HIDE DEF row
<1>4. row # None
  BY <1>3, RowsAssumption
<1>5. save \in [Savers -> SaveRow \cup {None}]
  BY DEF Standing, TimetableTypeOK
<1>6. save'[w] = row /\ \A u \in Savers \ {w} : save'[u] = save[u]
  BY <1>2, <1>5
<1> QED
  BY <1>2, <1>3, <1>4, <1>6, <1>7

LEMMA StandingBeginSave ==
  ASSUME Standing, NEW w \in Savers, NEW c \in Classes, NEW day \in Days,
         NEW s, NEW wanted \in Wishes(c), s \in held(slotsOn(c, day)),
         BeginSave(w, c, day, s, wanted)
  PROVE  Standing'
<1>2. PICK row \in SaveRow :
        /\ row # None /\ row.lesson.day = day /\ ~row.locked
        /\ save' = [save EXCEPT ![w] = row]
        /\ save'[w] = row /\ \A u \in Savers \ {w} : save'[u] = save[u]
  BY BegunSave
<1>3. day <= today
  BY DEF BeginSave
<1>4. TimetableTypeOK'
  BY ZenonT(30), <1>2 DEF Standing, TimetableTypeOK, BeginSave
<1>5. OneOfEach' /\ Requested'
  BY RequestedStays DEF Standing, OneOfEach, BeginSave
<1>6. Past'
  BY <1>2, <1>3 DEF Standing, Past, BeginSave
<1> QED
  BY <1>4, <1>5, <1>6 DEF Standing

LEMMA LateLesson ==
  ASSUME NEW l \in LessonRow, NEW late \in BOOLEAN
  PROVE  LET new == [l EXCEPT !.late = late]
         IN /\ new \in LessonRow /\ new.late = late /\ new.day = l.day
            /\ new.class = l.class
            /\ new.period = l.period /\ new.subgroup = l.subgroup
BY DEF LessonRow

LEMMA LockedSave ==
  ASSUME TimetableTypeOK, NEW w \in Savers, LockLesson(w)
  PROVE  LET l == save[w].lesson
             seen == {m \in marks : /\ m.lesson = lessonOf(l)
                                    /\ m.child \in DOMAIN save[w].wanted}
             row == saved(l, save[w].wanted, TRUE, seen)
         IN /\ save[w] \in SaveRow /\ l \in LessonRow
            /\ row \in SaveRow
            /\ save' = [save EXCEPT ![w] = row]
            /\ save'[w] = row /\ \A u \in Savers \ {w} : save'[u] = save[u]
<1> DEFINE l == save[w].lesson
           seen == {m \in marks : /\ m.lesson = lessonOf(l)
                                  /\ m.child \in DOMAIN save[w].wanted}
           row == saved(l, save[w].wanted, TRUE, seen)
<1>1. save[w] \in SaveRow /\ l \in LessonRow
  BY SaveOf DEF LockLesson
<1>2. seen \subseteq MarkRow
  BY DEF TimetableTypeOK
<1>3. save \in [Savers -> SaveRow \cup {None}]
  BY DEF TimetableTypeOK
<1>4. save' = [save EXCEPT ![w] = [save[w] EXCEPT !.locked = TRUE, !.seen = seen]]
  <2>1. save' = [save EXCEPT ![w].locked = TRUE, ![w].seen = seen]
    BY DEF LockLesson
  <2> HIDE DEF seen
  <2> QED
    BY <2>1, <1>3
<1> HIDE DEF seen
<1>5. [save[w] EXCEPT !.locked = TRUE, !.seen = seen] = row
  BY <1>1, LockedRow
<1>6. row \in SaveRow
  BY <1>1, <1>2 DEF saved, SaveRow
<1>7. save' = [save EXCEPT ![w] = row]
  BY <1>4, <1>5
<1> HIDE DEF row
<1>8. save'[w] = row /\ \A u \in Savers \ {w} : save'[u] = save[u]
  BY <1>3, <1>7
<1> QED
  BY <1>1, <1>6, <1>7, <1>8 DEF row, seen

LEMMA StandingLockLesson ==
  ASSUME Standing, NEW w \in Savers, LockLesson(w)
  PROVE  Standing'
<1>1. PICK row \in SaveRow :
        /\ row.lesson = save[w].lesson
        /\ save' = [save EXCEPT ![w] = row]
        /\ save'[w] = row /\ \A u \in Savers \ {w} : save'[u] = save[u]
  BY LockedSave DEF Standing, saved
<1>2. save[w].lesson.day <= today
  BY DEF Standing, Past, LockLesson
<1>3. TimetableTypeOK'
  BY ZenonT(30), <1>1 DEF Standing, TimetableTypeOK, LockLesson
<1>4. OneOfEach' /\ Requested'
  BY RequestedStays DEF Standing, OneOfEach, LockLesson
<1>5. Past'
  BY <1>1, <1>2 DEF Standing, Past, LockLesson
<1> QED
  BY <1>3, <1>4, <1>5 DEF Standing

(* The marks a request writes.                                             *)
written(w, children) ==
  {[lesson |-> lessonOf(save[w].lesson), child |-> k,
    status |-> save[w].wanted[k], by |-> w] : k \in children}

keptOf(w) ==
  {k \in DOMAIN save[w].wanted :
     \E m \in save[w].seen : m.child = k /\ m.status = save[w].wanted[k]}

LEMMA WrittenMarks ==
  ASSUME TimetableTypeOK, NEW w \in Savers, WriteMarks(w)
  PROVE  LET new == DOMAIN save[w].wanted \ keptOf(w)
         IN /\ save[w] # None /\ save[w] \in SaveRow /\ save[w].locked
            /\ marks' = {m \in marks : ~(m \in save[w].seen /\ m.child \in new)}
                          \cup written(w, new)
            /\ written(w, new) \subseteq MarkRow
            /\ save' = [save EXCEPT ![w] = None]
            /\ save'[w] = None /\ \A u \in Savers \ {w} : save'[u] = save[u]
<1> DEFINE new == DOMAIN save[w].wanted \ keptOf(w)
<1>1. save[w] # None /\ save[w] \in SaveRow /\ save[w].locked
  BY SaveOf DEF WriteMarks
<1>2. marks' = {m \in marks : ~(m \in save[w].seen /\ m.child \in new)}
                 \cup written(w, new)
  BY DEF WriteMarks, keptOf, written
<1>3. written(w, new) \subseteq MarkRow
  <2>1. PICK c \in Classes : save[w].wanted \in Wishes(c)
    BY <1>1, SaveOf
  <2>2. PICK ks \in SUBSET Pupils[c] : save[w].wanted \in [ks -> Statuses]
    BY <2>1 DEF Wishes
  <2>3. lessonOf(save[w].lesson) \in LessonKey
    BY <1>1, SaveOf DEF LessonRow, LessonKey, lessonOf
  <2> QED
    BY <2>2, <2>3 DEF written, MarkRow
<1>4. save' = [save EXCEPT ![w] = None]
  BY DEF WriteMarks
<1>5. save'[w] = None /\ \A u \in Savers \ {w} : save'[u] = save[u]
  BY <1>4 DEF TimetableTypeOK
<1> QED
  BY <1>1, <1>2, <1>3, <1>4, <1>5

(* The lesson a request commits, unless it is there.                       *)
LEMMA WrittenLesson ==
  ASSUME TimetableTypeOK, NEW w \in Savers, WriteMarks(w)
  PROVE  LET l == save[w].lesson
         IN /\ l \in LessonRow
            /\ \E new \in LessonRow :
                 /\ new.late \/ inTime(l)
                 /\ new.class = l.class
                 /\ new.day = l.day /\ new.period = l.period
                 /\ new.subgroup = l.subgroup
                 /\ \A k \in lessons' : k \in lessons \/ k = new
<1>1. PICK l : l = save[w].lesson
  OBVIOUS
<1>2. l \in LessonRow
  BY <1>1, SaveOf DEF WriteMarks
<1>3. \A k \in lessons' : k \in lessons \/ k = [l EXCEPT !.late = ~inTime(l)]
  BY <1>1 DEF WriteMarks
<1>4. \E late \in BOOLEAN : /\ late \/ inTime(l)
                            /\ [l EXCEPT !.late = ~inTime(l)] = [l EXCEPT !.late = late]
  <2>1. CASE inTime(l)
    <3>1. [l EXCEPT !.late = ~inTime(l)] = [l EXCEPT !.late = FALSE]
      BY <2>1
    <3> QED
      BY <2>1, <3>1
  <2>2. CASE ~inTime(l)
    <3>1. [l EXCEPT !.late = ~inTime(l)] = [l EXCEPT !.late = TRUE]
      BY <2>2
    <3> QED
      BY <3>1
  <2> QED
    BY <2>1, <2>2
<1>5. PICK late \in BOOLEAN : /\ late \/ inTime(l)
                             /\ [l EXCEPT !.late = ~inTime(l)] = [l EXCEPT !.late = late]
  BY <1>4
<1>6. PICK new \in LessonRow :
        /\ new = [l EXCEPT !.late = late] /\ new.late = late
        /\ new.class = l.class /\ new.day = l.day
        /\ new.period = l.period /\ new.subgroup = l.subgroup
  BY <1>2, LateLesson
<1>7. \A k \in lessons' : k \in lessons \/ k = new
  BY <1>3, <1>5, <1>6
<1> QED
  BY <1>1, <1>2, <1>5, <1>6, <1>7

LEMMA StandingWriteMarks ==
  ASSUME Standing, NEW w \in Savers, WriteMarks(w)
  PROVE  Standing'
<1> DEFINE new == DOMAIN save[w].wanted \ keptOf(w)
<1>1. /\ marks' = {m \in marks : ~(m \in save[w].seen /\ m.child \in new)}
                    \cup written(w, new)
      /\ written(w, new) \subseteq MarkRow
      /\ save' = [save EXCEPT ![w] = None]
      /\ save'[w] = None /\ \A u \in Savers \ {w} : save'[u] = save[u]
  BY WrittenMarks DEF Standing
<1>2. PICK k \in LessonRow :
        k.day = save[w].lesson.day /\ \A l \in lessons' : l \in lessons \/ l = k
  BY WrittenLesson DEF Standing
<1>3. lessons' \subseteq LessonRow
  BY <1>2 DEF Standing, TimetableTypeOK
<1>4. TimetableTypeOK'
  BY <1>1, <1>3 DEF Standing, TimetableTypeOK, WriteMarks
<1>5. OneOfEach' /\ Requested'
  BY RequestedStays DEF Standing, OneOfEach, WriteMarks
<1>6. Past'
  <2>1. today' = today /\ save[w].lesson.day <= today
    BY DEF WriteMarks, Standing, Past
  <2>2. \A l \in lessons' : l.day <= today'
    BY <1>2, <2>1 DEF Standing, Past
  <2>3. \A u \in Savers : save'[u] # None => save'[u].lesson.day <= today'
    BY <1>1, <2>1 DEF Standing, Past
  <2> QED
    BY <2>2, <2>3 DEF Past
<1> QED
  BY <1>4, <1>5, <1>6 DEF Standing

LEMMA StandingNextSchoolDay ==
  ASSUME Standing, NextSchoolDay
  PROVE  Standing'
<1>1. today' \in Days /\ today' = today + 1 /\ today \in Nat
  BY TimetableAssumption DEF Standing, TimetableTypeOK, NextSchoolDay, Days
<1>2. TimetableTypeOK'
  BY <1>1 DEF Standing, TimetableTypeOK, NextSchoolDay
<1>3. OneOfEach' /\ Requested'
  BY RequestedStays DEF Standing, OneOfEach, NextSchoolDay
<1>4. Past'
  <2>1. \A l \in lessons : l.day \in Nat
    BY DEF Standing, TimetableTypeOK, LessonRow, Days
  <2>2. \A w \in Savers : save[w] # None => save[w].lesson.day \in Nat
    BY SaveOf DEF Standing, LessonRow, Days
  <2> QED
    BY <1>1, <2>1, <2>2 DEF Standing, Past, NextSchoolDay
<1> QED
  BY <1>2, <1>3, <1>4 DEF Standing

LEMMA StandingStep == Standing /\ [TimetableNext]_timetableVars => Standing'
<1> SUFFICES ASSUME Standing, [TimetableNext]_timetableVars PROVE Standing'
  OBVIOUS
<1>1. ASSUME NEW m \in Managers, NEW id \in TimetableIds, CreateTimetable(m, id)
      PROVE  Standing'
  BY <1>1, StandingCreateTimetable
<1>2. ASSUME NEW m \in Managers, ReplaceEntries(m) PROVE Standing'
  BY <1>2, StandingReplaceEntries
<1>3. ASSUME NEW m \in Managers, CreateChange(m) PROVE Standing'
  BY <1>3, StandingCreateChange
<1>4. ASSUME NEW m \in Managers, VoidChange(m) PROVE Standing'
  BY <1>4, StandingVoidChange
<1>5. CASE Manager
  BY <1>1, <1>2, <1>3, <1>4, <1>5, StandingBegin DEF Manager
<1>6. ASSUME NEW w \in Savers, NEW c \in Classes, NEW day \in Days,
             NEW s \in held(slotsOn(c, day)), NEW wanted \in Wishes(c),
             BeginSave(w, c, day, s, wanted)
      PROVE  Standing'
  BY <1>6, StandingBeginSave
<1>7. ASSUME NEW w \in Savers, LockLesson(w) PROVE Standing'
  BY <1>7, StandingLockLesson
<1>8. ASSUME NEW w \in Savers, WriteMarks(w) PROVE Standing'
  BY <1>8, StandingWriteMarks
<1>9. CASE NextSchoolDay
  BY <1>9, StandingNextSchoolDay
<1>10. CASE UNCHANGED timetableVars
  BY <1>10, RequestedStays
     DEF timetableVars, Standing, TimetableTypeOK, OneOfEach, Past
<1> QED
  BY <1>5, <1>6, <1>7, <1>8, <1>9, <1>10 DEF TimetableNext, Teacher

-----------------------------------------------------------------------------
(* A class has one timetable on a day                                      *)

LEMMA TiledInit == TimetableInit => Tiled
BY DEF TimetableInit, Tiled, OneVersion, writes

LEMMA TiledPrepare ==
  ASSUME TimetableTypeOK, Tiled, NEW m \in Managers, NEW r \in RequestRow,
         Prepare(m, r), r.op = "timetable" => Last(r)
  PROVE  Tiled'
<1>1. /\ managing'[m] = r /\ versions' = versions
      /\ \A n \in Managers \ {m} : managing'[n] = managing[n]
  BY Prepared
<1>2. ASSUME NEW n \in Managers, writes(n, "timetable")' PROVE Last(managing[n])'
  <2>1. CASE n = m
    BY <1>1, <1>2, <2>1 DEF writes, Last
  <2>2. CASE n # m
    <3>1. managing'[n] = managing[n] /\ Last(managing[n])
      BY <1>1, <1>2, <2>2 DEF Tiled, writes
    <3> QED
      BY <1>1, <3>1 DEF Last
  <2> QED
    BY <2>1, <2>2
<1> QED
  BY <1>1, <1>2 DEF Tiled, OneVersion

LEMMA TiledBegin ==
  ASSUME TimetableTypeOK, Tiled, NEW m \in Managers, NEW c \in Classes,
         \/ \E from \in Days : \E p \in Plans[c] : BeginCreateTimetable(m, c, from, p)
         \/ \E v \in versions[c] : \E p \in Plans[c] : BeginReplaceEntries(m, c, v, p)
         \/ \E row \in ChangeRows[c] : BeginCreateChange(m, c, row)
         \/ \E n \in DOMAIN changes[c] : BeginVoidChange(m, c, n)
  PROVE  Tiled'
<1>1. ASSUME NEW from \in Days, NEW p \in Plans[c], BeginCreateTimetable(m, c, from, p)
      PROVE  Tiled'
  <2>1. PICK v \in lastVersions(c) :
          LET r == [op |-> "timetable", class |-> c, from |-> from,
                    entries |-> p, previous |-> v]
          IN /\ r \in RequestRow /\ Prepare(m, r)
             /\ v = None => versions[c] = {}
             /\ v # None => v \in versions[c] /\ \A u \in versions[c] : u.from <= v.from
    BY <1>1, BegunTimetable
  <2> DEFINE r == [op |-> "timetable", class |-> c, from |-> from,
                   entries |-> p, previous |-> v]
  <2>2. \A u \in versions[c] : u.from < from
    BY <1>1 DEF BeginCreateTimetable
  <2>3. Last(r)
    BY <2>1, <2>2 DEF Last
  <2> QED
    BY <2>1, <2>3, TiledPrepare
<1>2. ASSUME NEW v \in versions[c], NEW p \in Plans[c], BeginReplaceEntries(m, c, v, p)
      PROVE  Tiled'
  <2> DEFINE r == [op |-> "entries", class |-> c, version |-> v, entries |-> p]
  <2>1. r \in RequestRow /\ Prepare(m, r) /\ r.op = "entries"
    BY <1>2, BegunEntries
  <2> QED
    BY <2>1, TiledPrepare
<1>3. ASSUME NEW row \in ChangeRows[c], BeginCreateChange(m, c, row)
      PROVE  Tiled'
  <2> DEFINE r == [op |-> "change", class |-> c, row |-> row]
  <2>1. r \in RequestRow /\ Prepare(m, r) /\ r.op = "change"
    BY <1>3, BegunChange
  <2> QED
    BY <2>1, TiledPrepare
<1>4. ASSUME NEW n \in DOMAIN changes[c], BeginVoidChange(m, c, n)
      PROVE  Tiled'
  <2> DEFINE r == [op |-> "void", class |-> c, change |-> n]
  <2>1. r \in RequestRow /\ Prepare(m, r) /\ r.op = "void"
    BY <1>4, BegunVoid
  <2> QED
    BY <2>1, TiledPrepare
<1> QED
  BY <1>1, <1>2, <1>3, <1>4

(* Every version is cut where the new one begins.                          *)
LEMMA TiledCreateTimetable ==
  ASSUME Standing, Tiled, OneTimetableAtOnce, NEW m \in Managers,
         NEW id \in TimetableIds, CreateTimetable(m, id)
  PROVE  Tiled'
<1>1. PICK r : r = managing[m]
  OBVIOUS
<1>2. PICK c : c = r.class
  OBVIOUS
<1>3. PICK from : from = r.from
  OBVIOUS
<1> DEFINE new == begun(r, id)
           V == {cutAt(v, from) : v \in versions[c]} \cup {new}
<1>4. /\ versions'[c] = V /\ \A d \in Classes \ {c} : versions'[d] = versions[d]
      /\ r # None /\ r.op = "timetable" /\ c \in Classes /\ from \in Days
      /\ \A v \in versions[c] : v \in VersionRow(c) /\ v.from < from
  BY <1>1, <1>2, <1>3, CreatedRows, CreatedVersions
<1>5. new.from = from /\ new.to = None
  BY <1>3 DEF begun
<1>6. ASSUME NEW v \in versions[c]
      PROVE  /\ v.from \in Nat /\ v.to \in Nat \cup {None} /\ from \in Nat
             /\ cutAt(v, from).from = v.from
             /\ cutAt(v, from).to # None /\ cutAt(v, from).to < from
             /\ v.to # None /\ v.to < from => cutAt(v, from) = v
             /\ cutAt(v, from).to = v.to \/ cutAt(v, from).to = from - 1
  BY <1>4, CutAt DEF VersionRow, Days
<1> HIDE DEF V, new
<1>7. \A a \in V : a = new \/ \E v \in versions[c] : a = cutAt(v, from)
  BY DEF V
<1>8. ASSUME NEW a \in V, NEW b \in V, a # b
      PROVE  (a.to # None /\ a.to < b.from) \/ (b.to # None /\ b.to < a.from)
  <2>1. CASE a = new \/ b = new
    BY <1>5, <1>6, <1>7, <1>8, <2>1
  <2>2. CASE a # new /\ b # new
    <3>1. PICK v \in versions[c] : a = cutAt(v, from)
      BY <1>7, <2>2
    <3>2. PICK w \in versions[c] : b = cutAt(w, from)
      BY <1>7, <2>2
    <3>3. (v.to # None /\ v.to < w.from) \/ (w.to # None /\ w.to < v.from)
      BY <1>4, <1>8, <3>1, <3>2 DEF Tiled, OneVersion
    <3>4. v.from < from /\ w.from < from
      BY <1>4
    <3> QED
      BY <1>6, <3>1, <3>2, <3>3, <3>4
  <2> QED
    BY <2>1, <2>2
<1>9. ASSUME NEW a \in V PROVE a.to = None \/ a.from <= a.to
  <2>1. CASE a = new
    BY <1>5, <2>1
  <2>2. CASE a # new
    <3>1. PICK v \in versions[c] : a = cutAt(v, from)
      BY <1>7, <2>2
    <3>2. (v.to = None \/ v.from <= v.to) /\ v.from < from
      BY <1>4 DEF Tiled
    <3> QED
      BY <1>6, <3>1, <3>2
  <2> QED
    BY <2>1, <2>2
<1>10. ASSUME NEW n \in Managers, writes(n, "timetable")' PROVE Last(managing[n])'
  <2>1. n # m /\ managing'[n] = managing[n]
    <3>1. Done(m)
      BY DEF CreateTimetable
    <3> QED
      BY <1>10, <3>1, Finished DEF writes, Standing
  <2>2. managing[n].class # c /\ managing[n].class \in Classes
    BY <1>1, <1>2, <1>4, <1>10, <2>1, RequestOf
       DEF writes, OneTimetableAtOnce, Standing
  <2>3. Last(managing[n])
    BY <1>10, <2>1 DEF writes, Tiled
  <2> QED
    BY <1>4, <2>1, <2>2, <2>3 DEF Last
<1> QED
  BY <1>4, <1>8, <1>9, <1>10 DEF Tiled, OneVersion

LEMMA TiledReplaceEntries ==
  ASSUME Standing, Tiled, NEW m \in Managers, ReplaceEntries(m)
  PROVE  Tiled'
<1>1. PICK r : r = managing[m]
  OBVIOUS
<1>2. PICK c : c = r.class
  OBVIOUS
<1> DEFINE V == {replaced(r, v) : v \in versions[c]}
<1>3. /\ c \in Classes /\ versions'[c] = V
      /\ \A d \in Classes \ {c} : versions'[d] = versions[d]
      /\ \A v \in versions[c] :
           /\ replaced(r, v).id = v.id /\ replaced(r, v).from = v.from
           /\ replaced(r, v).to = v.to
  BY <1>1, <1>2, ReplacedVersions
<1>4. \A a \in V : \E v \in versions[c] : a = replaced(r, v)
  OBVIOUS
<1>5. \A v \in versions[c] : replaced(r, v) \in V
  OBVIOUS
<1> HIDE DEF V
<1>6. ASSUME NEW a \in V, NEW b \in V, a # b
      PROVE  (a.to # None /\ a.to < b.from) \/ (b.to # None /\ b.to < a.from)
  <2>1. PICK v \in versions[c] : a = replaced(r, v)
    BY <1>4
  <2>2. PICK w \in versions[c] : b = replaced(r, w)
    BY <1>4
  <2>3. (v.to # None /\ v.to < w.from) \/ (w.to # None /\ w.to < v.from)
    BY <1>3, <1>6, <2>1, <2>2 DEF Tiled, OneVersion
  <2> QED
    BY <1>3, <2>1, <2>2, <2>3
<1>7. \A a \in V : a.to = None \/ a.from <= a.to
  BY <1>3, <1>4 DEF Tiled
<1>8. ASSUME NEW n \in Managers, writes(n, "timetable")' PROVE Last(managing[n])'
  <2>1. managing'[n] = managing[n]
    <3>1. Done(m)
      BY DEF ReplaceEntries
    <3> QED
      BY <1>8, <3>1, Finished DEF writes, Standing
  <2>2. Last(managing[n])
    BY <1>8, <2>1 DEF writes, Tiled
  <2>3. CASE managing[n].class = c
    BY <1>3, <1>4, <1>5, <2>1, <2>2, <2>3 DEF Last
  <2>4. CASE managing[n].class # c
    <3>1. managing[n].class \in Classes
      BY <1>8, <2>1, RequestOf DEF writes, Standing
    <3>2. versions'[managing[n].class] = versions[managing[n].class]
      BY <1>3, <2>4, <3>1
    <3> QED
      BY <2>1, <2>2, <3>2 DEF Last
  <2> QED
    BY <2>3, <2>4
<1> QED
  BY <1>3, <1>6, <1>7, <1>8 DEF Tiled, OneVersion

LEMMA TiledStays ==
  ASSUME Tiled, versions' = versions,
         \A n \in Managers : managing'[n] = None \/ managing'[n] = managing[n]
  PROVE  Tiled'
<1>1. ASSUME NEW n \in Managers, writes(n, "timetable")' PROVE Last(managing[n])'
  <2>1. managing'[n] = managing[n] /\ Last(managing[n])
    BY <1>1 DEF writes, Tiled
  <2> QED
    BY <2>1 DEF Last
<1> QED
  BY <1>1 DEF Tiled, OneVersion

LEMMA TiledStep ==
  ASSUME Standing, Tiled, OneTimetableAtOnce, [TimetableNext]_timetableVars
  PROVE  Tiled'
<1>1. ASSUME NEW m \in Managers, CreateChange(m) \/ VoidChange(m) PROVE Tiled'
  <2>1. Done(m) /\ versions' = versions
    BY <1>1 DEF CreateChange, VoidChange
  <2> QED
    BY <2>1, Finished, TiledStays DEF Standing
<1>2. CASE Manager
  <2>1. TimetableTypeOK
    BY DEF Standing
  <2>2. ASSUME NEW m \in Managers, NEW c \in Classes,
               \/ \E from \in Days : \E p \in Plans[c] : BeginCreateTimetable(m, c, from, p)
               \/ \E v \in versions[c] : \E p \in Plans[c] : BeginReplaceEntries(m, c, v, p)
               \/ \E row \in ChangeRows[c] : BeginCreateChange(m, c, row)
               \/ \E n \in DOMAIN changes[c] : BeginVoidChange(m, c, n)
        PROVE  Tiled'
    BY <2>1, <2>2, TiledBegin
  <2>3. ASSUME NEW m \in Managers, NEW id \in TimetableIds, CreateTimetable(m, id)
        PROVE  Tiled'
    BY <2>3, TiledCreateTimetable
  <2>4. ASSUME NEW m \in Managers, ReplaceEntries(m) PROVE Tiled'
    BY <2>4, TiledReplaceEntries
  <2> QED
    BY <1>1, <1>2, <2>2, <2>3, <2>4 DEF Manager
<1>3. CASE Teacher \/ NextSchoolDay \/ UNCHANGED timetableVars
  <2>0. Teacher => UNCHANGED <<versions, managing>>
    BY DEF Teacher, BeginSave, LockLesson, WriteMarks
  <2>1. versions' = versions /\ managing' = managing
    BY <1>3, <2>0 DEF NextSchoolDay, timetableVars
  <2> QED
    BY <2>1, TiledStays
<1> QED
  BY <1>2, <1>3 DEF TimetableNext

-----------------------------------------------------------------------------
(* No request takes away what was recorded in time                         *)

LEMMA VoidedSame ==
  ASSUME NEW c \in Classes, NEW ch \in StoredChange(c)
  PROVE  LET new == [ch EXCEPT !.voided = TRUE]
         IN /\ new.type = ch.type /\ new.day = ch.day
            /\ new.period = ch.period /\ new.subgroup = ch.subgroup
BY DEF StoredChange

LEMMA VoidedOthers ==
  ASSUME NEW c \in Classes, NEW list \in Seq(StoredChange(c)),
         NEW n \in DOMAIN list, NEW k \in DOMAIN list \ {n}
  PROVE  voidedAt(list, n)[k] = list[k]
BY DEF voidedAt

(* A change is of the same lesson for good.                                *)
LEMMA ChangesKept ==
  ASSUME Standing, NEW m \in Managers, CreateChange(m) \/ VoidChange(m)
  PROVE  \A c \in Classes : \A k \in DOMAIN changes[c] :
           /\ changes'[c][k].type = changes[c][k].type
           /\ changes'[c][k].day = changes[c][k].day
           /\ changes'[c][k].period = changes[c][k].period
           /\ changes'[c][k].subgroup = changes[c][k].subgroup
<1>1. PICK c : c = managing[m].class
  OBVIOUS
<1> SUFFICES ASSUME c \in Classes, \A d \in Classes \ {c} : changes'[d] = changes[d],
                    NEW k \in DOMAIN changes[c]
             PROVE  /\ changes'[c][k].type = changes[c][k].type
                    /\ changes'[c][k].day = changes[c][k].day
                    /\ changes'[c][k].period = changes[c][k].period
                    /\ changes'[c][k].subgroup = changes[c][k].subgroup
  BY <1>1, CreatedChanges, VoidedChanges
<1>2. CASE CreateChange(m)
  <2>1. PICK ch : /\ changes[c] \in Seq(StoredChange(c))
                  /\ changes'[c] = Append(changes[c], ch)
    BY <1>1, <1>2, CreatedChanges
  <2> QED
    BY <2>1
<1>3. CASE VoidChange(m)
  <2>1. PICK n : n = managing[m].change
    OBVIOUS
  <2>2. /\ n \in DOMAIN changes[c] /\ changes[c] \in Seq(StoredChange(c))
        /\ changes'[c] = voidedAt(changes[c], n)
    BY <1>1, <1>3, <2>1, VoidedChanges
  <2>3. CASE k = n
    <3>1. changes'[c][k] = [changes[c][k] EXCEPT !.voided = TRUE]
      BY <2>2, <2>3, VoidedList
    <3>2. changes[c][k] \in StoredChange(c)
      BY <2>2
    <3> QED
      BY <3>1, <3>2, VoidedSame
  <2>4. CASE k # n
    <3>1. k \in DOMAIN changes[c] \ {n}
      BY <2>4
    <3>2. voidedAt(changes[c], n)[k] = changes[c][k]
      BY <2>2, <3>1, VoidedOthers
    <3> QED
      BY <2>2, <3>2
  <2> QED
    BY <2>3, <2>4
<1> QED
  BY <1>2, <1>3

LEMMA SparedPrepare ==
  ASSUME TimetableTypeOK, Spared, NEW m \in Managers, NEW r \in RequestRow,
         Prepare(m, r), \A l \in lessons : l.late \/ ~endangers(r, l)
  PROVE  Spared'
<1>1. /\ managing'[m] = r
      /\ \A n \in Managers \ {m} : managing'[n] = managing[n]
      /\ UNCHANGED <<today, versions, changes, lessons, marks, save>>
  BY Prepared
<1> SUFFICES ASSUME NEW n \in Managers, managing'[n] # None, NEW l \in lessons', ~l.late
             PROVE  ~endangers(managing[n], l)'
  BY DEF Spared
<1>2. CASE n = m
  BY <1>1, <1>2 DEF endangers
<1>3. CASE n # m
  <2>1. managing'[n] = managing[n] /\ ~endangers(managing[n], l)
    BY <1>1, <1>3 DEF Spared
  <2> QED
    BY <1>1, <2>1 DEF endangers
<1> QED
  BY <1>2, <1>3

(* What the checks are for.                                                *)
LEMMA SparedBegin ==
  ASSUME Standing, Spared, NEW m \in Managers, NEW c \in Classes,
         \/ \E from \in Days : \E p \in Plans[c] : BeginCreateTimetable(m, c, from, p)
         \/ \E v \in versions[c] : \E p \in Plans[c] : BeginReplaceEntries(m, c, v, p)
         \/ \E row \in ChangeRows[c] : BeginCreateChange(m, c, row)
         \/ \E n \in DOMAIN changes[c] : BeginVoidChange(m, c, n)
  PROVE  Spared'
<1>0. TimetableTypeOK
  BY DEF Standing
<1>1. ASSUME NEW from \in Days, NEW p \in Plans[c], BeginCreateTimetable(m, c, from, p)
      PROVE  Spared'
  <2>1. PICK v \in lastVersions(c) :
          LET r == [op |-> "timetable", class |-> c, from |-> from,
                    entries |-> p, previous |-> v]
          IN r \in RequestRow /\ Prepare(m, r)
    BY <1>0, <1>1, BegunTimetable
  <2> DEFINE r == [op |-> "timetable", class |-> c, from |-> from,
                   entries |-> p, previous |-> v]
  <2>2. \A l \in lessons : l.class = c => ~(l.day >= from)
    BY <1>1 DEF BeginCreateTimetable, recordedFrom
  <2>3. \A l \in lessons : ~endangers(r, l)
    BY <2>2 DEF endangers
  <2> QED
    BY <1>0, <2>1, <2>3, SparedPrepare
<1>2. ASSUME NEW v \in versions[c], NEW p \in Plans[c], BeginReplaceEntries(m, c, v, p)
      PROVE  Spared'
  <2> DEFINE r == [op |-> "entries", class |-> c, version |-> v, entries |-> p]
  <2>1. r \in RequestRow /\ Prepare(m, r)
    BY <1>0, <1>2, BegunEntries
  <2>2. v.from \in Nat /\ today \in Nat /\ \A l \in lessons : l.day \in Nat /\ l.day <= today
    BY DEF Standing, TimetableTypeOK, VersionRow, LessonRow, Past, Days
  <2>3. v.from > today
    BY <1>2 DEF BeginReplaceEntries
  <2>4. \A l \in lessons : ~(l.day >= v.from)
    BY <2>2, <2>3
  <2>5. \A l \in lessons : ~endangers(r, l)
    BY <2>4 DEF endangers
  <2> QED
    BY <1>0, <2>1, <2>5, SparedPrepare
<1>3. ASSUME NEW row \in ChangeRows[c], BeginCreateChange(m, c, row)
      PROVE  Spared'
  <2> DEFINE r == [op |-> "change", class |-> c, row |-> row]
  <2>1. r \in RequestRow /\ Prepare(m, r)
    BY <1>3, BegunChange
  <2>2. row.type = "cancel" => ~recorded(c, row)
    BY <1>3 DEF BeginCreateChange
  <2>3. \A l \in lessons : ~endangers(r, l)
    BY <2>2 DEF endangers, recorded
  <2> QED
    BY <1>0, <2>1, <2>3, SparedPrepare
<1>4. ASSUME NEW n \in DOMAIN changes[c], BeginVoidChange(m, c, n)
      PROVE  Spared'
  <2> DEFINE r == [op |-> "void", class |-> c, change |-> n]
  <2>1. r \in RequestRow /\ Prepare(m, r)
    BY <1>0, <1>4, BegunVoid
  <2>2. changes[c][n].type # "cancel" => ~recorded(c, changes[c][n])
    BY <1>4 DEF BeginVoidChange
  <2>3. \A l \in lessons : ~endangers(r, l)
    BY <2>2 DEF endangers, recorded
  <2> QED
    BY <1>0, <2>1, <2>3, SparedPrepare
<1> QED
  BY <1>1, <1>2, <1>3, <1>4

LEMMA SparedAfter ==
  ASSUME Standing, Spared, lessons' = lessons,
         \A n \in Managers : managing'[n] = None \/ managing'[n] = managing[n],
         \A c \in Classes : \A k \in DOMAIN changes[c] :
           /\ changes'[c][k].type = changes[c][k].type
           /\ changes'[c][k].day = changes[c][k].day
           /\ changes'[c][k].period = changes[c][k].period
           /\ changes'[c][k].subgroup = changes[c][k].subgroup
  PROVE  Spared'
<1> SUFFICES ASSUME NEW n \in Managers, managing'[n] # None, NEW l \in lessons', ~l.late
             PROVE  ~endangers(managing[n], l)'
  BY DEF Spared
<1>1. /\ managing'[n] = managing[n] /\ managing[n].class \in Classes
      /\ managing[n].op = "void" =>
           managing[n].change \in DOMAIN changes[managing[n].class]
  BY RequestOf DEF Standing, Requested, Based
<1>2. ~endangers(managing[n], l)
  BY <1>1 DEF Spared
<1> QED
  BY <1>1, <1>2 DEF endangers, isOf

LEMMA SparedWriteMarks ==
  ASSUME Standing, Spared, NEW w \in Savers, WriteMarks(w)
  PROVE  Spared'
<1>1. PICK l : l = save[w].lesson
  OBVIOUS
<1>2. PICK new \in LessonRow :
        /\ new.late \/ inTime(l)
        /\ new.class = l.class /\ new.day = l.day
        /\ new.period = l.period /\ new.subgroup = l.subgroup
        /\ \A k \in lessons' : k \in lessons \/ k = new
  BY <1>1, WrittenLesson DEF Standing
<1>3. changes' = changes /\ managing' = managing
  BY DEF WriteMarks
<1> SUFFICES ASSUME NEW n \in Managers, managing[n] # None, NEW k \in lessons', ~k.late
             PROVE  ~endangers(managing[n], k)
  BY <1>3 DEF Spared, endangers
<1>4. CASE k \in lessons
  BY <1>4 DEF Spared
<1>5. CASE k = new
  <2>1. ~endangers(managing[n], l)
    BY <1>2, <1>5 DEF inTime
  <2> QED
    BY <1>2, <1>5, <2>1 DEF endangers, isOf
<1> QED
  BY <1>2, <1>4, <1>5

LEMMA SparedStep ==
  ASSUME Standing, Spared, [TimetableNext]_timetableVars
  PROVE  Spared'
<1>1. ASSUME NEW m \in Managers,
             \/ \E id \in TimetableIds : CreateTimetable(m, id)
             \/ ReplaceEntries(m) \/ CreateChange(m) \/ VoidChange(m)
      PROVE  Spared'
  <2>1. Done(m) /\ lessons' = lessons
    BY <1>1 DEF CreateTimetable, ReplaceEntries, CreateChange, VoidChange
  <2>2. \A n \in Managers : managing'[n] = None \/ managing'[n] = managing[n]
    BY <2>1, Finished DEF Standing
  <2>3. changes' = changes \/ CreateChange(m) \/ VoidChange(m)
    BY <1>1 DEF CreateTimetable, ReplaceEntries
  <2> QED
    BY <2>1, <2>2, <2>3, ChangesKept, SparedAfter
<1>2. CASE Manager
  BY <1>1, <1>2, SparedBegin DEF Manager
<1>3. ASSUME lessons' = lessons, changes' = changes, managing' = managing
      PROVE  Spared'
  BY <1>3, SparedAfter
<1>4. CASE Teacher
  BY <1>3, <1>4, SparedWriteMarks DEF Teacher, BeginSave, LockLesson
<1>5. CASE NextSchoolDay \/ UNCHANGED timetableVars
  BY <1>3, <1>5 DEF NextSchoolDay, timetableVars
<1> QED
  BY <1>2, <1>4, <1>5 DEF TimetableNext

-----------------------------------------------------------------------------
(* What teachers record                                                    *)

LEMMA MarksInit ==
  ASSUME TimetableInit
  PROVE  LocksHold /\ Spared /\ RecordsStand
<1>1. LocksHold
  BY DEF TimetableInit, LocksHold, locked
<1>2. Spared /\ RecordedIsHeld /\ OneMarkPerLesson
  BY DEF TimetableInit, Spared, RecordedIsHeld, OneMarkPerLesson
<1> QED
  BY <1>1, <1>2 DEF RecordsStand

(* Two different requests never hold one lesson.                           *)
LEMMA MarksLockLesson ==
  ASSUME Standing, LocksHold, NEW w \in Savers, LockLesson(w)
  PROVE  LocksHold'
<1> DEFINE l == save[w].lesson
           seen == {m \in marks : /\ m.lesson = lessonOf(l)
                                  /\ m.child \in DOMAIN save[w].wanted}
           row == saved(l, save[w].wanted, TRUE, seen)
<1>1. /\ save'[w] = row
      /\ \A u \in Savers \ {w} : save'[u] = save[u]
  BY LockedSave DEF Standing
<1>2. row.lesson = l /\ row.wanted = save[w].wanted /\ row.seen = seen
  BY DEF saved
<1>3. marks' = marks
  BY DEF LockLesson
<1>4. ASSUME NEW u \in Savers \ {w}, locked(u)
      PROVE  lessonOf(save[u].lesson) # lessonOf(l)
  BY <1>4 DEF LockLesson, holdsLesson, sameRow, locked
<1>5. \A u \in Savers \ {w} : locked(u)' <=> locked(u)
  BY <1>1 DEF locked
<1> HIDE DEF row
<1>6. ASSUME NEW u \in Savers, NEW v \in Savers, u # v, locked(u)', locked(v)'
      PROVE  lessonOf(save'[u].lesson) # lessonOf(save'[v].lesson)
  <2>1. CASE u = w
    <3>1. locked(v) /\ save'[v] = save[v]
      BY <1>1, <1>5, <1>6, <2>1
    <3> QED
      BY <1>1, <1>2, <1>4, <1>6, <2>1, <3>1
  <2>2. CASE v = w
    <3>1. locked(u) /\ save'[u] = save[u]
      BY <1>1, <1>5, <1>6, <2>2
    <3> QED
      BY <1>1, <1>2, <1>4, <1>6, <2>2, <3>1
  <2>3. CASE u # w /\ v # w
    BY <1>1, <1>5, <1>6, <2>3 DEF LocksHold
  <2> QED
    BY <2>1, <2>2, <2>3
<1>7. ASSUME NEW u \in Savers, locked(u)'
      PROVE  save'[u].seen = {m \in marks' :
               /\ m.lesson = lessonOf(save'[u].lesson)
               /\ m.child \in DOMAIN save'[u].wanted}
  <2>1. CASE u = w
    BY <1>1, <1>2, <1>3, <2>1
  <2>2. CASE u # w
    BY <1>1, <1>3, <1>5, <1>7, <2>2 DEF LocksHold
  <2> QED
    BY <2>1, <2>2
<1> QED
  BY <1>6, <1>7 DEF LocksHold

(* A write replaces what was read under the lock, and nothing else.        *)
LEMMA MarksWriteMarks ==
  ASSUME Standing, LocksHold, OneMarkPerLesson, NEW w \in Savers, WriteMarks(w)
  PROVE  LocksHold' /\ OneMarkPerLesson'
<1> DEFINE new == DOMAIN save[w].wanted \ keptOf(w)
           L == lessonOf(save[w].lesson)
<1>1. /\ locked(w)
      /\ marks' = {m \in marks : ~(m \in save[w].seen /\ m.child \in new)}
                    \cup written(w, new)
      /\ save'[w] = None /\ \A u \in Savers \ {w} : save'[u] = save[u]
  BY WrittenMarks DEF Standing, locked
<1>2. save[w].seen = {m \in marks : m.lesson = L /\ m.child \in DOMAIN save[w].wanted}
  BY <1>1 DEF LocksHold
<1>3. \A m \in written(w, new) : m.lesson = L /\ m.child \in new
  BY DEF written
<1>4. \A m, n \in written(w, new) : m.child = n.child => m = n
  BY DEF written
<1>5. ASSUME NEW m \in marks' \ written(w, new)
      PROVE  m \in marks /\ (m.lesson = L => m.child \notin new)
  BY <1>1, <1>2
<1>6. OneMarkPerLesson'
  <2> SUFFICES ASSUME NEW m \in marks', NEW n \in marks',
                      m.lesson = n.lesson, m.child = n.child
               PROVE  m = n
    BY DEF OneMarkPerLesson
  <2>1. CASE m \in written(w, new) /\ n \in written(w, new)
    BY <1>4, <2>1
  <2>2. CASE m \notin written(w, new) /\ n \notin written(w, new)
    BY <1>5, <2>2 DEF OneMarkPerLesson
  <2>3. CASE m \in written(w, new) /\ n \notin written(w, new)
    BY <1>3, <1>5, <2>3
  <2>4. CASE m \notin written(w, new) /\ n \in written(w, new)
    BY <1>3, <1>5, <2>4
  <2> QED
    BY <2>1, <2>2, <2>3, <2>4
<1>7. \A u \in Savers : locked(u)' => u # w /\ locked(u) /\ save'[u] = save[u]
  BY <1>1 DEF locked
<1>8. ASSUME NEW u \in Savers, locked(u)'
      PROVE  save'[u].seen = {m \in marks' :
               /\ m.lesson = lessonOf(save'[u].lesson)
               /\ m.child \in DOMAIN save'[u].wanted}
  <2>1. u # w /\ locked(u) /\ save'[u] = save[u]
    BY <1>7, <1>8
  <2>2. lessonOf(save[u].lesson) # L
    BY <1>1, <2>1 DEF LocksHold
  <2>3. \A m : m.lesson = lessonOf(save[u].lesson) => (m \in marks' <=> m \in marks)
    BY <1>1, <1>2, <1>3, <2>2
  <2>4. save[u].seen = {m \in marks : /\ m.lesson = lessonOf(save[u].lesson)
                                      /\ m.child \in DOMAIN save[u].wanted}
    BY <2>1 DEF LocksHold
  <2> QED
    BY <2>1, <2>3, <2>4
<1>9. LocksHold'
  <2>1. \A u, v \in Savers : u # v /\ locked(u)' /\ locked(v)' =>
          lessonOf(save'[u].lesson) # lessonOf(save'[v].lesson)
    BY <1>7 DEF LocksHold
  <2> QED
    BY <1>8, <2>1 DEF LocksHold
<1> QED
  BY <1>6, <1>9

LEMMA ManagerLeaves ==
  ASSUME Manager
  PROVE  UNCHANGED <<today, lessons, marks, save>>
BY DEF Manager, BeginCreateTimetable, BeginReplaceEntries, BeginCreateChange,
   BeginVoidChange, Prepare, CreateTimetable, ReplaceEntries, CreateChange,
   VoidChange

LEMMA MarksStep ==
  ASSUME Standing, LocksHold, OneMarkPerLesson, [TimetableNext]_timetableVars
  PROVE  LocksHold' /\ OneMarkPerLesson'
<1>1. ASSUME save' = save, marks' = marks
      PROVE  LocksHold' /\ OneMarkPerLesson'
  BY <1>1 DEF LocksHold, locked, OneMarkPerLesson
<1>2. CASE Manager \/ NextSchoolDay \/ UNCHANGED timetableVars
  <2>1. save' = save /\ marks' = marks
    BY <1>2, ManagerLeaves DEF NextSchoolDay, timetableVars
  <2> QED
    BY <1>1, <2>1
<1>3. ASSUME NEW w \in Savers, NEW c \in Classes, NEW day \in Days,
             NEW s \in held(slotsOn(c, day)), NEW wanted \in Wishes(c),
             BeginSave(w, c, day, s, wanted)
      PROVE  LocksHold' /\ OneMarkPerLesson'
  <2>1. PICK row \in SaveRow :
          /\ row # None /\ row.lesson.day = day /\ ~row.locked
          /\ save' = [save EXCEPT ![w] = row]
          /\ save'[w] = row /\ \A u \in Savers \ {w} : save'[u] = save[u]
    BY <1>3, BegunSave
  <2>2. marks' = marks
    BY <1>3 DEF BeginSave
  <2>3. \A u \in Savers : locked(u)' => u # w /\ locked(u) /\ save'[u] = save[u]
    BY <2>1 DEF locked
  <2>4. LocksHold'
    BY <2>2, <2>3 DEF LocksHold
  <2> QED
    BY <2>2, <2>4 DEF OneMarkPerLesson
<1>4. ASSUME NEW w \in Savers, LockLesson(w)
      PROVE  LocksHold' /\ OneMarkPerLesson'
  <2>1. LocksHold'
    BY <1>4, MarksLockLesson
  <2> QED
    BY <1>4, <2>1 DEF OneMarkPerLesson, LockLesson
<1>5. ASSUME NEW w \in Savers, WriteMarks(w)
      PROVE  LocksHold' /\ OneMarkPerLesson'
  BY <1>5, MarksWriteMarks
<1> QED
  BY <1>2, <1>3, <1>4, <1>5 DEF TimetableNext, Teacher

-----------------------------------------------------------------------------
(* A recorded lesson stays on the timetable                                *)

LEMMA HeldGives ==
  ASSUME NEW S, NEW F \in Seq(S), NEW p, NEW g
  PROVE  (\E s \in held(F) : s.period = p /\ s.subgroup = g) <=> gives(F, p, g)
BY DEF held, gives

LEMMA SlotsNext ==
  ASSUME NEW c, NEW day
  PROVE  slotsOn(c, day)' =
           IF day \in SchoolDays[c]
           THEN slotsOf(entriesOn(c, day)', day, changes'[c]) ELSE <<>>
BY DEF slotsOn, slotsWith, slotsForDay, slotsOf

LEMMA SlotsNow ==
  ASSUME NEW c, NEW day
  PROVE  slotsOn(c, day) =
           IF day \in SchoolDays[c]
           THEN slotsOf(entriesOn(c, day), day, changes[c]) ELSE <<>>
BY SlotsWith DEF slotsOn

LEMMA SlotsStay ==
  ASSUME NEW c, NEW day, entriesOn(c, day)' = entriesOn(c, day),
         changes'[c] = changes[c]
  PROVE  slotsOn(c, day)' = slotsOn(c, day)
BY SlotsNext, SlotsNow

LEMMA EntriesStay ==
  ASSUME NEW c, NEW day, versions'[c] = versions[c]
  PROVE  entriesOn(c, day)' = entriesOn(c, day)
BY DEF entriesOn, versionOn

covers(v, day) == v.from <= day /\ (v.to = None \/ day <= v.to)

LEMMA OnlyOne ==
  ASSUME TimetableTypeOK, OneVersion, NEW c \in Classes, NEW day \in Days,
         NEW v \in versions[c], NEW w \in versions[c],
         covers(v, day), covers(w, day)
  PROVE  v = w
<1>1. v \in VersionRow(c) /\ w \in VersionRow(c)
  BY DEF TimetableTypeOK
<1>2. /\ v.from \in Nat /\ v.to \in Nat \cup {None}
      /\ w.from \in Nat /\ w.to \in Nat \cup {None}
      /\ day \in Nat /\ None \notin Nat
  BY <1>1, TimetableAssumption DEF VersionRow, Days
<1>3. v # w => (v.to # None /\ v.to < w.from) \/ (w.to # None /\ w.to < v.from)
  BY DEF OneVersion
<1> QED
  BY <1>2, <1>3 DEF covers

(* The entries of a day if there is one version for it.                    *)
LEMMA EntriesAre ==
  ASSUME NEW c, NEW day, NEW v \in versions[c], covers(v, day),
         \A u \in versions[c] : covers(u, day) => u = v
  PROVE  entriesOn(c, day) = v.entries
<1>1. versionOn(c, day) = {v}
  BY DEF versionOn, covers
<1> QED
  BY <1>1 DEF entriesOn

LEMMA EntriesAreNext ==
  ASSUME NEW c, NEW day, NEW v \in versions'[c], covers(v, day),
         \A u \in versions'[c] : covers(u, day) => u = v
  PROVE  entriesOn(c, day)' = v.entries
<1>1. versionOn(c, day)' = {v}
  BY DEF versionOn, covers
<1> QED
  BY <1>1 DEF entriesOn

LEMMA NoEntries ==
  ASSUME NEW c, NEW day
  PROVE  /\ (\A v \in versions[c] : ~covers(v, day)) => entriesOn(c, day) = {}
         /\ (\A v \in versions'[c] : ~covers(v, day)) => entriesOn(c, day)' = {}
BY DEF entriesOn, versionOn, covers

(* A new timetable leaves the days before it alone.                        *)
LEMMA EntriesBefore ==
  ASSUME Standing, Tiled, NEW m \in Managers, NEW id \in TimetableIds,
         CreateTimetable(m, id), NEW c, c = managing[m].class,
         NEW day \in Days, day < managing[m].from
  PROVE  entriesOn(c, day)' = entriesOn(c, day)
<1>1. PICK r : r = managing[m]
  OBVIOUS
<1>2. PICK new : new = begun(r, id)
  OBVIOUS
<1>3. /\ versions'[c] = {cutAt(v, r.from) : v \in versions[c]} \cup {new}
      /\ \A v \in versions[c] : v \in VersionRow(c) /\ v.from < r.from
      /\ c \in Classes /\ r.from \in Days
  BY <1>1, <1>2, CreatedVersions, CreatedRows
<1>4. day \in Nat /\ r.from \in Nat /\ day < r.from /\ None \notin Nat
  BY <1>1, <1>3, TimetableAssumption DEF Days
<1>5. new.from = r.from
  BY <1>2 DEF begun
<1>6. ~covers(new, day)
  BY <1>4, <1>5 DEF covers
<1>7. ASSUME NEW v \in versions[c]
      PROVE  /\ cutAt(v, r.from).entries = v.entries
             /\ covers(cutAt(v, r.from), day) <=> covers(v, day)
  <2> DEFINE w == cutAt(v, r.from)
  <2>1. /\ w.from = v.from /\ w.entries = v.entries
        /\ w.to # None
        /\ v.to # None => w.to <= v.to
        /\ w.to = v.to \/ w.to = r.from - 1
    BY <1>3, CutAt
  <2>2. v.from \in Nat /\ v.to \in Nat \cup {None}
    BY <1>3 DEF VersionRow, Days
  <2> HIDE DEF w
  <2>3. CASE w.to = v.to
    BY <2>1, <2>3 DEF covers, w
  <2>4. CASE w.to = r.from - 1
    <3>1. day <= r.from - 1
      BY <1>4
    <3>2. v.to = None \/ day <= v.to
      BY <1>4, <2>1, <2>2, <2>4, <3>1
    <3> QED
      BY <2>1, <2>4, <3>1, <3>2 DEF covers, w
  <2> QED
    BY <2>1, <2>3, <2>4 DEF w
<1> HIDE DEF Tiled
<1>8. CASE \A v \in versions[c] : ~covers(v, day)
  <2>1. \A w \in versions'[c] : ~covers(w, day)
    BY <1>3, <1>6, <1>7, <1>8
  <2> QED
    BY <1>8, <2>1, NoEntries
<1>9. ASSUME NEW v \in versions[c], covers(v, day)
      PROVE  entriesOn(c, day)' = entriesOn(c, day)
  <2>1. \A u \in versions[c] : covers(u, day) => u = v
    BY <1>3, <1>9, OnlyOne DEF Standing, Tiled
  <2>2. PICK w : w = cutAt(v, r.from)
    OBVIOUS
  <2>3. w \in versions'[c] /\ covers(w, day) /\ w.entries = v.entries
    BY <1>3, <1>7, <1>9, <2>2
  <2>4. \A u \in versions'[c] : covers(u, day) => u = w
    BY <1>3, <1>6, <1>7, <2>1, <2>2
  <2>5. entriesOn(c, day)' = w.entries
    BY <2>3, <2>4, EntriesAreNext
  <2>6. entriesOn(c, day) = v.entries
    BY <1>9, <2>1, EntriesAre
  <2> QED
    BY <2>3, <2>5, <2>6
<1> QED
  BY <1>8, <1>9

(* Nor do other entries in a version change the days before it.            *)
LEMMA EntriesReplacedBefore ==
  ASSUME Standing, NEW m \in Managers, ReplaceEntries(m),
         NEW c, c = managing[m].class,
         NEW day \in Days, day < managing[m].version.from
  PROVE  entriesOn(c, day)' = entriesOn(c, day)
<1>1. PICK r : r = managing[m]
  OBVIOUS
<1>2. /\ r # None /\ r.op = "entries" /\ c \in Classes
      /\ versions'[c] = {replaced(r, v) : v \in versions[c]}
      /\ \A v \in versions[c] :
           /\ v \in VersionRow(c)
           /\ replaced(r, v).from = v.from /\ replaced(r, v).to = v.to
  BY <1>1, ReplacedVersions
<1>3. PICK old \in versions[c] : old.id = r.version.id /\ old.from = r.version.from
  BY <1>1, <1>2 DEF Standing, Requested, Based
<1>4. day \in Nat /\ old.from \in Nat /\ ~(old.from <= day)
  BY <1>1, <1>2, <1>3 DEF Days, VersionRow
<1>5. ASSUME NEW v \in versions[c], covers(v, day) PROVE replaced(r, v) = v
  <2>1. v # old
    BY <1>4, <1>5 DEF covers
  <2>2. v.id # r.version.id
    BY <1>2, <1>3, <2>1 DEF Standing, OneOfEach
  <2> QED
    BY <2>2 DEF replaced
<1>6. \A v \in versions[c] : covers(replaced(r, v), day) <=> covers(v, day)
  BY <1>2 DEF covers
<1>7. versionOn(c, day)' = versionOn(c, day)
  <2>1. versionOn(c, day) = {v \in versions[c] : covers(v, day)}
    BY DEF versionOn, covers
  <2>2. versionOn(c, day)' = {v \in versions'[c] : covers(v, day)}
    BY DEF versionOn, covers
  <2>3. \A v : v \in versions'[c] /\ covers(v, day) <=>
               v \in versions[c] /\ covers(v, day)
    BY <1>2, <1>5, <1>6
  <2> QED
    BY <2>1, <2>2, <2>3
<1> QED
  BY <1>7 DEF entriesOn

(* What a change, made or taken back, leaves on the timetable.             *)
LEMMA CreatedGives ==
  ASSUME Standing, NEW m \in Managers, CreateChange(m),
         NEW c, c = managing[m].class, NEW row, row = managing[m].row,
         NEW day \in Days, NEW p, NEW g,
         gives(slotsOn(c, day), p, g),
         row.type = "cancel" /\ row.day = day =>
           ~(p = row.period /\ g = row.subgroup)
  PROVE  gives(slotsOn(c, day)', p, g)
<1> DEFINE ch == changeRow(row, Len(changes[c]) + 1)
           entries == entriesOn(c, day)
           F == slotsOf(entries, day, changes[c])
           G == slotsOf(entries, day, Append(changes[c], ch))
<1>1. /\ ch \in StoredChange(c) /\ ch.day = row.day /\ ch.period = row.period
      /\ ch.subgroup = row.subgroup /\ ch.type = row.type
      /\ changes[c] \in Seq(StoredChange(c)) /\ c \in Classes
      /\ changes'[c] = Append(changes[c], ch)
  BY CreatedChanges
<1> HIDE DEF ch
<1>2. entriesOn(c, day)' = entries
  BY EntriesStay DEF CreateChange
<1>3. CASE day \in SchoolDays[c]
  <2>1. slotsOn(c, day) = F
    BY <1>3, SlotsNow
  <2>2. slotsOn(c, day)' = G
    BY <1>1, <1>2, <1>3, SlotsNext
  <2>3. Timetabled(c, entries)
    BY <1>1, EntriesOfDay DEF Standing
  <2> HIDE DEF entries
  <2>4. F \in Seq(Slot(c))
    BY <1>1, <2>3, SlotsType
  <2>5. G = IF skipped(ch, day) THEN F ELSE applyChange(F, ch)
    BY <1>1, OneMore
  <2> HIDE DEF F, G
  <2>6. ~skipped(ch, day) => gives(applyChange(F, ch), p, g)
    BY <1>1, <2>1, <2>4, AddGives DEF skipped
  <2> QED
    BY <2>1, <2>2, <2>5, <2>6
<1>4. CASE day \notin SchoolDays[c]
  BY <1>4, SlotsNext, SlotsNow
<1> QED
  BY <1>3, <1>4

LEMMA VoidedGives ==
  ASSUME Standing, NEW m \in Managers, VoidChange(m),
         NEW c, c = managing[m].class, NEW n, n = managing[m].change,
         NEW day \in Days, NEW p, NEW g,
         gives(slotsOn(c, day), p, g),
         changes[c][n].type # "cancel" /\ changes[c][n].day = day =>
           ~(p = changes[c][n].period /\ g = changes[c][n].subgroup)
  PROVE  gives(slotsOn(c, day)', p, g)
<1> DEFINE list == changes[c]
           ch == list[n]
           entries == entriesOn(c, day)
           F == slotsOf(entries, day, list)
           G == slotsOf(entries, day, voidedAt(list, n))
<1>1. /\ list \in Seq(StoredChange(c)) /\ n \in DOMAIN list
      /\ voidedAt(list, n) \in Seq(StoredChange(c))
      /\ changes'[c] = voidedAt(list, n) /\ c \in Classes
  BY VoidedChanges
<1>2. entriesOn(c, day)' = entries
  BY EntriesStay DEF VoidChange
<1>3. CASE day \in SchoolDays[c]
  <2>1. slotsOn(c, day) = F
    BY <1>3, SlotsNow
  <2>2. slotsOn(c, day)' = G
    BY <1>1, <1>2, <1>3, SlotsNext
  <2>3. Timetabled(c, entries)
    BY <1>1, EntriesOfDay DEF Standing
  <2> HIDE DEF entries
  <2>4. F \in Seq(Slot(c)) /\ G \in Seq(Slot(c))
    BY <1>1, <2>3, SlotsType
  <2>5. CASE skipped(ch, day)
    <3>1. G = F
      BY <1>1, <2>3, <2>5, VoidOtherDay
    <3> QED
      BY <2>1, <2>2, <3>1
  <2>6. CASE ~skipped(ch, day) /\ ch.type # "extra"
    <3>1. /\ Parallel(G, F, 0, ch)
          /\ ch.type = "cancel" => HeldAlike(G, F, 0, ch)
      BY <1>1, <2>3, <2>6, VoidChanged
    <3> HIDE DEF F, G, ch
    <3>2. CASE ~(p = ch.period /\ g = ch.subgroup)
      BY <1>1, <2>1, <2>2, <2>4, <3>1, <3>2, GivesAlike
    <3>3. CASE p = ch.period /\ g = ch.subgroup
      <4>1. ch.type = "cancel"
        BY <2>6, <3>3 DEF skipped, ch
      <4>2. HeldAlike(G, F, 0, ch)
        BY <3>1, <4>1
      <4>3. gives(F, ch.period, ch.subgroup)
        BY <2>1, <3>3
      <4>4. gives(G, ch.period, ch.subgroup)
        BY <1>1, <2>4, <3>1, <4>2, <4>3, GivesHeld
      <4> QED
        BY <2>2, <3>3, <4>4
    <3> QED
      BY <3>2, <3>3
  <2>7. CASE ~skipped(ch, day) /\ ch.type = "extra"
    <3>1. PICK k \in Nat : Parallel(F, G, k, ch)
      BY <1>1, <2>3, <2>7, VoidExtra
    <3>2. ~(p = ch.period /\ g = ch.subgroup)
      BY <2>7 DEF skipped
    <3> HIDE DEF F, G, ch
    <3> QED
      BY <1>1, <2>1, <2>2, <2>4, <3>1, <3>2, GivesAlike
  <2> QED
    BY <2>5, <2>6, <2>7
<1>4. CASE day \notin SchoolDays[c]
  BY <1>4, SlotsNext, SlotsNow
<1> QED
  BY <1>3, <1>4

LEMMA HeldStays ==
  ASSUME NEW l, slotsOn(l.class, l.day)' = slotsOn(l.class, l.day), isHeld(l)
  PROVE  isHeld(l)'
BY DEF isHeld

LEMMA SlotsNextType ==
  ASSUME Standing, NEW c \in Classes, NEW day \in Days,
         entriesOn(c, day)' = entriesOn(c, day),
         changes'[c] \in Seq(StoredChange(c))
  PROVE  slotsOn(c, day)' \in Seq(Slot(c))
<1>1. Timetabled(c, entriesOn(c, day)')
  BY EntriesOfDay DEF Standing
<1>2. slotsOf(entriesOn(c, day)', day, changes'[c]) \in Seq(Slot(c))
  BY <1>1, SlotsType
<1> QED
  BY <1>2, SlotsNext, EmptySlots

(* What was recorded in time, in a step that records nothing.              *)
LEMMA RecordedBefore ==
  ASSUME Standing, Spared, RecordedIsHeld, lessons' = lessons,
         NEW m \in Managers, managing[m] # None,
         NEW l \in lessons', ~l.late
  PROVE  /\ l \in lessons /\ isHeld(l) /\ l.class \in Classes /\ l.day \in Days
         /\ ~endangers(managing[m], l)
<1>1. l \in LessonRow
  BY DEF Standing, TimetableTypeOK
<1>2. isHeld(l) /\ ~endangers(managing[m], l)
  BY DEF RecordedIsHeld, Spared
<1> QED
  BY <1>1, <1>2 DEF LessonRow

LEMMA RecordedCreateTimetable ==
  ASSUME Standing, Tiled, Spared, RecordedIsHeld, NEW m \in Managers,
         NEW id \in TimetableIds, CreateTimetable(m, id)
  PROVE  RecordedIsHeld'
<1> SUFFICES ASSUME NEW l \in lessons', ~l.late PROVE isHeld(l)'
  BY DEF RecordedIsHeld
<1>1. PICK r : r = managing[m]
  OBVIOUS
<1>2. /\ r # None /\ r.op = "timetable" /\ r.from \in Days
      /\ \A d \in Classes \ {r.class} : versions'[d] = versions[d]
  BY <1>1, CreatedRows
<1>3. changes' = changes /\ lessons' = lessons
  BY DEF CreateTimetable
<1>4. /\ l \in lessons /\ isHeld(l) /\ l.class \in Classes /\ l.day \in Days
      /\ ~endangers(r, l)
  BY <1>1, <1>2, <1>3, RecordedBefore
<1>5. PICK c : c = l.class
  OBVIOUS
<1>6. CASE c = r.class
  <2>1. l.day < r.from
    BY <1>2, <1>4, <1>5, <1>6 DEF endangers, Days
  <2>2. entriesOn(c, l.day)' = entriesOn(c, l.day)
    BY <1>1, <1>4, <1>6, <2>1, EntriesBefore
  <2> QED
    BY <1>3, <1>4, <1>5, <2>2, SlotsStay, HeldStays
<1>7. CASE c # r.class
  <2>1. versions'[c] = versions[c]
    BY <1>2, <1>4, <1>5, <1>7
  <2> QED
    BY <1>3, <1>4, <1>5, <2>1, EntriesStay, SlotsStay, HeldStays
<1> QED
  BY <1>6, <1>7

LEMMA RecordedReplaceEntries ==
  ASSUME Standing, Spared, RecordedIsHeld, NEW m \in Managers, ReplaceEntries(m)
  PROVE  RecordedIsHeld'
<1> SUFFICES ASSUME NEW l \in lessons', ~l.late PROVE isHeld(l)'
  BY DEF RecordedIsHeld
<1>1. PICK r : r = managing[m]
  OBVIOUS
<1>2. /\ r # None /\ r.op = "entries" /\ r \in EntriesRequest(r.class)
      /\ r.class \in Classes
      /\ \A d \in Classes \ {r.class} : versions'[d] = versions[d]
  BY <1>1, ReplacedVersions
<1>3. changes' = changes /\ lessons' = lessons
  BY DEF ReplaceEntries
<1>4. /\ l \in lessons /\ isHeld(l) /\ l.class \in Classes /\ l.day \in Days
      /\ ~endangers(r, l)
  BY <1>1, <1>2, <1>3, RecordedBefore
<1>5. PICK c : c = l.class
  OBVIOUS
<1>6. CASE c = r.class
  <2>1. r.version.from \in Nat
    BY <1>2 DEF EntriesRequest, VersionRow, Days
  <2>2. l.day < r.version.from
    BY <1>2, <1>4, <1>5, <1>6, <2>1 DEF endangers, Days
  <2>3. entriesOn(c, l.day)' = entriesOn(c, l.day)
    BY <1>1, <1>4, <1>6, <2>2, EntriesReplacedBefore
  <2> QED
    BY <1>3, <1>4, <1>5, <2>3, SlotsStay, HeldStays
<1>7. CASE c # r.class
  <2>1. versions'[c] = versions[c]
    BY <1>2, <1>4, <1>5, <1>7
  <2> QED
    BY <1>3, <1>4, <1>5, <2>1, EntriesStay, SlotsStay, HeldStays
<1> QED
  BY <1>6, <1>7

LEMMA RecordedCreateChange ==
  ASSUME Standing, Spared, RecordedIsHeld, NEW m \in Managers, CreateChange(m)
  PROVE  RecordedIsHeld'
<1> SUFFICES ASSUME NEW l \in lessons', ~l.late PROVE isHeld(l)'
  BY DEF RecordedIsHeld
<1>1. PICK r : r = managing[m]
  OBVIOUS
<1>2. PICK row : row = r.row
  OBVIOUS
<1>3. /\ r # None /\ r.op = "change" /\ r.class \in Classes
      /\ changes'[r.class] \in Seq(StoredChange(r.class))
      /\ \A d \in Classes \ {r.class} : changes'[d] = changes[d]
  <2>1. PICK ch \in StoredChange(r.class) :
          /\ changes[r.class] \in Seq(StoredChange(r.class))
          /\ changes'[r.class] = Append(changes[r.class], ch)
          /\ \A d \in Classes \ {r.class} : changes'[d] = changes[d]
          /\ r # None /\ r.op = "change" /\ r.class \in Classes
    BY <1>1, CreatedChanges
  <2> QED
    BY <2>1
<1>4. versions' = versions /\ lessons' = lessons
  BY DEF CreateChange
<1>5. /\ l \in lessons /\ isHeld(l) /\ l.class \in Classes /\ l.day \in Days
      /\ ~endangers(r, l)
  BY <1>1, <1>3, <1>4, RecordedBefore
<1>6. PICK c : c = l.class
  OBVIOUS
<1>7. PICK day : day = l.day
  OBVIOUS
<1>8. CASE c # r.class
  BY <1>3, <1>4, <1>5, <1>6, <1>8, EntriesStay, SlotsStay, HeldStays
<1>9. CASE c = r.class
  <2>1. slotsOn(c, day) \in Seq(Slot(c)) /\ gives(slotsOn(c, day), l.period, l.subgroup)
    <3>1. slotsOn(c, day) \in Seq(Slot(c))
      BY <1>5, <1>6, <1>7, SlotsOnType DEF Standing
    <3> QED
      BY <1>5, <1>6, <1>7, <3>1, HeldGives DEF isHeld
  <2>2. row.type = "cancel" /\ row.day = day =>
          ~(l.period = row.period /\ l.subgroup = row.subgroup)
    BY <1>2, <1>3, <1>5, <1>6, <1>7, <1>9 DEF endangers, isOf
  <2>3. gives(slotsOn(c, day)', l.period, l.subgroup)
    BY <1>1, <1>2, <1>5, <1>7, <1>9, <2>1, <2>2, CreatedGives, ZenonT(60)
  <2>4. slotsOn(c, day)' \in Seq(Slot(c))
    BY <1>3, <1>4, <1>5, <1>6, <1>7, <1>9, EntriesStay, SlotsNextType
  <2> QED
    BY <1>6, <1>7, <2>3, <2>4, HeldGives DEF isHeld
<1> QED
  BY <1>8, <1>9

LEMMA RecordedVoidChange ==
  ASSUME Standing, Spared, RecordedIsHeld, NEW m \in Managers, VoidChange(m)
  PROVE  RecordedIsHeld'
<1> SUFFICES ASSUME NEW l \in lessons', ~l.late PROVE isHeld(l)'
  BY DEF RecordedIsHeld
<1>1. PICK r : r = managing[m]
  OBVIOUS
<1>2. PICK n : n = r.change
  OBVIOUS
<1>3. /\ r # None /\ r.op = "void" /\ r.class \in Classes
      /\ changes'[r.class] \in Seq(StoredChange(r.class))
      /\ \A d \in Classes \ {r.class} : changes'[d] = changes[d]
  BY <1>1, VoidedChanges
<1>4. versions' = versions /\ lessons' = lessons
  BY DEF VoidChange
<1>5. /\ l \in lessons /\ isHeld(l) /\ l.class \in Classes /\ l.day \in Days
      /\ ~endangers(r, l)
  BY <1>1, <1>3, <1>4, RecordedBefore
<1>6. PICK c : c = l.class
  OBVIOUS
<1>7. PICK day : day = l.day
  OBVIOUS
<1>8. CASE c # r.class
  BY <1>3, <1>4, <1>5, <1>6, <1>8, EntriesStay, SlotsStay, HeldStays
<1>9. CASE c = r.class
  <2>1. slotsOn(c, day) \in Seq(Slot(c)) /\ gives(slotsOn(c, day), l.period, l.subgroup)
    <3>1. slotsOn(c, day) \in Seq(Slot(c))
      BY <1>5, <1>6, <1>7, SlotsOnType DEF Standing
    <3> QED
      BY <1>5, <1>6, <1>7, <3>1, HeldGives DEF isHeld
  <2>2. changes[c][n].type # "cancel" /\ changes[c][n].day = day =>
          ~(l.period = changes[c][n].period /\ l.subgroup = changes[c][n].subgroup)
    BY <1>2, <1>3, <1>5, <1>6, <1>7, <1>9 DEF endangers, isOf
  <2>3. gives(slotsOn(c, day)', l.period, l.subgroup)
    BY <1>1, <1>2, <1>5, <1>7, <1>9, <2>1, <2>2, VoidedGives, ZenonT(60)
  <2>4. slotsOn(c, day)' \in Seq(Slot(c))
    BY <1>3, <1>4, <1>5, <1>6, <1>7, <1>9, EntriesStay, SlotsNextType
  <2> QED
    BY <1>6, <1>7, <2>3, <2>4, HeldGives DEF isHeld
<1> QED
  BY <1>8, <1>9

LEMMA HeldAnywhere ==
  ASSUME versions' = versions, changes' = changes, NEW l, isHeld(l)
  PROVE  isHeld(l)'
BY EntriesStay, SlotsStay, HeldStays

LEMMA RecordedWriteMarks ==
  ASSUME Standing, RecordedIsHeld, NEW w \in Savers, WriteMarks(w)
  PROVE  RecordedIsHeld'
<1>1. PICK l : l = save[w].lesson
  OBVIOUS
<1>2. PICK new \in LessonRow :
        /\ new.late \/ inTime(l)
        /\ new.class = l.class /\ new.day = l.day
        /\ new.period = l.period /\ new.subgroup = l.subgroup
        /\ \A k \in lessons' : k \in lessons \/ k = new
  BY <1>1, WrittenLesson DEF Standing
<1>3. versions' = versions /\ changes' = changes
  BY DEF WriteMarks
<1>4. new.late \/ isHeld(new)
  BY <1>2 DEF inTime, isHeld
<1>5. \A k : isHeld(k) => isHeld(k)'
  BY <1>3, HeldAnywhere
<1> QED
  BY <1>2, <1>4, <1>5 DEF RecordedIsHeld

LEMMA RecordedStep ==
  ASSUME Standing, Tiled, Spared, RecordedIsHeld, [TimetableNext]_timetableVars
  PROVE  RecordedIsHeld'
<1>1. ASSUME lessons' = lessons, versions' = versions, changes' = changes
      PROVE  RecordedIsHeld'
  <2>1. \A k : isHeld(k) => isHeld(k)'
    BY <1>1, HeldAnywhere
  <2> QED
    BY <1>1, <2>1 DEF RecordedIsHeld
<1>2. ASSUME NEW m \in Managers,
             \/ \E id \in TimetableIds : CreateTimetable(m, id)
             \/ ReplaceEntries(m) \/ CreateChange(m) \/ VoidChange(m)
      PROVE  RecordedIsHeld'
  BY <1>2, RecordedCreateTimetable, RecordedReplaceEntries,
     RecordedCreateChange, RecordedVoidChange
<1>3. ASSUME NEW m, NEW r, Prepare(m, r) PROVE RecordedIsHeld'
  BY <1>1, <1>3 DEF Prepare
<1>4. CASE Manager
  BY <1>2, <1>3, <1>4 DEF Manager, BeginCreateTimetable, BeginReplaceEntries,
     BeginCreateChange, BeginVoidChange
<1>5. ASSUME NEW w \in Savers, WriteMarks(w) PROVE RecordedIsHeld'
  BY <1>5, RecordedWriteMarks
<1>6. CASE Teacher
  <2>1. ASSUME NEW w, NEW c, NEW day, NEW s, NEW wanted,
               BeginSave(w, c, day, s, wanted)
        PROVE  RecordedIsHeld'
    BY <1>1, <2>1 DEF BeginSave
  <2>2. ASSUME NEW w, LockLesson(w) PROVE RecordedIsHeld'
    BY <1>1, <2>2 DEF LockLesson
  <2> QED
    BY <1>5, <1>6, <2>1, <2>2 DEF Teacher
<1>7. CASE NextSchoolDay \/ UNCHANGED timetableVars
  BY <1>1, <1>7 DEF NextSchoolDay, timetableVars
<1> QED
  BY <1>4, <1>6, <1>7 DEF TimetableNext

-----------------------------------------------------------------------------
(* Timetables that fit                                                     *)

LEMMA ClashSymmetric ==
  ASSUME NEW c, NEW d, NEW e, NEW f
  PROVE  entriesClash(c, e, d, f) <=> entriesClash(d, f, c, e)
<1>1. parityOverlap(e.parity, f.parity) <=> parityOverlap(f.parity, e.parity)
  BY DEF parityOverlap
<1> QED
  BY <1>1, ConflictSymmetric DEF entriesClash

LEMMA SpanSymmetric ==
  ASSUME NEW c \in Classes, NEW d \in Classes,
         NEW v \in VersionRow(c), NEW w \in VersionRow(d)
  PROVE  spanOverlaps(v, w.from, w.to) <=> spanOverlaps(w, v.from, v.to)
<1>1. /\ v.from \in Nat /\ w.from \in Nat
      /\ v.to \in Nat \cup {None} /\ w.to \in Nat \cup {None}
  BY DEF VersionRow, Days
<1> QED
  BY <1>1 DEF spanOverlaps

Fit(c, v, d, w) ==
  spanOverlaps(v, w.from, w.to) =>
    \A e \in v.entries : \A f \in w.entries : ~entriesClash(c, e, d, f)

LEMMA FitSymmetric ==
  ASSUME NEW c \in Classes, NEW d \in Classes,
         NEW v \in VersionRow(c), NEW w \in VersionRow(d), Fit(c, v, d, w)
  PROVE  Fit(d, w, c, v)
BY SpanSymmetric, ClashSymmetric DEF Fit

(* It is enough to look at the versions of the class that changes.         *)
LEMMA PlansFitAfter ==
  ASSUME Standing, Standing', PlansFit, NEW c \in Classes,
         \A d \in Classes \ {c} : versions'[d] = versions[d],
         \A v \in versions'[c] : \A e, f \in v.entries :
           e # f => ~entriesClash(c, e, c, f),
         \A v \in versions'[c] : \A d \in Classes \ {c} :
           \A w \in versions[d] : Fit(c, v, d, w)
  PROVE  PlansFit'
<1>1. \A a \in Classes : \A v \in versions'[a] : \A e, f \in v.entries :
        e # f => ~entriesClash(a, e, a, f)
  BY DEF PlansFit
<1>2. ASSUME NEW a \in Classes, NEW b \in Classes, a # b,
             NEW v \in versions'[a], NEW w \in versions'[b]
      PROVE  Fit(a, v, b, w)
  <2>1. v \in VersionRow(a) /\ w \in VersionRow(b)
    BY DEF Standing, TimetableTypeOK
  <2>2. CASE a = c
    BY <1>2, <2>2
  <2>3. CASE b = c
    <3>1. Fit(b, w, a, v)
      BY <1>2, <2>3
    <3> QED
      BY <2>1, <3>1, FitSymmetric
  <2>4. CASE a # c /\ b # c
    BY <1>2, <2>4 DEF PlansFit, Fit
  <2> QED
    BY <2>2, <2>3, <2>4
<1> QED
  BY <1>1, <1>2 DEF PlansFit, Fit

(* A request fits as long as no timetable and no change is written.        *)
LEMMA PlanClashesStay ==
  ASSUME versions' = versions, NEW c, NEW entries, NEW from, NEW to
  PROVE  planClashes(c, entries, from, to)' <=> planClashes(c, entries, from, to)
BY DEF planClashes

LEMMA SlotsWithStay ==
  ASSUME versions' = versions, changes' = changes, NEW day
  PROVE  /\ \A c, list : slotsWith(c, day, list)' = slotsWith(c, day, list)
         /\ \A c : slotsOn(c, day)' = slotsOn(c, day)
<1>1. \A c : entriesOn(c, day)' = entriesOn(c, day)
  BY EntriesStay
<1>2. \A c, list : slotsWith(c, day, list)' = slotsWith(c, day, list)
  BY <1>1 DEF slotsWith
<1>3. \A c : slotsOn(c, day)' = slotsOn(c, day)
  BY <1>1, SlotsStay
<1> QED
  BY <1>2, <1>3

LEMMA DayClashesStay ==
  ASSUME versions' = versions, changes' = changes,
         NEW c, NEW day, NEW list, NEW new
  PROVE  dayClashes(c, day, list, new)' <=> dayClashes(c, day, list, new)
BY SlotsWithStay DEF dayClashes

LEMMA ChangeClashesStay ==
  ASSUME versions' = versions, changes' = changes, NEW c, NEW row
  PROVE  changeClashes(c, row)' <=> changeClashes(c, row)
<1>1. PICK list : list = added(c, row)
  OBVIOUS
<1>2. added(c, row)' = list
  BY <1>1 DEF added
<1>3. PICK new : new = {s \in held(slotsWith(c, row.day, list)) : s.change = Len(list)}
  OBVIOUS
<1>4. slotsWith(c, row.day, list)' = slotsWith(c, row.day, list)
  BY SlotsWithStay
<1>5. changeClashes(c, row) <=> dayClashes(c, row.day, list, new)
  BY <1>1, <1>3 DEF changeClashes
<1>6. changeClashes(c, row)' <=> dayClashes(c, row.day, list, new)'
  BY <1>2, <1>3, <1>4 DEF changeClashes
<1> QED
  BY <1>5, <1>6, DayClashesStay

LEMMA VoidClashesStay ==
  ASSUME versions' = versions, changes' = changes, NEW c, NEW n
  PROVE  voidClashes(c, n)' <=> voidClashes(c, n)
<1>1. PICK list : list = takenBack(c, n)
  OBVIOUS
<1>2. takenBack(c, n)' = list
  BY <1>1 DEF takenBack
<1>3. PICK ch : ch = changes[c][n]
  OBVIOUS
<1>4. PICK new : new = {s \in held(slotsWith(c, ch.day, list)) : sameLesson(s, ch)}
  OBVIOUS
<1>5. slotsWith(c, ch.day, list)' = slotsWith(c, ch.day, list)
  BY SlotsWithStay
<1>6. voidClashes(c, n) <=> dayClashes(c, ch.day, list, new)
  BY <1>1, <1>3, <1>4 DEF voidClashes
<1>7. voidClashes(c, n)' <=> dayClashes(c, ch.day, list, new)'
  BY <1>2, <1>3, <1>4, <1>5 DEF voidClashes
<1> QED
  BY <1>6, <1>7, DayClashesStay

LEMMA FitsStays ==
  ASSUME versions' = versions, changes' = changes, NEW r, Fits(r)
  PROVE  Fits(r)'
BY PlanClashesStay, ChangeClashesStay, VoidClashesStay DEF Fits

LEMMA FitsNow ==
  ASSUME TimetableTypeOK, RequestsFit, NEW m \in Managers,
         NEW r, r = managing[m], r # None
  PROVE  Fits(r)
<1>1. r \in RequestRow
  BY RequestOf
<1> QED
  BY <1>1 DEF RequestsFit

LEMMA RequestsFitStays ==
  ASSUME RequestsFit, UNCHANGED <<versions, changes, managing>>
  PROVE  RequestsFit'
BY FitsStays DEF RequestsFit

LEMMA RequestsFitPrepare ==
  ASSUME TimetableTypeOK, RequestsFit, NEW m \in Managers, NEW r \in RequestRow,
         Prepare(m, r), Fits(r)
  PROVE  RequestsFit'
<1>1. /\ managing'[m] = r
      /\ \A n \in Managers \ {m} : managing'[n] = managing[n]
      /\ UNCHANGED <<today, versions, changes, lessons, marks, save>>
  BY Prepared
<1> SUFFICES ASSUME NEW n \in Managers, NEW q \in RequestRow, managing'[n] = q
             PROVE  Fits(q)'
  BY DEF RequestsFit
<1>2. Fits(q)
  BY <1>1 DEF RequestsFit
<1> QED
  BY <1>1, <1>2, FitsStays

(* What was checked when a request began.                                  *)
LEMMA RequestsFitBegin ==
  ASSUME Standing, RequestsFit, NEW m \in Managers, NEW c \in Classes,
         \/ \E from \in Days : \E p \in Plans[c] : BeginCreateTimetable(m, c, from, p)
         \/ \E v \in versions[c] : \E p \in Plans[c] : BeginReplaceEntries(m, c, v, p)
         \/ \E row \in ChangeRows[c] : BeginCreateChange(m, c, row)
         \/ \E n \in DOMAIN changes[c] : BeginVoidChange(m, c, n)
  PROVE  RequestsFit'
<1> TimetableTypeOK
  BY DEF Standing
<1>1. ASSUME NEW from \in Days, NEW p \in Plans[c], BeginCreateTimetable(m, c, from, p)
      PROVE  RequestsFit'
  <2>1. PICK r \in RequestRow :
          /\ Prepare(m, r)
          /\ \E v : r = [op |-> "timetable", class |-> c, from |-> from,
                         entries |-> p, previous |-> v]
    BY <1>1, BegunTimetable
  <2>2. ~planClashes(c, p, from, None)
    BY <1>1 DEF BeginCreateTimetable
  <2>3. Fits(r)
    BY <2>1, <2>2 DEF Fits
  <2> QED
    BY <2>1, <2>3, RequestsFitPrepare
<1>2. ASSUME NEW v \in versions[c], NEW p \in Plans[c], BeginReplaceEntries(m, c, v, p)
      PROVE  RequestsFit'
  <2>1. PICK r : r = [op |-> "entries", class |-> c, version |-> v, entries |-> p]
    OBVIOUS
  <2>2. r \in RequestRow /\ Prepare(m, r)
    BY <1>2, <2>1, BegunEntries
  <2>3. ~planClashes(c, p, v.from, v.to)
    BY <1>2 DEF BeginReplaceEntries
  <2>4. \A u \in versions[c] : u.id = v.id => u = v
    BY DEF Standing, OneOfEach
  <2>5. Fits(r)
    BY <2>1, <2>3, <2>4 DEF Fits
  <2> QED
    BY <2>2, <2>5, RequestsFitPrepare
<1>3. ASSUME NEW row \in ChangeRows[c], BeginCreateChange(m, c, row)
      PROVE  RequestsFit'
  <2>1. PICK r : r = [op |-> "change", class |-> c, row |-> row]
    OBVIOUS
  <2>2. r \in RequestRow /\ Prepare(m, r)
    BY <1>3, <2>1, BegunChange
  <2>3. /\ row.day \in SchoolDays[c]
        /\ row.type # "cancel" => ~changeClashes(c, row)
    BY <1>3 DEF BeginCreateChange
  <2>4. Fits(r)
    BY <2>1, <2>3 DEF Fits
  <2> QED
    BY <2>2, <2>4, RequestsFitPrepare
<1>4. ASSUME NEW n \in DOMAIN changes[c], BeginVoidChange(m, c, n)
      PROVE  RequestsFit'
  <2>1. PICK r : r = [op |-> "void", class |-> c, change |-> n]
    OBVIOUS
  <2>2. r \in RequestRow /\ Prepare(m, r)
    BY <1>4, <2>1, BegunVoid
  <2>3. changes[c][n].type # "extra" => ~voidClashes(c, n)
    BY <1>4 DEF BeginVoidChange
  <2>4. Fits(r)
    BY <2>1, <2>3 DEF Fits
  <2> QED
    BY <2>2, <2>4, RequestsFitPrepare
<1> QED
  BY <1>1, <1>2, <1>3, <1>4

(* A manager who writes was the only one, so nobody is left who checked    *)
(* what was there before.                                                  *)
LEMMA RequestsFitAfter ==
  ASSUME Standing, TakeTurns, NEW m \in Managers, managing[m] # None, Done(m)
  PROVE  RequestsFit'
<1>1. /\ managing'[m] = None
      /\ \A n \in Managers \ {m} : managing'[n] = managing[n]
  BY Finished DEF Standing
<1>2. \A n \in Managers : managing'[n] = None
  BY <1>1 DEF TakeTurns
<1>3. None \notin RequestRow
  BY RowsAssumption
<1> QED
  BY <1>2, <1>3 DEF RequestsFit

LEMMA RequestsFitStep ==
  ASSUME Standing, RequestsFit, TakeTurns, [TimetableNext]_timetableVars
  PROVE  RequestsFit'
<1>1. ASSUME NEW m \in Managers,
             \/ \E id \in TimetableIds : CreateTimetable(m, id)
             \/ ReplaceEntries(m) \/ CreateChange(m) \/ VoidChange(m)
      PROVE  RequestsFit'
  <2>1. managing[m] # None /\ Done(m)
    BY <1>1 DEF CreateTimetable, ReplaceEntries, CreateChange, VoidChange, writes
  <2> QED
    BY <2>1, RequestsFitAfter
<1>2. CASE Manager
  BY <1>1, <1>2, RequestsFitBegin DEF Manager
<1>3. CASE Teacher
  <2>1. UNCHANGED <<versions, changes, managing>>
    BY <1>3 DEF Teacher, BeginSave, LockLesson, WriteMarks
  <2> QED
    BY <2>1, RequestsFitStays
<1>4. CASE NextSchoolDay \/ UNCHANGED timetableVars
  <2>1. UNCHANGED <<versions, changes, managing>>
    BY <1>4 DEF NextSchoolDay, timetableVars
  <2> QED
    BY <2>1, RequestsFitStays
<1> QED
  BY <1>2, <1>3, <1>4 DEF TimetableNext

LEMMA PlansFitCreateTimetable ==
  ASSUME Standing, Tiled, RequestsFit, PlansFit, NEW m \in Managers,
         NEW id \in TimetableIds, CreateTimetable(m, id)
  PROVE  PlansFit'
<1>1. PICK r : r = managing[m]
  OBVIOUS
<1>2. PICK c : c = r.class
  OBVIOUS
<1>3. PICK new : new = begun(r, id)
  OBVIOUS
<1>4. /\ r # None /\ r.op = "timetable" /\ c \in Classes /\ r.from \in Days
      /\ versions'[c] = {cutAt(v, r.from) : v \in versions[c]} \cup {new}
      /\ \A d \in Classes \ {c} : versions'[d] = versions[d]
      /\ new \in VersionRow(c)
      /\ \A v \in versions[c] : v \in VersionRow(c) /\ v.from < r.from
  BY <1>1, <1>2, <1>3, CreatedRows, CreatedVersions
<1>5. Standing'
  BY StandingCreateTimetable
<1>6. ~planClashes(c, r.entries, r.from, None)
  <2>1. Fits(r)
    BY <1>1, <1>4, FitsNow DEF Standing
  <2> QED
    BY <1>2, <1>4, <2>1 DEF Fits
<1>7. new.entries = r.entries /\ new.from = r.from /\ new.to = None
  BY <1>3 DEF begun
<1>8. ASSUME NEW d \in Classes \ {c}, NEW w \in versions[d]
      PROVE  Fit(c, new, d, w)
  <2>1. w \in VersionRow(d)
    BY DEF Standing, TimetableTypeOK
  <2>2. spanOverlaps(new, w.from, w.to) => spanOverlaps(w, r.from, None)
    BY <1>4, <1>7, <2>1, SpanSymmetric
  <2> QED
    BY <1>6, <1>7, <2>2 DEF Fit, planClashes
<1>9. ASSUME NEW v \in versions[c], NEW d \in Classes \ {c}, NEW w \in versions[d]
      PROVE  Fit(c, cutAt(v, r.from), d, w)
  <2>1. PICK u : u = cutAt(v, r.from)
    OBVIOUS
  <2>2. /\ u.from = v.from /\ u.entries = v.entries /\ u.to # None
        /\ v.to # None => u.to <= v.to
        /\ u \in VersionRow(c)
    BY <1>4, <2>1, CutAt
  <2>3. /\ v.to \in Nat \cup {None} /\ u.to \in Nat /\ w.from \in Nat
    BY <1>4, <2>2 DEF VersionRow, Days, Standing, TimetableTypeOK
  <2>4. spanOverlaps(u, w.from, w.to) => spanOverlaps(v, w.from, w.to)
    BY <2>2, <2>3 DEF spanOverlaps
  <2>5. Fit(c, v, d, w)
    BY <1>4 DEF PlansFit, Fit
  <2> QED
    BY <2>1, <2>2, <2>4, <2>5 DEF Fit
<1>10. \A v \in versions'[c] : \A e, f \in v.entries :
         e # f => ~entriesClash(c, e, c, f)
  <2>1. \A e, f \in new.entries : e # f => ~entriesClash(c, e, c, f)
    BY <1>6, <1>7 DEF planClashes
  <2>2. ASSUME NEW v \in versions[c]
        PROVE  \A e, f \in cutAt(v, r.from).entries :
                 e # f => ~entriesClash(c, e, c, f)
    <3>1. cutAt(v, r.from).entries = v.entries
      BY <1>4, CutAt
    <3> QED
      BY <1>4, <3>1 DEF PlansFit
  <2> QED
    BY <1>4, <2>1, <2>2
<1>11. \A v \in versions'[c] : \A d \in Classes \ {c} :
         \A w \in versions[d] : Fit(c, v, d, w)
  BY <1>4, <1>8, <1>9
<1> QED
  BY <1>4, <1>5, <1>10, <1>11, PlansFitAfter

LEMMA PlansFitReplaceEntries ==
  ASSUME Standing, RequestsFit, PlansFit, NEW m \in Managers, ReplaceEntries(m)
  PROVE  PlansFit'
<1>1. PICK r : r = managing[m]
  OBVIOUS
<1>2. PICK c : c = r.class
  OBVIOUS
<1>3. /\ r # None /\ r.op = "entries" /\ c \in Classes
      /\ versions'[c] = {replaced(r, v) : v \in versions[c]}
      /\ \A d \in Classes \ {c} : versions'[d] = versions[d]
      /\ \A v \in versions[c] :
           /\ v \in VersionRow(c) /\ replaced(r, v) \in VersionRow(c)
           /\ replaced(r, v).from = v.from /\ replaced(r, v).to = v.to
           /\ replaced(r, v).entries =
                IF v.id = r.version.id THEN r.entries ELSE v.entries
  BY <1>1, <1>2, ReplacedVersions
<1>4. Standing'
  BY StandingReplaceEntries
<1>5. \A v \in versions[c] : v.id = r.version.id =>
        ~planClashes(c, r.entries, v.from, v.to)
  <2>1. Fits(r)
    BY <1>1, <1>3, FitsNow DEF Standing
  <2> QED
    BY <1>2, <1>3, <2>1 DEF Fits
<1>6. ASSUME NEW v \in versions[c]
      PROVE  /\ \A e, f \in replaced(r, v).entries : e # f => ~entriesClash(c, e, c, f)
             /\ \A d \in Classes \ {c} : \A w \in versions[d] :
                  Fit(c, replaced(r, v), d, w)
  <2>1. PICK u : u = replaced(r, v)
    OBVIOUS
  <2>2. /\ v \in VersionRow(c) /\ u \in VersionRow(c)
        /\ u.from = v.from /\ u.to = v.to
        /\ u.entries = IF v.id = r.version.id THEN r.entries ELSE v.entries
    BY <1>3, <2>1
  <2>3. CASE v.id = r.version.id
    <3>1. u.entries = r.entries /\ ~planClashes(c, r.entries, v.from, v.to)
      BY <1>5, <2>2, <2>3
    <3>2. \A e, f \in u.entries : e # f => ~entriesClash(c, e, c, f)
      BY <3>1 DEF planClashes
    <3>3. ASSUME NEW d \in Classes \ {c}, NEW w \in versions[d]
          PROVE  Fit(c, u, d, w)
      <4>1. w \in VersionRow(d)
        BY DEF Standing, TimetableTypeOK
      <4>2. spanOverlaps(u, w.from, w.to) => spanOverlaps(w, v.from, v.to)
        BY <1>3, <2>2, <4>1, SpanSymmetric
      <4> QED
        BY <3>1, <4>2 DEF Fit, planClashes
    <3> QED
      BY <2>1, <3>2, <3>3
  <2>4. CASE v.id # r.version.id
    <3>1. u = v
      BY <2>1, <2>4 DEF replaced
    <3> QED
      BY <1>3, <2>1, <3>1 DEF PlansFit, Fit
  <2> QED
    BY <2>3, <2>4
<1>7. \A v \in versions'[c] : \A e, f \in v.entries :
        e # f => ~entriesClash(c, e, c, f)
  BY <1>3, <1>6
<1>8. \A v \in versions'[c] : \A d \in Classes \ {c} :
        \A w \in versions[d] : Fit(c, v, d, w)
  BY <1>3, <1>6
<1> QED
  BY <1>3, <1>4, <1>7, <1>8, PlansFitAfter

LEMMA PlansFitStep ==
  ASSUME Standing, Tiled, RequestsFit, PlansFit, [TimetableNext]_timetableVars
  PROVE  PlansFit'
<1>1. ASSUME versions' = versions PROVE PlansFit'
  BY <1>1 DEF PlansFit
<1>2. ASSUME NEW m \in Managers, NEW id \in TimetableIds, CreateTimetable(m, id)
      PROVE  PlansFit'
  BY <1>2, PlansFitCreateTimetable
<1>3. ASSUME NEW m \in Managers, ReplaceEntries(m) PROVE PlansFit'
  BY <1>3, PlansFitReplaceEntries
<1>4. ASSUME NEW m, NEW r, Prepare(m, r) PROVE PlansFit'
  BY <1>1, <1>4 DEF Prepare
<1>5. ASSUME NEW m, CreateChange(m) \/ VoidChange(m) PROVE PlansFit'
  BY <1>1, <1>5 DEF CreateChange, VoidChange
<1>6. CASE Manager
  BY <1>2, <1>3, <1>4, <1>5, <1>6 DEF Manager, BeginCreateTimetable,
     BeginReplaceEntries, BeginCreateChange, BeginVoidChange
<1>7. CASE Teacher
  BY <1>1, <1>7 DEF Teacher, BeginSave, LockLesson, WriteMarks
<1>8. CASE NextSchoolDay \/ UNCHANGED timetableVars
  BY <1>1, <1>8 DEF NextSchoolDay, timetableVars
<1> QED
  BY <1>6, <1>7, <1>8 DEF TimetableNext

-----------------------------------------------------------------------------
(* Nobody is booked twice                                                  *)

LEMMA BookingIsApart ==
  NoDoubleBooking <=>
    \A day \in Days : \A c, d \in Classes :
      Apart(c, slotsOn(c, day), d, slotsOn(d, day))
BY DEF NoDoubleBooking, Apart

LEMMA EmptyApart ==
  ASSUME NEW c, NEW d, NEW F
  PROVE  Apart(c, <<>>, d, F) /\ Apart(c, F, d, <<>>)
BY EmptySlots DEF Apart

(* The slots of entries that do not clash are apart.                       *)
LEMMA PlannedApart ==
  ASSUME NEW c \in Classes, NEW d \in Classes, NEW day,
         NEW E, NEW D, Timetabled(c, E), Timetabled(d, D),
         \A e \in E : \A f \in D :
           c # d \/ e # f => ~entriesClash(c, e, d, f),
         c = d => E = D
  PROVE  Apart(c, planned(E, day), d, planned(D, day))
<1> DEFINE F == planned(E, day)
           G == planned(D, day)
<1>1. /\ \A i \in DOMAIN F : \E e \in due(E, day) : F[i] = slot(e, None)
      /\ \A i, j \in DOMAIN F : F[i] = F[j] => i = j
  BY PlannedSlots DEF Timetabled
<1>2. \A i \in DOMAIN G : \E e \in due(D, day) : G[i] = slot(e, None)
  BY PlannedSlots DEF Timetabled
<1> SUFFICES ASSUME NEW i \in DOMAIN F, NEW j \in DOMAIN G,
                    <<c, i>> # <<d, j>>, conflict(c, F[i], d, G[j])
             PROVE  FALSE
  BY DEF Apart
<1> HIDE DEF F, G
<1>3. PICK e \in due(E, day) : F[i] = slot(e, None)
  BY <1>1
<1>4. PICK f \in due(D, day) : G[j] = slot(f, None)
  BY <1>2
<1>5. e \in E /\ f \in D /\ e.weekday = f.weekday /\ parityOverlap(e.parity, f.parity)
  BY DEF due, parityMatches, parityOverlap
<1>6. conflict(c, e, d, f)
  <2>1. /\ F[i].period = e.period /\ F[i].subgroup = e.subgroup
        /\ F[i].teacher = e.teacher /\ F[i].room = e.room
        /\ G[j].period = f.period /\ G[j].subgroup = f.subgroup
        /\ G[j].teacher = f.teacher /\ G[j].room = f.room
    BY <1>3, <1>4 DEF slot
  <2>2. overlap(during(c, e.period), during(d, f.period))
    BY <2>1 DEF conflict
  <2>3. conflictKind(c, e, d, f)
    BY <2>1 DEF conflict, conflictKind
  <2> QED
    BY <2>2, <2>3 DEF conflict
<1>7. c # d \/ e # f
  <2> SUFFICES ASSUME c = d, e = f PROVE FALSE
    OBVIOUS
  <2>1. F = G /\ F[i] = F[j] /\ j \in DOMAIN F
    BY <1>3, <1>4 DEF F, G
  <2> QED
    BY <1>1, <2>1
<1> QED
  BY <1>5, <1>6, <1>7 DEF entriesClash

LEMMA AllSkipped ==
  ASSUME NEW c \in Classes, NEW day, NEW entries,
         NEW list \in Seq(StoredChange(c)),
         \A n \in DOMAIN list : skipped(list[n], day)
  PROVE  slotsOf(entries, day, list) = planned(entries, day)
<1> DEFINE N == Len(list)
<1>1. N \in Nat /\ \A n \in 1..N : skipped(list[n], day)
  OBVIOUS
<1>2. PICK f : IsLoop(f, entries, day, list) /\ slotsOf(entries, day, list) = f[N]
  BY <1>1, LoopExists DEF slotsOf
<1> DEFINE S == {n \in 0..N : f[n] = planned(entries, day)}
<1>3. 0 \in S
  BY <1>1, <1>2 DEF IsLoop
<1>4. \A n \in 1..N : n - 1 \in S => n \in S
  BY <1>1, <1>2 DEF IsLoop
<1>5. 0..N \subseteq S
  <2> HIDE DEF S, N
  <2> QED
    BY <1>1, <1>3, <1>4, UpTo
<1>6. N \in S
  BY <1>1, <1>5
<1> QED
  BY <1>2, <1>6

LEMMA Cover ==
  ASSUME NEW c \in Classes, NEW d \in Classes,
         NEW v \in VersionRow(c), NEW w \in VersionRow(d), NEW day \in Days,
         v.from <= day, v.to = None \/ day <= v.to,
         w.from <= day, w.to = None \/ day <= w.to
  PROVE  spanOverlaps(v, w.from, w.to)
<1>1. /\ v.from \in Nat /\ w.from \in Nat /\ day \in Nat
      /\ v.to \in Nat \cup {None} /\ w.to \in Nat \cup {None}
  BY DEF VersionRow, Days
<1> QED
  BY <1>1 DEF spanOverlaps

(* A day that has no changes, after its timetable has changed.             *)
LEMMA EntriesOfNextDay ==
  ASSUME Standing', NEW c \in Classes, NEW day \in Days
  PROVE  /\ entriesOn(c, day)' = {} \/ \E v \in versions'[c] :
              /\ v.from <= day /\ (v.to = None \/ day <= v.to)
              /\ entriesOn(c, day)' = v.entries
         /\ Timetabled(c, entriesOn(c, day)')
<1>1. versions'[c] \subseteq VersionRow(c)
  BY DEF Standing, TimetableTypeOK
<1>2. CASE \A v \in versions'[c] : ~covers(v, day)
  <2>1. entriesOn(c, day)' = {}
    BY <1>2, NoEntries
  <2> QED
    BY <2>1, NothingTimetabled
<1>3. CASE \E v \in versions'[c] : covers(v, day)
  <2> DEFINE V == {v \in versions'[c] : covers(v, day)}
  <2>1. versionOn(c, day)' = V /\ V # {}
    BY <1>3 DEF versionOn, covers
  <2>2. PICK v : v = CHOOSE u \in V : TRUE
    OBVIOUS
  <2>3. entriesOn(c, day)' = v.entries
    BY <2>1, <2>2 DEF entriesOn
  <2>4. v \in V
    BY <2>1, <2>2
  <2>5. v \in versions'[c] /\ covers(v, day)
    BY <2>4
  <2> HIDE DEF V
  <2>6. Timetabled(c, v.entries)
    BY <1>1, <2>5, VersionTimetabled
  <2> QED
    BY <2>3, <2>5, <2>6 DEF covers
<1> QED
  BY <1>2, <1>3

LEMMA FitApart ==
  ASSUME Standing', PlansFit', NEW day \in Days,
         \A c \in Classes : \A n \in DOMAIN changes'[c] :
           skipped(changes'[c][n], day),
         NEW c \in Classes, NEW d \in Classes
  PROVE  Apart(c, slotsOn(c, day)', d, slotsOn(d, day)')
<1> DEFINE E == entriesOn(c, day)'
           D == entriesOn(d, day)'
<1>1. /\ Timetabled(c, E)
      /\ E = {} \/ \E v \in versions'[c] :
           /\ v.from <= day /\ (v.to = None \/ day <= v.to) /\ E = v.entries
  BY EntriesOfNextDay
<1>2. /\ Timetabled(d, D)
      /\ D = {} \/ \E v \in versions'[d] :
           /\ v.from <= day /\ (v.to = None \/ day <= v.to) /\ D = v.entries
  BY EntriesOfNextDay
<1>3. slotsOn(c, day)' = planned(E, day) \/ slotsOn(c, day)' = <<>>
  <2>1. changes'[c] \in Seq(StoredChange(c))
    BY DEF Standing, TimetableTypeOK
  <2>2. slotsOf(E, day, changes'[c]) = planned(E, day)
    BY <2>1, AllSkipped
  <2> QED
    BY <2>2, SlotsNext
<1>4. slotsOn(d, day)' = planned(D, day) \/ slotsOn(d, day)' = <<>>
  <2>1. changes'[d] \in Seq(StoredChange(d))
    BY DEF Standing, TimetableTypeOK
  <2>2. slotsOf(D, day, changes'[d]) = planned(D, day)
    BY <2>1, AllSkipped
  <2> QED
    BY <2>2, SlotsNext
<1>5. c = d => E = D
  OBVIOUS
<1> HIDE DEF E, D
<1>6. ASSUME NEW e \in E, NEW f \in D, c # d \/ e # f
      PROVE  ~entriesClash(c, e, d, f)
  <2>1. PICK v \in versions'[c] :
          v.from <= day /\ (v.to = None \/ day <= v.to) /\ E = v.entries
    BY <1>1
  <2>2. PICK w \in versions'[d] :
          w.from <= day /\ (w.to = None \/ day <= w.to) /\ D = w.entries
    BY <1>2
  <2>3. CASE c = d
    BY <1>5, <1>6, <2>1, <2>3 DEF PlansFit
  <2>4. CASE c # d
    <3>1. v \in VersionRow(c) /\ w \in VersionRow(d)
      BY DEF Standing, TimetableTypeOK
    <3>2. spanOverlaps(v, w.from, w.to)
      BY <2>1, <2>2, <3>1, Cover
    <3> QED
      BY <2>1, <2>2, <2>4, <3>2 DEF PlansFit
  <2> QED
    BY <2>3, <2>4
<1>7. Apart(c, planned(E, day), d, planned(D, day))
  BY <1>1, <1>2, <1>5, <1>6, PlannedApart
<1> QED
  BY <1>3, <1>4, <1>7, EmptyApart

LEMMA BookingStays ==
  ASSUME NoDoubleBooking, NEW day \in Days,
         \A c \in Classes : slotsOn(c, day)' = slotsOn(c, day),
         NEW c \in Classes, NEW d \in Classes
  PROVE  Apart(c, slotsOn(c, day)', d, slotsOn(d, day)')
BY BookingIsApart

LEMMA BookingTimetables ==
  ASSUME NoDoubleBooking, Standing', PlansFit', PlansFirst, changes' = changes
  PROVE  NoDoubleBooking'
<1>1. ASSUME NEW day \in Days, NEW c \in Classes, NEW d \in Classes
      PROVE  Apart(c, slotsOn(c, day)', d, slotsOn(d, day)')
  <2>1. CASE \A a \in Classes : \A n \in DOMAIN changes[a] :
               skipped(changes[a][n], day)
    BY <2>1, FitApart
  <2>2. CASE \A a \in Classes : entriesOn(a, day)' = entriesOn(a, day)
    BY <2>2, SlotsStay, BookingStays
  <2> QED
    BY <2>1, <2>2 DEF PlansFirst
<1> QED
  BY <1>1 DEF NoDoubleBooking, Apart

(* The slots of a class that were looked at clash with no other.           *)
Checked(c, day, G, X) ==
  /\ \A i \in X \cap DOMAIN G : \A j \in DOMAIN G \ {i} :
       ~G[i].cancelled /\ ~G[j].cancelled => ~conflict(c, G[i], c, G[j])
  /\ \A d \in Classes \ {c} : \A i \in X \cap DOMAIN G :
       \A j \in DOMAIN slotsOn(d, day) :
         ~G[i].cancelled /\ ~slotsOn(d, day)[j].cancelled =>
           ~conflict(c, G[i], d, slotsOn(d, day)[j])

LEMMA NothingChecked ==
  ASSUME NEW c, NEW day, NEW G
  PROVE  Checked(c, day, G, {})
BY DEF Checked

LEMMA NotClashing ==
  ASSUME NEW c, NEW day, NEW list, NEW new, ~dayClashes(c, day, list, new),
         NEW G, G = slotsWith(c, day, list)
  PROVE  Checked(c, day, G, {i \in DOMAIN G : ~G[i].cancelled => G[i] \in new})
<1>1. ASSUME NEW i \in DOMAIN G, ~G[i].cancelled, G[i] \in new
      PROVE  /\ \A j \in DOMAIN G \ {i} :
                  ~G[j].cancelled => ~conflict(c, G[i], c, G[j])
             /\ \A d \in Classes \ {c} : \A t \in held(slotsOn(d, day)) :
                  ~conflict(c, G[i], d, t)
  BY <1>1 DEF dayClashes
<1>2. \A d : \A j \in DOMAIN slotsOn(d, day) :
        ~slotsOn(d, day)[j].cancelled => slotsOn(d, day)[j] \in held(slotsOn(d, day))
  BY DEF held
<1>3. \A i \in {k \in DOMAIN G : ~G[k].cancelled => G[k] \in new} : \A j \in DOMAIN G \ {i} :
        ~G[i].cancelled /\ ~G[j].cancelled => ~conflict(c, G[i], c, G[j])
  BY <1>1
<1>4. \A d \in Classes \ {c} :
        \A i \in {k \in DOMAIN G : ~G[k].cancelled => G[k] \in new} :
        \A j \in DOMAIN slotsOn(d, day) :
          ~G[i].cancelled /\ ~slotsOn(d, day)[j].cancelled =>
            ~conflict(c, G[i], d, slotsOn(d, day)[j])
  BY <1>1, <1>2
<1> QED
  BY <1>3, <1>4 DEF Checked

(* One class changes on one day.                                           *)
LEMMA BookingOneClass ==
  ASSUME NoDoubleBooking, NEW c \in Classes, NEW day \in Days,
         \A d \in Classes \ {c} : slotsOn(d, day)' = slotsOn(d, day),
         slotsOn(c, day) \in Seq(Slot(c)), slotsOn(c, day)' \in Seq(Slot(c)),
         NEW m \in Nat, NEW X,
         Looked(c, slotsOn(c, day), slotsOn(c, day)', m, X),
         Checked(c, day, slotsOn(c, day)', X),
         NEW a \in Classes, NEW b \in Classes
  PROVE  Apart(a, slotsOn(a, day)', b, slotsOn(b, day)')
<1> DEFINE F == slotsOn(c, day)
           G == slotsOn(c, day)'
<1>1. \A d, e \in Classes : Apart(d, slotsOn(d, day), e, slotsOn(e, day))
  BY BookingIsApart
<1>2. Apart(c, G, c, G)
  <2>1. F \in Seq(Slot(c)) /\ G \in Seq(Slot(c)) /\ Apart(c, F, c, F)
    BY <1>1
  <2>2. Looked(c, F, G, m, X)
    OBVIOUS
  <2>3. \A i \in X \cap DOMAIN G : \A j \in DOMAIN G \ {i} :
          ~G[i].cancelled /\ ~G[j].cancelled => ~conflict(c, G[i], c, G[j])
    BY DEF Checked
  <2> HIDE DEF F, G
  <2> QED
    BY <2>1, <2>2, <2>3, ApartAlone
<1>3. ASSUME NEW d \in Classes \ {c} PROVE Apart(c, G, d, slotsOn(d, day)')
  <2> DEFINE D == slotsOn(d, day)
  <2>1. Apart(c, F, d, D) /\ slotsOn(d, day)' = D
    BY <1>1
  <2>2. Looked(c, F, G, m, X)
    OBVIOUS
  <2>3. \A i \in X \cap DOMAIN G : \A j \in DOMAIN D :
          ~G[i].cancelled /\ ~D[j].cancelled => ~conflict(c, G[i], d, D[j])
    BY DEF Checked
  <2> HIDE DEF F, G, D
  <2>4. Apart(c, G, d, D)
    BY <2>1, <2>2, <2>3, ApartOthers
  <2> QED
    BY <2>1, <2>4
<1>4. CASE a = c /\ b = c
  BY <1>2, <1>4
<1>5. CASE a = c /\ b # c
  BY <1>3, <1>5
<1>6. CASE a # c /\ b = c
  BY <1>3, <1>6, ApartSymmetric
<1>7. CASE a # c /\ b # c
  BY <1>1, <1>7
<1> QED
  BY <1>4, <1>5, <1>6, <1>7

LEMMA PlaceZero == \A i : place(i, 0) = i
BY DEF place

(* What createChange looks at: the slot it changed or added.               *)
LEMMA LookedCreate ==
  ASSUME NEW c \in Classes, NEW F \in Seq(Slot(c)), NEW ch \in StoredChange(c),
         NEW X, ch.type # "cancel" =>
           \A i \in DOMAIN applyChange(F, ch) :
             ~applyChange(F, ch)[i].cancelled
               /\ applyChange(F, ch)[i].change = ch.id => i \in X
  PROVE  Looked(c, F, applyChange(F, ch), 0, X)
<1> DEFINE G == applyChange(F, ch)
<1> SUFFICES ASSUME NEW i \in DOMAIN G, ~G[i].cancelled, i \notin X
             PROVE  place(i, 0) \in DOMAIN F /\ F[place(i, 0)] = G[i]
  BY DEF Looked
<1>1. CASE ch.type = "extra"
  <2>1. G = Append(F, slot(ch, ch.id))
    BY <1>1, ApplyCases
  <2>2. slot(ch, ch.id).change = ch.id
    BY DEF slot
  <2>3. G[i].change # ch.id
    BY <1>1
  <2> HIDE DEF G
  <2>4. i \in 1..Len(F)
    BY <2>1, <2>2, <2>3
  <2> QED
    BY <2>1, <2>4, PlaceZero
<1>2. CASE ch.type # "extra"
  <2>1. G \in Seq(Slot(c))
    BY ApplyCases
  <2>2. /\ Len(G) = Len(F)
        /\ \A j \in 1..Len(F) :
             /\ G[j] = IF first(F, ch, j) THEN changedSlot(F[j], ch) ELSE F[j]
             /\ G[j].cancelled <=>
                  F[j].cancelled \/ (ch.type = "cancel" /\ first(F, ch, j))
    BY <1>2, ApplyPoint, ApplyHeld
  <2>3. ch.type # "cancel" => G[i].change # ch.id
    OBVIOUS
  <2>7. i \in 1..Len(G)
    BY <2>1
  <2> HIDE DEF G
  <2>4. i \in 1..Len(F)
    BY <2>2, <2>7
  <2>5. changedSlot(F[i], ch).change = ch.id
    <3>1. F[i] \in Slot(c)
      BY <2>4
    <3> QED
      BY <1>2, <3>1, ChangedSlot
  <2>6. ~first(F, ch, i)
    BY <2>2, <2>3, <2>4, <2>5
  <2> QED
    BY <2>2, <2>4, <2>6, PlaceZero
<1> QED
  BY <1>1, <1>2

(* What voidChange looks at when it takes back a change of a lesson, and   *)
(* why it looks at nothing when it takes back an added one.                *)
LEMMA LookedVoid ==
  ASSUME NEW c \in Classes, NEW F \in Seq(Slot(c)), NEW G \in Seq(Slot(c)),
         NEW ch, NEW X, Parallel(G, F, 0, ch),
         \A i \in DOMAIN G : ~G[i].cancelled /\ sameLesson(G[i], ch) => i \in X
  PROVE  Looked(c, F, G, 0, X)
<1>1. /\ Len(G) = Len(F)
      /\ \A i \in 1..Len(F) :
           /\ sameLesson(G[i], ch) <=> sameLesson(F[i], ch)
           /\ ~sameLesson(F[i], ch) => G[i] = F[i]
  BY PlaceZero DEF Parallel
<1>2. \A i \in DOMAIN G : i \in 1..Len(F) /\ i \in DOMAIN F
  BY <1>1
<1> QED
  BY <1>1, <1>2, PlaceZero DEF Looked

LEMMA LookedVoidExtra ==
  ASSUME NEW c \in Classes, NEW F \in Seq(Slot(c)), NEW G \in Seq(Slot(c)),
         NEW m \in Nat, NEW ch, Parallel(F, G, m, ch), HeldAlike(F, G, m, ch),
         Apart(c, F, c, F)
  PROVE  Looked(c, F, G, m, {})
<1> DEFINE N == Len(G)
           M == Len(F)
<1>1. /\ N \in Nat /\ M \in Nat /\ m <= M
      /\ (m = 0 => M = N) /\ (m # 0 => M = N + 1)
  BY DEF Parallel
<1>2. \A i \in 1..N : place(i, m) \in 1..M
  <2> HIDE DEF N, M
  <2> QED
    BY <1>1, Places
<1> SUFFICES ASSUME NEW i \in 1..N, ~G[i].cancelled
             PROVE  F[place(i, m)] = G[i]
  BY <1>2 DEF Looked
<1>3. CASE ~sameLesson(G[i], ch)
  BY <1>3 DEF Parallel
<1>4. CASE sameLesson(G[i], ch) /\ Kept(F, G, m, ch)
  BY <1>4 DEF Kept
<1>5. ASSUME sameLesson(G[i], ch), NEW g, Ghost(F, G, m, ch, g) PROVE FALSE
  <2> DEFINE b == place(i, m)
  <2>1. /\ g \in 1..M /\ b \in 1..M /\ b # g
        /\ ~F[g].cancelled /\ ~F[b].cancelled
        /\ sameLesson(F[g], ch) /\ sameLesson(F[b], ch)
    BY <1>2, <1>5 DEF Ghost, on, Parallel
  <2> HIDE DEF b
  <2>2. F[g] \in Slot(c) /\ F[b] \in Slot(c) /\ g \in DOMAIN F /\ b \in DOMAIN F
    BY <2>1
  <2>3. conflict(c, F[g], c, F[b])
    BY <2>1, <2>2, ConflictSame DEF sameLesson
  <2> QED
    BY <2>1, <2>2, <2>3 DEF Apart
<1> QED
  BY <1>3, <1>4, <1>5 DEF HeldAlike

LEMMA BookingCreateChange ==
  ASSUME Standing, RequestsFit, NoDoubleBooking, NEW m \in Managers, CreateChange(m)
  PROVE  NoDoubleBooking'
<1>1. PICK r : r = managing[m]
  OBVIOUS
<1>2. PICK c : c = r.class
  OBVIOUS
<1>3. PICK row : row = r.row
  OBVIOUS
<1> DEFINE id == Len(changes[c]) + 1
           ch == changeRow(row, id)
           list == Append(changes[c], ch)
<1>4. /\ ch \in StoredChange(c) /\ ~ch.voided /\ ch.id = id
      /\ ch.day = row.day /\ ch.type = row.type /\ row.day \in Days
      /\ changes[c] \in Seq(StoredChange(c))
      /\ changes'[c] = list /\ added(c, row) = list
      /\ \A d \in Classes \ {c} : changes'[d] = changes[d]
      /\ r # None /\ r.op = "change" /\ c \in Classes
  BY <1>1, <1>2, <1>3, CreatedChanges
<1>5. Fits(r)
  BY <1>1, <1>4, FitsNow DEF Standing
<1>6. versions' = versions /\ row.day \in SchoolDays[c]
  BY <1>2, <1>3, <1>4, <1>5 DEF CreateChange, Fits
<1>7. \A d \in Classes : \A day : entriesOn(d, day)' = entriesOn(d, day)
  BY <1>6, EntriesStay
<1>8. \A d \in Classes \ {c} : \A day : slotsOn(d, day)' = slotsOn(d, day)
  BY <1>4, <1>7, SlotsStay
<1>9. IF row.type = "cancel" THEN TRUE
      ELSE ~dayClashes(c, row.day, list,
                       {s \in held(slotsWith(c, row.day, list)) : s.change = id})
  <2>1. Len(list) = id
    BY <1>4
  <2>2. row.type # "cancel" => ~changeClashes(c, row)
    BY <1>2, <1>3, <1>4, <1>5 DEF Fits
  <2> HIDE DEF list, id
  <2> QED
    BY <1>4, <2>1, <2>2 DEF changeClashes
<1>10. ch.id = id /\ list = Append(changes[c], ch)
  BY <1>4
<1> HIDE DEF ch, id, list
<1>11. \A day \in Days : slotsOn(c, day)' \in Seq(Slot(c)) /\ slotsOn(c, day) \in Seq(Slot(c))
  <2>1. list \in Seq(StoredChange(c))
    BY <1>4, <1>10
  <2> QED
    BY <1>4, <1>7, <2>1, SlotsNextType, SlotsOnType DEF Standing
<1>12. ASSUME NEW day \in Days, day # row.day
      PROVE  slotsOn(c, day)' = slotsOn(c, day)
  <2>1. slotsOf(entriesOn(c, day), day, list) =
          slotsOf(entriesOn(c, day), day, changes[c])
    BY <1>4, <1>10, <1>12, OneMore DEF skipped
  <2> QED
    BY <1>4, <1>7, <2>1, SlotsNext, SlotsNow
<1> DEFINE F == slotsOn(c, row.day)
           G == slotsOn(c, row.day)'
<1>13. G = applyChange(F, ch) /\ G = slotsWith(c, row.day, list)
  <2>1. slotsOf(entriesOn(c, row.day), row.day, list) =
          applyChange(slotsOf(entriesOn(c, row.day), row.day, changes[c]), ch)
    BY <1>4, <1>10, OneMore DEF skipped
  <2> QED
    BY <1>4, <1>6, <1>7, <2>1, SlotsNext, SlotsNow, SlotsWith
<1>14. \E X : Looked(c, F, G, 0, X) /\ Checked(c, row.day, G, X)
  <2>1. F \in Seq(Slot(c)) /\ G \in Seq(Slot(c))
    BY <1>4, <1>11
  <2> HIDE DEF F, G
  <2>2. CASE row.type = "cancel"
    <3>1. Looked(c, F, applyChange(F, ch), 0, {})
      BY <1>4, <2>1, <2>2, LookedCreate
    <3> QED
      BY <1>13, <3>1, NothingChecked
  <2>3. CASE row.type # "cancel"
    <3> DEFINE new == {s \in held(G) : s.change = id}
               X == {i \in DOMAIN G : ~G[i].cancelled => G[i] \in new}
    <3>1. Checked(c, row.day, G, X)
      BY <1>9, <1>13, <2>3, NotClashing
    <3>2. \A i \in DOMAIN applyChange(F, ch) :
            ~applyChange(F, ch)[i].cancelled
              /\ applyChange(F, ch)[i].change = ch.id => i \in X
      BY <1>10, <1>13 DEF held
    <3> HIDE DEF X
    <3>3. Looked(c, F, applyChange(F, ch), 0, X)
      BY <1>4, <1>13, <2>1, <3>2, LookedCreate
    <3> QED
      BY <1>13, <3>1, <3>3
  <2> QED
    BY <2>2, <2>3
<1>15. ASSUME NEW a \in Classes, NEW b \in Classes
       PROVE  Apart(a, slotsOn(a, row.day)', b, slotsOn(b, row.day)')
  <2>1. PICK X : Looked(c, F, G, 0, X) /\ Checked(c, row.day, G, X)
    BY <1>14
  <2> QED
    BY <1>4, <1>8, <1>11, <2>1, BookingOneClass
<1>16. ASSUME NEW day \in Days, day # row.day, NEW a \in Classes, NEW b \in Classes
       PROVE  Apart(a, slotsOn(a, day)', b, slotsOn(b, day)')
  BY <1>8, <1>12, <1>16, BookingStays
<1>17. \A day \in Days : \A a, b \in Classes :
         Apart(a, slotsOn(a, day)', b, slotsOn(b, day)')
  BY <1>15, <1>16
<1> QED
  BY <1>17 DEF NoDoubleBooking, Apart

LEMMA BookingVoidChange ==
  ASSUME Standing, RequestsFit, NoDoubleBooking, NEW m \in Managers, VoidChange(m)
  PROVE  NoDoubleBooking'
<1>1. PICK r : r = managing[m]
  OBVIOUS
<1>2. PICK c : c = r.class
  OBVIOUS
<1>3. PICK n : n = r.change
  OBVIOUS
<1> DEFINE list == voidedAt(changes[c], n)
<1>4. PICK ch : ch = changes[c][n]
  OBVIOUS
<1>5. /\ changes[c] \in Seq(StoredChange(c)) /\ ch.day \in Days
      /\ list \in Seq(StoredChange(c)) /\ changes'[c] = list
      /\ \A d \in Classes \ {c} : changes'[d] = changes[d]
      /\ takenBack(c, n) = list
      /\ r # None /\ r.op = "void" /\ c \in Classes /\ n \in DOMAIN changes[c]
  BY <1>1, <1>2, <1>3, <1>4, VoidedChanges
<1>6. versions' = versions
  BY DEF VoidChange
<1>7. \A d \in Classes : \A day : entriesOn(d, day)' = entriesOn(d, day)
  BY <1>6, EntriesStay
<1>8. \A d \in Classes \ {c} : \A day : slotsOn(d, day)' = slotsOn(d, day)
  BY <1>5, <1>7, SlotsStay
<1>9. ch.type # "extra" =>
        ~dayClashes(c, ch.day, list,
                    {s \in held(slotsWith(c, ch.day, list)) : sameLesson(s, ch)})
  <2>1. Fits(r)
    BY <1>1, <1>5, FitsNow DEF Standing
  <2>2. ch.type # "extra" => ~voidClashes(c, n)
    BY <1>2, <1>3, <1>4, <1>5, <2>1 DEF Fits
  <2> HIDE DEF list
  <2> QED
    BY <1>4, <1>5, <2>2 DEF voidClashes
<1>10. \A day \in Days : slotsOn(c, day)' \in Seq(Slot(c)) /\ slotsOn(c, day) \in Seq(Slot(c))
  BY <1>5, <1>7, SlotsNextType, SlotsOnType DEF Standing
<1>11. \A day \in Days : Timetabled(c, entriesOn(c, day))
  BY <1>5, EntriesOfDay DEF Standing
<1>12. ASSUME NEW day \in Days, day # ch.day
      PROVE  slotsOn(c, day)' = slotsOn(c, day)
  <2>1. slotsOf(entriesOn(c, day), day, list) =
          slotsOf(entriesOn(c, day), day, changes[c])
    BY <1>4, <1>5, <1>11, <1>12, VoidOtherDay DEF skipped
  <2> HIDE DEF list
  <2> QED
    BY <1>5, <1>7, <2>1, SlotsNext, SlotsNow
<1> DEFINE F == slotsOn(c, ch.day)
           G == slotsOn(c, ch.day)'
           E == entriesOn(c, ch.day)
<1>13. /\ F \in Seq(Slot(c)) /\ G \in Seq(Slot(c)) /\ Apart(c, F, c, F)
      /\ G = slotsWith(c, ch.day, list)
  <2>1. G = slotsWith(c, ch.day, list)
    <3> HIDE DEF list
    <3> QED
      BY <1>5, <1>7, SlotsNext, SlotsWith
  <2> QED
    BY <1>5, <1>10, <2>1, BookingIsApart
<1>14. \E k \in Nat : \E X : Looked(c, F, G, k, X) /\ Checked(c, ch.day, G, X)
  <2>1. CASE ch.day \notin SchoolDays[c]
    <3>1. G = <<>>
      BY <2>1, <1>13, SlotsWith
    <3>2. Looked(c, F, G, 0, {})
      BY <3>1, EmptySlots DEF Looked
    <3> QED
      BY <3>2, NothingChecked
  <2>2. CASE ch.day \in SchoolDays[c]
    <3>1. /\ F = slotsOf(E, ch.day, changes[c]) /\ G = slotsOf(E, ch.day, list)
          /\ Timetabled(c, E)
      BY <1>5, <1>11, <1>13, <2>2, SlotsNow, SlotsWith
    <3>2. CASE ch.type = "extra"
      <4>1. PICK k \in Nat : Parallel(F, G, k, ch) /\ HeldAlike(F, G, k, ch)
        <5> HIDE DEF F, G, E
        <5> QED
          BY <1>4, <1>5, <3>1, <3>2, VoidExtra
      <4>2. Looked(c, F, G, k, {})
        <5> HIDE DEF F, G
        <5> QED
          BY <1>5, <1>13, <4>1, LookedVoidExtra
      <4> QED
        BY <4>2, NothingChecked
    <3>3. CASE ch.type # "extra"
      <4>1. Parallel(G, F, 0, ch)
        <5> HIDE DEF F, G, E
        <5> QED
          BY <1>4, <1>5, <3>1, <3>3, VoidChanged
      <4> DEFINE same == {s \in held(G) : sameLesson(s, ch)}
                 X == {i \in DOMAIN G : ~G[i].cancelled => G[i] \in same}
      <4>2. Checked(c, ch.day, G, X)
        <5> HIDE DEF F, G, list
        <5> QED
          BY <1>9, <1>13, <3>3, NotClashing
      <4>3. \A i \in DOMAIN G : ~G[i].cancelled /\ sameLesson(G[i], ch) => i \in X
        BY DEF held
      <4>4. Looked(c, F, G, 0, X)
        <5> HIDE DEF X, F, G
        <5> QED
          BY <1>5, <1>13, <4>1, <4>3, LookedVoid
      <4> QED
        BY <4>2, <4>4
    <3> QED
      BY <3>2, <3>3
  <2> QED
    BY <2>1, <2>2
<1>15. ASSUME NEW a \in Classes, NEW b \in Classes
       PROVE  Apart(a, slotsOn(a, ch.day)', b, slotsOn(b, ch.day)')
  <2>1. PICK k \in Nat : \E X : Looked(c, F, G, k, X) /\ Checked(c, ch.day, G, X)
    BY <1>14
  <2>2. PICK X : Looked(c, F, G, k, X) /\ Checked(c, ch.day, G, X)
    BY <2>1
  <2>3. ch.day \in Days
    BY <1>5
  <2> QED
    BY <1>5, <1>8, <1>10, <2>2, <2>3, BookingOneClass
<1>16. ASSUME NEW day \in Days, day # ch.day, NEW a \in Classes, NEW b \in Classes
       PROVE  Apart(a, slotsOn(a, day)', b, slotsOn(b, day)')
  BY <1>8, <1>12, <1>16, BookingStays
<1>17. \A day \in Days : \A a, b \in Classes :
         Apart(a, slotsOn(a, day)', b, slotsOn(b, day)')
  BY <1>15, <1>16
<1> QED
  BY <1>17 DEF NoDoubleBooking, Apart

LEMMA BookingStep ==
  ASSUME Standing, RequestsFit, NoDoubleBooking, Standing', PlansFit',
         [TimetableNext /\ PlansFirst]_timetableVars
  PROVE  NoDoubleBooking'
<1>1. ASSUME versions' = versions, changes' = changes
      PROVE  NoDoubleBooking'
  <2>1. \A day \in Days : \A c \in Classes : slotsOn(c, day)' = slotsOn(c, day)
    BY <1>1, EntriesStay, SlotsStay
  <2>2. \A day \in Days : \A c, d \in Classes :
          Apart(c, slotsOn(c, day)', d, slotsOn(d, day)')
    BY <2>1, BookingStays
  <2> QED
    BY <2>2 DEF NoDoubleBooking, Apart
<1>2. CASE Manager /\ PlansFirst
  <2>1. ASSUME NEW m, NEW id, CreateTimetable(m, id) \/ ReplaceEntries(m)
        PROVE  NoDoubleBooking'
    BY <1>2, <2>1, BookingTimetables DEF CreateTimetable, ReplaceEntries
  <2>2. ASSUME NEW m \in Managers, CreateChange(m) \/ VoidChange(m)
        PROVE  NoDoubleBooking'
    BY <2>2, BookingCreateChange, BookingVoidChange
  <2>3. ASSUME NEW m, NEW r, Prepare(m, r) PROVE NoDoubleBooking'
    BY <1>1, <2>3 DEF Prepare
  <2> QED
    BY <1>2, <2>1, <2>2, <2>3 DEF Manager, BeginCreateTimetable,
       BeginReplaceEntries, BeginCreateChange, BeginVoidChange
<1>3. CASE Teacher
  BY <1>1, <1>3 DEF Teacher, BeginSave, LockLesson, WriteMarks
<1>4. CASE NextSchoolDay \/ UNCHANGED timetableVars
  BY <1>1, <1>4 DEF NextSchoolDay, timetableVars
<1> QED
  BY <1>2, <1>3, <1>4 DEF TimetableNext

LEMMA BookingInit ==
  ASSUME TimetableInit
  PROVE  RequestsFit /\ PlansFit /\ NoDoubleBooking
<1>1. PlansFit
  BY DEF TimetableInit, PlansFit
<1>2. RequestsFit
  BY RowsAssumption DEF TimetableInit, RequestsFit
<1>3. ASSUME NEW c \in Classes, NEW day \in Days PROVE DOMAIN slotsOn(c, day) = {}
  <2>1. changes[c] = <<>> /\ versions[c] = {}
    BY DEF TimetableInit
  <2>6. changes[c] \in Seq(StoredChange(c)) /\ DOMAIN changes[c] = {}
    BY <2>1, EmptySlots
  <2>7. entriesOn(c, day) = {}
    BY <2>1 DEF entriesOn, versionOn
  <2>2. slotsOf({}, day, changes[c]) = planned({}, day)
    BY <2>6, AllSkipped
  <2>3. \A i \in DOMAIN planned({}, day) : \E e \in due({}, day) : TRUE
    BY NothingTimetabled, PlannedSlots DEF Timetabled
  <2>4. due({}, day) = {}
    BY DEF due
  <2>5. slotsOn(c, day) = planned({}, day) \/ slotsOn(c, day) = <<>>
    BY <2>2, <2>7, SlotsNow
  <2> QED
    BY <2>3, <2>4, <2>5, EmptySlots
<1>4. NoDoubleBooking
  BY <1>3 DEF NoDoubleBooking
<1> QED
  BY <1>1, <1>2, <1>4

-----------------------------------------------------------------------------
(* The theorems                                                            *)

LEMMA TimetableStanding == TimetableSpec => []Standing
BY StandingInit, StandingStep, PTL DEF TimetableSpec

(* Whatever versions of timetables are made, whatever is changed on single *)
(* days and recorded, by how many managers and teachers at once, the       *)
(* tables and the requests on their way hold rows.                         *)
THEOREM TimetableTypeCorrect == TimetableSpec => []TimetableTypeOK
<1>1. Standing => TimetableTypeOK
  BY DEF Standing
<1> QED
  BY <1>1, TimetableStanding, PTL

(* What teachers recorded in time stands (LessonsService.save, and the     *)
(* checks of managers' requests against recorded lessons), for every       *)
(* number of classes, changes, managers who check and write and requests   *)
(* that save at once.  The hypothesis is that no two managers make         *)
(* timetables for one class at the same time: the later one would end only *)
(* the version it read, and two versions then hold for a day.  A lesson    *)
(* committed while a request that takes it off was between its check and   *)
(* its write is late, and the theorem does not promise that it is held.    *)
THEOREM RecordedStands ==
  TimetableSpec /\ []OneTimetableAtOnce => []RecordsStand
<1> DEFINE Inv == Standing /\ Tiled /\ Spared /\ LocksHold /\ RecordsStand
<1>1. TimetableInit => Inv
  BY StandingInit, TiledInit, MarksInit
<1>2. Inv /\ OneTimetableAtOnce /\ [TimetableNext]_timetableVars => Inv'
  <2> SUFFICES ASSUME Standing, Tiled, Spared, LocksHold, RecordsStand,
                      OneTimetableAtOnce, [TimetableNext]_timetableVars
               PROVE  Inv'
    OBVIOUS
  <2>1. Standing' /\ Tiled' /\ Spared'
    BY StandingStep, TiledStep, SparedStep
  <2>2. LocksHold' /\ OneMarkPerLesson'
    BY MarksStep DEF RecordsStand
  <2>3. RecordedIsHeld'
    BY RecordedStep DEF RecordsStand
  <2> QED
    BY <2>1, <2>2, <2>3 DEF RecordsStand
<1>3. Inv => RecordsStand
  OBVIOUS
<1> QED
  BY <1>1, <1>2, <1>3, PTL DEF TimetableSpec

LEMMA TurnsAreOne == TakeTurns => OneTimetableAtOnce
BY DEF TakeTurns, OneTimetableAtOnce, writes

(* No teacher, room or pupil is needed in two places at once, under two    *)
(* hypotheses the code does not enforce: managers take turns, each writing *)
(* before the next one checks (two who check at once book a teacher        *)
(* twice), and nobody makes a timetable for days that have changes         *)
(* already.  This is for every set of entries, list of changes and bell    *)
(* schedule, although a change is compared with nothing but the lessons it *)
(* touches, and one that is taken back may move the changes made after it  *)
(* to other slots.                                                         *)
THEOREM NobodyBookedTwice ==
  TimetableSpec /\ []TakeTurns /\ [][PlansFirst]_timetableVars
    => []NoDoubleBooking
<1> DEFINE Inv == Standing /\ Tiled /\ RequestsFit /\ PlansFit /\ NoDoubleBooking
<1>1. TimetableInit => Inv
  BY StandingInit, TiledInit, BookingInit
<1>2. Inv /\ TakeTurns /\ [TimetableNext]_timetableVars
        /\ [PlansFirst]_timetableVars => Inv'
  <2> SUFFICES ASSUME Standing, Tiled, RequestsFit, PlansFit, NoDoubleBooking,
                      TakeTurns, [TimetableNext]_timetableVars,
                      [PlansFirst]_timetableVars
               PROVE  Inv'
    OBVIOUS
  <2>1. Standing' /\ Tiled'
    BY StandingStep, TiledStep, TurnsAreOne
  <2>2. RequestsFit'
    BY RequestsFitStep
  <2>3. PlansFit'
    BY PlansFitStep
  <2>4. [TimetableNext /\ PlansFirst]_timetableVars
    OBVIOUS
  <2>5. NoDoubleBooking'
    BY <2>1, <2>3, <2>4, BookingStep
  <2> QED
    BY <2>1, <2>2, <2>3, <2>5
<1>3. Inv => NoDoubleBooking
  OBVIOUS
<1> QED
  BY <1>1, <1>2, <1>3, PTL DEF TimetableSpec


=============================================================================
