----------------------------- MODULE Timetable -----------------------------
(***************************************************************************)
(* The timetable of the school classes (timetable/): versions of a weekly  *)
(* timetable, changes of single days (a lesson cancelled, replaced or      *)
(* added), and the lessons the teachers record.  The lessons of a day are  *)
(* not stored: they are computed from the version of the day and from the  *)
(* changes that are not voided, in the order they were made.               *)
(*                                                                         *)
(* A manager's request reads and checks, and writes later, with no lock    *)
(* and nothing asked again: BeginX and X are two actions, with teachers    *)
(* and other managers in between.  A teacher's save takes locks and is     *)
(* three actions; others see its lesson and marks when it commits.         *)
(***************************************************************************)
EXTENDS Nothing, Integers, Sequences, FiniteSets

SeqsExt == INSTANCE SequencesExt

CONSTANTS
  Classes,
  Teachers,
  Rooms,
  LastDay,       \* the last day there is
  Week,          \* day -> [weekday, parity] of a day
  SchoolDays,    \* class -> its working days
  Bell,          \* class -> period -> [start, end] of its bell schedule
  Members,       \* subgroup -> its children
  Pupils,        \* class -> its children
  Plans,         \* sets of entries a version is saved with, per class
  ChangeRows,    \* changes a manager may ask for
  MaxChanges,
  Statuses,      \* marks: present, absent, late
  TimetableIds,
  Managers,      \* managers' requests in flight
  Savers         \* teachers' requests in flight

Days == 1..LastDay
Subgroups == DOMAIN Members \cup {None}
Periods == UNION {DOMAIN Bell[c] : c \in Classes}
Parities == {"every", "odd", "even"}

(* The rows of a request that passed its checks: validateEntries and       *)
(* validateRefs.                                                           *)
EntryRow(c) ==
  [weekday: 1..7, parity: Parities, period: DOMAIN Bell[c],
   subgroup: Subgroups, teacher: Teachers, room: Rooms \cup {None}]

ChangeRow(c) ==
  {row \in [day: Days, period: DOMAIN Bell[c], subgroup: Subgroups,
            type: {"cancel", "replace", "extra"},
            teacher: Teachers \cup {None}, room: Rooms \cup {None}] :
     row.type = "extra" => row.teacher # None}

VersionRow(c) ==
  [id: TimetableIds, from: Days, to: Days \cup {None}, entries: Plans[c]]

StoredChange(c) ==
  {ch \in [day: Days, period: DOMAIN Bell[c], subgroup: Subgroups,
           type: {"cancel", "replace", "extra"},
           teacher: Teachers \cup {None}, room: Rooms \cup {None},
           id: 1..MaxChanges, voided: BOOLEAN] :
     ch.type = "extra" => ch.teacher # None}

(* What a manager's request has read and checked, and is going to write.   *)
TimetableRequest(c) ==
  [op: {"timetable"}, class: {c}, from: Days, entries: Plans[c],
   previous: VersionRow(c) \cup {None}]

EntriesRequest(c) ==
  [op: {"entries"}, class: {c}, version: VersionRow(c), entries: Plans[c]]

ChangeRequest(c) == [op: {"change"}, class: {c}, row: ChangeRows[c]]

VoidRequest(c) == [op: {"void"}, class: {c}, change: 1..MaxChanges]

RequestRow ==
  UNION {TimetableRequest(c) \cup EntriesRequest(c) \cup ChangeRequest(c)
           \cup VoidRequest(c) : c \in Classes}

LessonKey ==
  [class: Classes, day: Days, period: Periods, subgroup: Subgroups]

LessonRow ==
  [class: Classes, day: Days, period: Periods, subgroup: Subgroups,
   teacher: Teachers, late: BOOLEAN]

(* The marks of a request: none, if it says what the lesson was about.     *)
Wishes(c) == UNION {[ks -> Statuses] : ks \in SUBSET Pupils[c]}

MarkRow ==
  [lesson: LessonKey, child: UNION {Pupils[c] : c \in Classes},
   status: Statuses, by: Savers]

SaveRow ==
  [lesson: LessonRow, wanted: UNION {Wishes(c) : c \in Classes},
   locked: BOOLEAN, seen: SUBSET MarkRow]

(* checkBellPeriods has every lesson end after it starts.                  *)
ASSUME BellAssumption ==
  \A c \in Classes : \A p \in DOMAIN Bell[c] :
    Bell[c][p] \in [start: Nat, end: Nat] /\ Bell[c][p].start < Bell[c][p].end

ASSUME TimetableAssumption ==
  /\ LastDay \in Nat \ {0} /\ MaxChanges \in Nat
  /\ Week \in [Days -> [weekday: 1..7, parity: {"odd", "even"}]]
  /\ SchoolDays \in [Classes -> SUBSET Days]
  /\ None \notin Int \cup DOMAIN Members \cup Teachers \cup Rooms

ASSUME RowsAssumption ==
  /\ None \notin SaveRow \cup RequestRow
  /\ \A c \in Classes : None \notin VersionRow(c)

ASSUME RequestsAssumption ==
  \A c \in Classes :
    /\ Plans[c] \subseteq SUBSET EntryRow(c)
    /\ \A entries \in Plans[c] : IsFiniteSet(entries)
    /\ ChangeRows[c] \subseteq ChangeRow(c)

VARIABLES
  today,
  versions,   \* class -> set of [id, from, to, entries]
  changes,    \* class -> sequence of LessonChange rows
  lessons,    \* recorded lessons: [class, day, period, subgroup, teacher,
              \* late]; late is an auxiliary component, see inTime
  marks,      \* standing marks: [lesson, child, status, by]
  managing,   \* manager -> the request that was checked and is still to
              \* be written, or None
  save        \* saver -> the request it is in the middle of, or None

timetableVars == <<today, versions, changes, lessons, marks, managing, save>>

-----------------------------------------------------------------------------
(* schedule-calc.ts, ScheduleService.build                                 *)

versionOn(c, day) ==
  {v \in versions[c] : v.from <= day /\ (v.to = None \/ day <= v.to)}

parityMatches(parity, day) == parity \in {"every", Week[day].parity}

slot(e, change) ==
  [period |-> e.period, subgroup |-> e.subgroup, teacher |-> e.teacher,
   room |-> e.room, change |-> change, cancelled |-> FALSE]

(* The code takes the first version it comes upon.  A day can have two if  *)
(* two managers made timetables for the class at once.                     *)
entriesOn(c, day) ==
  IF versionOn(c, day) = {} THEN {}
  ELSE (CHOOSE v \in versionOn(c, day) : TRUE).entries

(* The slots the timetable gives for the day.                              *)
planned(entries, day) ==
  LET due == {e \in entries : /\ e.weekday = Week[day].weekday
                              /\ parityMatches(e.parity, day)}
  IN SeqsExt!SetToSeq({slot(e, None) : e \in due})

heldAt(slots, period, subgroup) ==
  {i \in DOMAIN slots : /\ ~slots[i].cancelled
                        /\ slots[i].period = period
                        /\ slots[i].subgroup = subgroup}

changedSlot(s, ch) ==
  LET given(new, old) == IF new = None THEN old ELSE new
  IN IF ch.type = "cancel"
     THEN [s EXCEPT !.cancelled = TRUE, !.change = ch.id]
     ELSE [s EXCEPT !.teacher = given(ch.teacher, @),
                    !.room = given(ch.room, @), !.change = ch.id]

(* A change applies to the first slot of its period and subgroup that is   *)
(* not cancelled; an added lesson is a slot of its own.                    *)
applyChange(slots, ch) ==
  LET hit    == heldAt(slots, ch.period, ch.subgroup)
      target == CHOOSE i \in hit : \A j \in hit : i <= j
  IN IF ch.type = "extra" THEN Append(slots, slot(ch, ch.id))
     ELSE IF hit = {} THEN slots
     ELSE [slots EXCEPT ![target] = changedSlot(@, ch)]

(* The loop over the changes of a class: after[n] are the slots once the   *)
(* first n of them are applied.                                            *)
slotsForDay(day, working, entries, list) ==
  LET after[n \in 0..Len(list)] ==
        IF n = 0 THEN planned(entries, day)
        ELSE IF list[n].voided \/ list[n].day # day THEN after[n - 1]
        ELSE applyChange(after[n - 1], list[n])
  IN IF working THEN after[Len(list)] ELSE <<>>

(* The slots of a class if these were its changes.                         *)
slotsWith(c, day, list) ==
  slotsForDay(day, day \in SchoolDays[c], entriesOn(c, day), list)

slotsOn(c, day) == slotsWith(c, day, changes[c])

held(slots) == {slots[i] : i \in {j \in DOMAIN slots : ~slots[j].cancelled}}

-----------------------------------------------------------------------------
(* findConflicts                                                           *)

during(c, period) == Bell[c][period]

overlap(a, b) == a.start < b.end /\ b.start < a.end

(* Two lessons at one time that cannot both be given: of one class, unless *)
(* in subgroups without a common child; of one teacher; in one room.       *)
conflictKind(c, s, d, t) ==
  \/ c = d /\ (None \in {s.subgroup, t.subgroup} \/ s.subgroup = t.subgroup)
  \/ c = d /\ Members[s.subgroup] \cap Members[t.subgroup] # {}
  \/ s.teacher = t.teacher
  \/ s.room # None /\ s.room = t.room

conflict(c, s, d, t) ==
  /\ overlap(during(c, s.period), during(d, t.period))
  /\ conflictKind(c, s, d, t)

parityOverlap(p, q) == "every" \in {p, q} \/ p = q

(* Entries of weekly timetables, of which at least one is new.             *)
entriesClash(c, e, d, f) ==
  e.weekday = f.weekday /\ parityOverlap(e.parity, f.parity) /\ conflict(c, e, d, f)

spanOverlaps(v, from, to) ==
  (to = None \/ v.from <= to) /\ (v.to = None \/ v.to >= from)

planClashes(c, entries, from, to) ==
  \/ \E e, f \in entries : e # f /\ entriesClash(c, e, c, f)
  \/ \E d \in Classes \ {c} : \E v \in versions[d] :
       /\ spanOverlaps(v, from, to)
       /\ \E e \in entries : \E f \in v.entries : entriesClash(c, e, d, f)

(* Mutant of dayClashes: the lessons of other classes are not looked at.   *)
dayClashesAtHome(c, day, list, new) ==
  LET own == slotsWith(c, day, list)
      on  == {i \in DOMAIN own : ~own[i].cancelled}
  IN \E i \in on : own[i] \in new /\
       \E j \in on \ {i} : conflict(c, own[i], c, own[j])

(* Whether, with these changes of the class, one of the slots given        *)
(* clashes with another lesson of the day.                                 *)
dayClashes(c, day, list, new) ==
  LET own == slotsWith(c, day, list)
      on  == {i \in DOMAIN own : ~own[i].cancelled}
  IN \E i \in on : own[i] \in new /\
       \/ \E j \in on \ {i} : conflict(c, own[i], c, own[j])
       \/ \E d \in Classes \ {c} : \E t \in held(slotsOn(d, day)) :
            conflict(c, own[i], d, t)

-----------------------------------------------------------------------------
(* The request of manager m passes its checks with r to write ...          *)
Prepare(m, r) ==
  /\ managing[m] = None
  /\ managing' = [managing EXCEPT ![m] = r]
  /\ UNCHANGED <<today, versions, changes, lessons, marks, save>>

(* ... and has written it.                                                 *)
Done(m) == managing' = [managing EXCEPT ![m] = None]

writes(m, op) == managing[m] # None /\ managing[m].op = op

-----------------------------------------------------------------------------
(* TimetablesService                                                       *)

recordedFrom(c, day) == \E l \in lessons : l.class = c /\ l.day >= day

lastVersions(c) ==
  IF versions[c] = {} THEN {None}
  ELSE {v \in versions[c] : \A u \in versions[c] : u.from <= v.from}

BeginCreateTimetable(m, c, from, entries) ==
  /\ \A v \in versions[c] : v.from < from
  /\ ~recordedFrom(c, from)
  /\ ~planClashes(c, entries, from, None)
  /\ \E v \in lastVersions(c) :
       Prepare(m, [op |-> "timetable", class |-> c, from |-> from,
                   entries |-> entries, previous |-> v])

(* The version that was the last when it was read ends the day before.     *)
CreateTimetable(m, id) ==
  /\ writes(m, "timetable")
  /\ LET r == managing[m]
         ends(v) == /\ r.previous # None /\ v.id = r.previous.id
                    /\ r.previous.to = None \/ r.previous.to >= r.from
     IN /\ \A v \in versions[r.class] : v.id # id
        /\ versions' = [versions EXCEPT ![r.class] =
             {IF ends(v) THEN [v EXCEPT !.to = r.from - 1] ELSE v : v \in @}
               \cup {[id |-> id, from |-> r.from, to |-> None,
                      entries |-> r.entries]}]
  /\ Done(m)
  /\ UNCHANGED <<today, changes, lessons, marks, save>>

BeginReplaceEntries(m, c, v, entries) ==
  /\ v.from > today
  /\ ~planClashes(c, entries, v.from, v.to)
  /\ Prepare(m, [op |-> "entries", class |-> c, version |-> v,
                 entries |-> entries])

ReplaceEntries(m) ==
  /\ writes(m, "entries")
  /\ LET r == managing[m]
     IN versions' = [versions EXCEPT ![r.class] =
          {IF v.id = r.version.id THEN [v EXCEPT !.entries = r.entries]
           ELSE v : v \in @}]
  /\ Done(m)
  /\ UNCHANGED <<today, changes, lessons, marks, save>>

-----------------------------------------------------------------------------
(* LessonChangesService                                                    *)

(* A change is of the lesson of its day, period and subgroup.              *)
isOf(ch, l) ==
  l.day = ch.day /\ l.period = ch.period /\ l.subgroup = ch.subgroup

(* Mutant of recorded: only the lessons of days before are looked for.     *)
recordedBefore(c, ch) ==
  \E l \in lessons : /\ l.class = c /\ l.day < ch.day
                     /\ l.period = ch.period /\ l.subgroup = ch.subgroup

recorded(c, ch) == \E l \in lessons : l.class = c /\ isOf(ch, l)

sameLesson(s, ch) == s.period = ch.period /\ s.subgroup = ch.subgroup

changeRow(row, id) ==
  [day |-> row.day, period |-> row.period, subgroup |-> row.subgroup,
   type |-> row.type, teacher |-> row.teacher, room |-> row.room,
   id |-> id, voided |-> FALSE]

(* The changes of a class with one more, and with one taken back.          *)
added(c, row) == Append(changes[c], changeRow(row, Len(changes[c]) + 1))

takenBack(c, n) == [changes[c] EXCEPT ![n].voided = TRUE]

(* A replaced or an added lesson is checked for clashes as it would be.    *)
changeClashes(c, row) ==
  LET list == added(c, row)
  IN dayClashes(c, row.day, list,
       {s \in held(slotsWith(c, row.day, list)) : s.change = Len(list)})

voidClashes(c, n) ==
  LET ch   == changes[c][n]
      list == takenBack(c, n)
  IN dayClashes(c, ch.day, list,
       {s \in held(slotsWith(c, ch.day, list)) : sameLesson(s, ch)})

BeginCreateChange(m, c, row) ==
  /\ Len(changes[c]) < MaxChanges
  /\ row.day \in SchoolDays[c]
  /\ row.type = "extra" \/ \E s \in held(slotsOn(c, row.day)) : sameLesson(s, row)
  /\ IF row.type = "cancel" THEN ~recorded(c, row) ELSE ~changeClashes(c, row)
  /\ Prepare(m, [op |-> "change", class |-> c, row |-> row])

CreateChange(m) ==
  /\ writes(m, "change")
  /\ LET r == managing[m]
     IN /\ Len(changes[r.class]) < MaxChanges
        /\ changes' = [changes EXCEPT ![r.class] = added(r.class, r.row)]
  /\ Done(m)
  /\ UNCHANGED <<today, versions, lessons, marks, save>>

BeginVoidChange(m, c, n) ==
  /\ ~changes[c][n].voided
  /\ changes[c][n].type # "cancel" => ~recorded(c, changes[c][n])
  /\ changes[c][n].type # "extra" => ~voidClashes(c, n)
  /\ Prepare(m, [op |-> "void", class |-> c, change |-> n])

VoidChange(m) ==
  /\ writes(m, "void")
  /\ LET r == managing[m]
     IN changes' = [changes EXCEPT ![r.class] = takenBack(r.class, r.change)]
  /\ Done(m)
  /\ UNCHANGED <<today, versions, lessons, marks, save>>

-----------------------------------------------------------------------------
(* LessonsService.save                                                     *)

lessonOf(l) ==
  [class |-> l.class, day |-> l.day, period |-> l.period,
   subgroup |-> l.subgroup]

isHeld(l) ==
  \E s \in held(slotsOn(l.class, l.day)) :
    s.period = l.period /\ s.subgroup = l.subgroup

pupilIds(c, s) ==
  IF s.subgroup = None THEN Pupils[c]
  ELSE Members[s.subgroup] \cap Pupils[c]

(* The request finds the slot of its lesson, today or before.              *)
BeginSave(w, c, day, s, wanted) ==
  /\ save[w] = None
  /\ day <= today
  /\ s \in held(slotsOn(c, day))
  /\ DOMAIN wanted \subseteq pupilIds(c, s)
  /\ save' = [save EXCEPT ![w] =
       [lesson |-> [class |-> c, day |-> day, period |-> s.period,
                    subgroup |-> s.subgroup, teacher |-> s.teacher,
                    late |-> FALSE],
        wanted |-> wanted, locked |-> FALSE, seen |-> {}]]
  /\ UNCHANGED <<today, versions, changes, lessons, marks, managing>>

sameRow(l, m) == lessonOf(l) = lessonOf(m)

holdsLesson(w, l) ==
  save[w] # None /\ save[w].locked /\ sameRow(save[w].lesson, l)

holdsChild(w, k) ==
  save[w] # None /\ save[w].locked /\ k \in DOMAIN save[w].wanted

(* The lesson is inserted, unless it is there, and locked with the         *)
(* children, and its standing marks are read.  Nobody else sees the row    *)
(* before it is committed, but who inserts the same lesson waits for it.   *)
LockLesson(w) ==
  /\ save[w] # None /\ ~save[w].locked
  /\ \A u \in Savers \ {w} :
       /\ ~holdsLesson(u, save[w].lesson)
       /\ \A k \in DOMAIN save[w].wanted : ~holdsChild(u, k)
  /\ save' = [save EXCEPT ![w].locked = TRUE,
                ![w].seen = {m \in marks : /\ m.lesson = lessonOf(save[w].lesson)
                                           /\ m.child \in DOMAIN save[w].wanted}]
  /\ UNCHANGED <<today, versions, changes, lessons, marks, managing>>

(* A request on its way that would take the lesson off the timetable, or   *)
(* might, and found it not recorded, or its day still to come.             *)
endangers(r, l) ==
  /\ r.class = l.class
  /\ \/ r.op = "timetable" /\ l.day >= r.from
     \/ r.op = "entries" /\ l.day >= r.version.from
     \/ r.op = "change" /\ r.row.type = "cancel" /\ isOf(r.row, l)
     \/ r.op = "void" /\ LET ch == changes[r.class][r.change]
                         IN ch.type # "cancel" /\ isOf(ch, l)

(* Whether a lesson is on the timetable, and about to stay: what the code  *)
(* does not ask again when it commits the lesson.                          *)
inTime(l) ==
  /\ isHeld(l)
  /\ \A m \in Managers : managing[m] # None => ~endangers(managing[m], l)

(* A mark that says what is asked for already stands; another is voided    *)
(* and a new one put in its place.                                         *)
WriteMarks(w) ==
  /\ save[w] # None /\ save[w].locked
  /\ LET s == save[w]
         kept == {k \in DOMAIN s.wanted :
                    \E m \in s.seen : m.child = k /\ m.status = s.wanted[k]}
         new  == DOMAIN s.wanted \ kept
     IN /\ lessons' = IF \E l \in lessons : sameRow(l, s.lesson) THEN lessons
                      ELSE lessons \cup {[s.lesson EXCEPT !.late = ~inTime(s.lesson)]}
        /\ marks' = {m \in marks : ~(m \in s.seen /\ m.child \in new)}
             \cup {[lesson |-> lessonOf(s.lesson), child |-> k,
                    status |-> s.wanted[k], by |-> w] : k \in new}
  /\ save' = [save EXCEPT ![w] = None]
  /\ UNCHANGED <<today, versions, changes, managing>>

NextSchoolDay ==
  /\ today < LastDay
  /\ today' = today + 1
  /\ UNCHANGED <<versions, changes, lessons, marks, managing, save>>

-----------------------------------------------------------------------------
TimetableInit ==
  /\ today = 1
  /\ versions = [c \in Classes |-> {}]
  /\ changes = [c \in Classes |-> <<>>]
  /\ lessons = {} /\ marks = {}
  /\ managing = [m \in Managers |-> None]
  /\ save = [w \in Savers |-> None]

Manager ==
  \E m \in Managers :
    \/ \E c \in Classes :
         \/ \E day \in Days : \E p \in Plans[c] : BeginCreateTimetable(m, c, day, p)
         \/ \E v \in versions[c] : \E p \in Plans[c] : BeginReplaceEntries(m, c, v, p)
         \/ \E row \in ChangeRows[c] : BeginCreateChange(m, c, row)
         \/ \E n \in DOMAIN changes[c] : BeginVoidChange(m, c, n)
    \/ \E id \in TimetableIds : CreateTimetable(m, id)
    \/ ReplaceEntries(m)
    \/ CreateChange(m)
    \/ VoidChange(m)

Teacher ==
  \E w \in Savers :
    \/ \E c \in Classes : \E day \in Days : \E s \in held(slotsOn(c, day)) :
         \E wanted \in Wishes(c) : BeginSave(w, c, day, s, wanted)
    \/ LockLesson(w)
    \/ WriteMarks(w)

TimetableNext == Manager \/ Teacher \/ NextSchoolDay

TimetableSpec == TimetableInit /\ [][TimetableNext]_timetableVars

(* What managers may promise one another: to write before the next checks, *)
(* or no more than not to make two timetables for a class at once.         *)
TakeTurns ==
  \A m, n \in Managers : managing[m] # None /\ managing[n] # None => m = n

OneTimetableAtOnce ==
  \A m, n \in Managers :
    /\ writes(m, "timetable") /\ writes(n, "timetable")
    /\ managing[m].class = managing[n].class
    => m = n

-----------------------------------------------------------------------------
TimetableTypeOK ==
  /\ today \in Days
  /\ versions = [c \in Classes |-> versions[c]]
  /\ \A c \in Classes : versions[c] \subseteq VersionRow(c)
  /\ changes = [c \in Classes |-> changes[c]]
  /\ \A c \in Classes : /\ changes[c] \in Seq(StoredChange(c))
                         /\ Len(changes[c]) <= MaxChanges
  /\ lessons \subseteq LessonRow
  /\ marks \subseteq MarkRow
  /\ managing \in [Managers -> RequestRow \cup {None}]
  /\ save \in [Savers -> SaveRow \cup {None}]

(* Whatever lessons are cancelled, replaced and added, and whatever of it  *)
(* is taken back, nobody is needed in two places at once: no two lessons   *)
(* of a day that are held clash.  This is for managers who take turns      *)
(* (TakeTurns): two who check at the same time and then write book a       *)
(* teacher twice, since nothing is locked or checked again.                *)
NoDoubleBooking ==
  \A day \in Days : \A c, d \in Classes :
    LET cs == slotsOn(c, day)
        ds == slotsOn(d, day)
    IN \A i \in DOMAIN cs : \A j \in DOMAIN ds :
         (<<c, i>> # <<d, j>> /\ ~cs[i].cancelled /\ ~ds[j].cancelled) =>
           ~conflict(c, cs[i], d, ds[j])

(* A lesson recorded while it was on the timetable, and while no manager   *)
(* was between the check and the write of a request that takes it off,     *)
(* stays on the timetable whatever managers do afterwards.  A lesson       *)
(* recorded in that gap is late: a cancel that found nothing recorded is   *)
(* written all the same, and the lesson is off the timetable.              *)
RecordedIsHeld == \A l \in lessons : l.late \/ isHeld(l)

(* Two teachers who save the same lesson at the same time leave one mark   *)
(* for a child.                                                            *)
OneMarkPerLesson ==
  \A m, n \in marks : m.lesson = n.lesson /\ m.child = n.child => m = n

(* What teachers recorded in time stands: the lesson stays on the          *)
(* timetable, and no child is marked twice in it.  Managers may check and  *)
(* write at the same time, as long as no two of them make timetables for   *)
(* one class (OneTimetableAtOnce).                                         *)
RecordsStand == RecordedIsHeld /\ OneMarkPerLesson

=============================================================================
