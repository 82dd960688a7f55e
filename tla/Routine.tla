------------------------------ MODULE Routine ------------------------------
(***************************************************************************)
(* The routine of kindergarten groups (routine/): versions of a week, each *)
(* valid from a day on, and single days that replace what the version says.*)
(*                                                                         *)
(* Everything that writes locks the group first and reads afterwards, so   *)
(* it is one step, except a copy, which reads the other group before.      *)
(* What a version says is reduced to the weekdays it has items for.        *)
(***************************************************************************)
EXTENDS Nothing, Integers

CONSTANTS
  Kindergartens,  \* kindergarten groups
  LastRoutineDay, \* the last day there is
  WeekLength,     \* days of a week, the last of them free unless a day says so
  Contents,       \* what a version may say: sets of weekdays with items
  Copiers         \* copies in flight

RoutineDays == 1..LastRoutineDay

VersionRows == [to : 0..LastRoutineDay \cup {None}, items : Contents]

CopyRows == [group : Kindergartens, from : RoutineDays, items : Contents]

ASSUME RoutineAssumption ==
  /\ LastRoutineDay \in Nat
  /\ None \notin VersionRows \cup CopyRows \cup BOOLEAN \cup 0..LastRoutineDay

VARIABLES
  version,    \* group -> day it starts on -> [to, items], or None
  override,   \* group -> day -> whether the day has items of its own, or None
  holiday,    \* the days the calendar takes out
  copying     \* copy -> [group, from, items] it is about to insert, or None

routineVars == <<version, override, holiday, copying>>

-----------------------------------------------------------------------------
(* routine-calc.ts, on the versions of one group                           *)

starts(versions) == {d \in RoutineDays : versions[d] # None}

(* versionOn, as the days the version of a day starts on: one or none.     *)
versionOn(versions, day) ==
  {s \in starts(versions) :
     s <= day /\ (versions[s].to = None \/ day <= versions[s].to)}

next(versions, day) ==
  {s \in starts(versions) :
     s > day /\ \A r \in starts(versions) : r > day => s <= r}

previous(versions, day) ==
  {s \in starts(versions) :
     s < day /\ \A r \in starts(versions) : r < day => r <= s}

(* versionBounds and insertVersion: the version of the day is closed, and  *)
(* the new one lasts until the next begins.                                *)
insertVersion(versions, from, items) ==
  [d \in RoutineDays |->
     IF d = from
     THEN [to |-> IF next(versions, from) = {} THEN None
                  ELSE (CHOOSE s \in next(versions, from) : TRUE) - 1,
           items |-> items]
     ELSE IF d \in versionOn(versions, from)
     THEN [versions[d] EXCEPT !.to = from - 1]
     ELSE versions[d]]

(* Mutant of removeVersion: the days of the version are left without one.  *)
removeVersionOnly(versions, from) == [versions EXCEPT ![from] = None]

(* deleteTemplate: the version before it takes its days over.              *)
removeVersion(versions, from) ==
  [d \in RoutineDays |->
     IF d = from THEN None
     ELSE IF d \in previous(versions, from)
     THEN [versions[d] EXCEPT !.to = versions[from].to]
     ELSE versions[d]]

weekday(day) == ((day - 1) % WeekLength) + 1

working(day) == day \notin holiday /\ weekday(day) # WeekLength

(* resolveRoutine, of one day                                              *)
dayView(g, day) ==
  IF override[g][day] # None
  THEN [source |-> "override", items |-> override[g][day]]
  ELSE LET shown == {s \in versionOn(version[g], day) :
                       working(day) /\ weekday(day) \in version[g][s].items}
       IN [source |-> IF shown = {} THEN "none" ELSE "template",
           items |-> shown # {}]

-----------------------------------------------------------------------------
(* RoutineService                                                          *)

createTemplate(g, from, items) ==
  /\ version[g][from] = None
  /\ version' = [version EXCEPT ![g] = insertVersion(@, from, items)]
  /\ UNCHANGED <<override, holiday, copying>>

updateTemplate(g, from, items) ==
  /\ version[g][from] # None
  /\ version' = [version EXCEPT ![g][from].items = items]
  /\ UNCHANGED <<override, holiday, copying>>

deleteTemplate(g, from) ==
  /\ version[g][from] # None
  /\ version' = [version EXCEPT ![g] = removeVersion(@, from)]
  /\ UNCHANGED <<override, holiday, copying>>

(* copy: what the other group does on that day, not its single days.       *)
BeginCopy(t, g, source, from) ==
  /\ copying[t] = None /\ g # source
  /\ \E s \in versionOn(version[source], from) :
       copying' = [copying EXCEPT ![t] = [group |-> g, from |-> from,
                                items |-> version[source][s].items]]
  /\ UNCHANGED <<version, override, holiday>>

Copy(t) ==
  /\ copying[t] # None
  /\ version[copying[t].group][copying[t].from] = None
  /\ version' = [version EXCEPT ![copying[t].group] =
                   insertVersion(@, copying[t].from, copying[t].items)]
  /\ copying' = [copying EXCEPT ![t] = None]
  /\ UNCHANGED <<override, holiday>>

AbandonCopy(t) ==
  /\ copying[t] # None
  /\ copying' = [copying EXCEPT ![t] = None]
  /\ UNCHANGED <<version, override, holiday>>

saveDay(g, day, items) ==
  /\ override' = [override EXCEPT ![g][day] = items]
  /\ UNCHANGED <<version, holiday, copying>>

deleteDay(g, day) ==
  /\ override' = [override EXCEPT ![g][day] = None]
  /\ UNCHANGED <<version, holiday, copying>>

(* CalendarService.create and void                                         *)
changeCalendar(days) ==
  /\ holiday' = days
  /\ UNCHANGED <<version, override, copying>>

-----------------------------------------------------------------------------
RoutineInit ==
  /\ version = [g \in Kindergartens |-> [d \in RoutineDays |-> None]]
  /\ override = [g \in Kindergartens |-> [d \in RoutineDays |-> None]]
  /\ holiday = {}
  /\ copying = [t \in Copiers |-> None]

RoutineNext ==
  \/ \E g \in Kindergartens, d \in RoutineDays :
       \/ \E items \in Contents :
            createTemplate(g, d, items) \/ updateTemplate(g, d, items)
       \/ deleteTemplate(g, d)
       \/ \E items \in BOOLEAN : saveDay(g, d, items)
       \/ deleteDay(g, d)
       \/ \E t \in Copiers, source \in Kindergartens : BeginCopy(t, g, source, d)
  \/ \E t \in Copiers : Copy(t) \/ AbandonCopy(t)
  \/ \E days \in SUBSET RoutineDays : changeCalendar(days)

RoutineSpec == RoutineInit /\ [][RoutineNext]_routineVars

-----------------------------------------------------------------------------
(* The variables have their types.                                         *)
RoutineTypeOK ==
  /\ version \in [Kindergartens -> [RoutineDays -> VersionRows \cup {None}]]
  /\ override \in [Kindergartens -> [RoutineDays -> BOOLEAN \cup {None}]]
  /\ holiday \subseteq RoutineDays
  /\ copying \in [Copiers -> CopyRows \cup {None}]

(* The versions of a group follow each other without a gap and without an  *)
(* overlap: each lasts until the day before the next begins, and the last  *)
(* for ever.                                                               *)
VersionsTile ==
  \A g \in Kindergartens : \A s \in starts(version[g]) :
    LET to == version[g][s].to IN
    IF to = None THEN \A r \in starts(version[g]) : r <= s
    ELSE /\ s <= to
         /\ to + 1 \in starts(version[g])
         /\ \A r \in starts(version[g]) : r <= s \/ r > to

(* A version changes no day before it starts and none from the next one    *)
(* on, and deleting it brings back the routine there was, day for day.     *)
CreatingIsUndone ==
  \A g \in Kindergartens : \A d \in RoutineDays \ starts(version[g]) :
    \A items \in Contents :
      LET new == insertVersion(version[g], d, items) IN
      /\ \A e \in RoutineDays : e < d \/ (\E n \in next(version[g], d) : e >= n) =>
           versionOn(new, e) = versionOn(version[g], e)
      /\ removeVersion(new, d) = version[g]

(* Whatever order versions were created, copied and deleted in, each has   *)
(* the days up to the next, and the next change can be taken back.         *)
VersionsFollow == VersionsTile /\ CreatingIsUndone

=============================================================================
