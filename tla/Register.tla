------------------------------ MODULE Register ------------------------------
(***************************************************************************)
(* The register of who came (attendance/): the calendar of working days,   *)
(* the marks teachers save, the approved notices of absence, and the views *)
(* that join the three.                                                    *)
(*                                                                         *)
(* A save checks the day and the group first, then locks the children, and *)
(* voids and replaces what it finds.  Nothing in the database forbids two  *)
(* marks of a child on a day: only the lock does.                          *)
(***************************************************************************)
EXTENDS School, FiniteSets

CONSTANTS
  Groups,
  Kind, Institution,   \* of a group
  LastDay,             \* the last day there is
  Weekend,             \* the days off when the calendar says nothing
  Reasons,             \* of absence
  CalendarRows,        \* entries the calendar may hold
  NoticeRows,          \* notices of absence that may be approved
  Marks,               \* identities of marks
  Savers,              \* requests in flight ...
  Managers             \* ... and those of people who manage the register

Dates == 1..LastDay

(* late and left_early count as present; the note and the document of an   *)
(* absence are left out.                                                   *)
Markings ==
  {m \in [status : {"present", "absent"}, reason : Reasons \cup {None}] :
     m.status = "present" => m.reason = None}

MarkRows ==
  [child : Children, group : Groups, date : Dates, marking : Markings,
   voided : BOOLEAN]

(* A save: what it has locked, and the marks it has found then.            *)
MarksSaving ==
  [op : {"marks"}, group : Groups, date : Dates,
   wanted : UNION {[some -> Markings] : some \in (SUBSET Children) \ {{}}},
   locked : SUBSET Children, active : SUBSET Marks]

ASSUME RegisterAssumption ==
  /\ LastDay \in Nat \ {0}
  /\ None \notin Groups /\ None \notin MarkRows /\ None \notin MarksSaving

VARIABLES
  today,
  editDays,   \* how long a teacher may correct a day
  member,     \* child -> its group
  calendar,   \* entries in force
  notices,    \* approved notices
  inactive,   \* reasons no longer offered
  mark,       \* mark -> its row, or None
  saving      \* request -> what it has read and locked, or None

registerVars ==
  <<today, editDays, member, calendar, notices, inactive, mark, saving>>

Covers(row, d) == row.from <= d /\ d <= row.to

-----------------------------------------------------------------------------
(* register-calc.ts.  g is None for a child without a group.               *)

level(e, g) ==
  CASE e.scope = "all" -> 1
    [] e.scope = "kind" /\ g # None -> IF Kind[g] = e.of THEN 2 ELSE 0
    [] e.scope = "institution" /\ g # None ->
         IF Institution[g] = e.of THEN 3 ELSE 0
    [] e.scope = "group" -> IF g = e.of THEN 4 ELSE 0
    [] OTHER -> 0

(* The closest entry decides; of equally close ones, a day off.            *)
working(d, g) ==
  LET found == {e \in calendar : Covers(e, d) /\ level(e, g) > 0}
      best == {e \in found : \A f \in found : level(f, g) <= level(e, g)}
  IN IF best = {} THEN d \notin Weekend
     ELSE \A e \in best : e.type = "working"

activeMarks(c, d) ==
  {m \in Marks : mark[m] # None /\ ~mark[m].voided
                 /\ mark[m].child = c /\ mark[m].date = d}

noticesOf(c, d) == {n \in notices : n.child = c /\ Covers(n, d)}

(* Mutant of resolveDay: a day off goes before a mark.                     *)
resolveDayOff(c, d, works) ==
  IF ~works THEN "non_working"
  ELSE IF activeMarks(c, d) # {}
  THEN mark[CHOOSE m \in activeMarks(c, d) : TRUE].marking.status
  ELSE IF noticesOf(c, d) # {} THEN "expected_absent"
  ELSE "unmarked"

(* A mark goes before a day off, and a day off before a notice.            *)
resolveDay(c, d, works) ==
  IF activeMarks(c, d) # {}
  THEN mark[CHOOSE m \in activeMarks(c, d) : TRUE].marking.status
  ELSE IF ~works THEN "non_working"
  ELSE IF noticesOf(c, d) # {} THEN "expected_absent"
  ELSE "unmarked"

summarizeDays(states) ==
  [s \in {"present", "absent", "expected_absent", "unmarked"} |->
     Cardinality({d \in DOMAIN states : states[d] = s})]

-----------------------------------------------------------------------------
(* RegisterService.childrenOf, day, month, childDays, expectedPresence     *)

childrenOf(g, from, to) ==
  {c \in Children :
     \/ member[c] = g
     \/ \E d \in from..to : \E m \in activeMarks(c, d) : mark[m].group = g}

day(g, d) == [c \in childrenOf(g, d, d) |-> resolveDay(c, d, working(d, g))]

month(g) ==
  [c \in childrenOf(g, 1, LastDay) |->
     summarizeDays([d \in 1..today |-> resolveDay(c, d, working(d, g))])]

(* The group a child was marked in on the day, or else the one it is in.   *)
groupOn(c, d) ==
  IF activeMarks(c, d) # {}
  THEN mark[CHOOSE m \in activeMarks(c, d) : TRUE].group
  ELSE member[c]

childDays(c) ==
  [d \in Dates |-> resolveDay(c, d, working(d, groupOn(c, d)))]

expectedPresence ==
  {p \in Children \X Dates :
     groupOn(p[1], p[2]) # None
       /\ childDays(p[1])[p[2]] \in {"present", "unmarked"}}

-----------------------------------------------------------------------------
(* RegisterService.save                                                    *)

inWindow(d) == d >= today - editDays

(* A reason that is no longer offered may stay where it already is.        *)
reasonAllowed(c, d, marking) ==
  \/ marking.reason \notin inactive
  \/ \E m \in activeMarks(c, d) : mark[m].marking.reason = marking.reason

BeginMarks(t, g, d, wanted) ==
  /\ saving[t] = None
  /\ d <= today
  /\ working(d, g)
  /\ inWindow(d) \/ t \in Managers
  /\ \A c \in DOMAIN wanted : reasonAllowed(c, d, wanted[c])
  /\ DOMAIN wanted \subseteq childrenOf(g, d, d)
  /\ saving' = [saving EXCEPT ![t] =
       [op |-> "marks", group |-> g, date |-> d, wanted |-> wanted,
        locked |-> {}, active |-> {}]]
  /\ UNCHANGED <<today, editDays, member, calendar, notices, inactive, mark>>

(* Mutant of lockedByOther: only notes that are being saved are waited     *)
(* for.                                                                    *)
lockedByNotes(t, c) ==
  \E u \in Savers \ {t} : saving[u] # None /\ saving[u].op = "notes" /\ c \in saving[u].locked

lockedByOther(t, c) ==
  \E u \in Savers \ {t} : saving[u] # None /\ c \in saving[u].locked

(* Children are locked in the order of their identities, so that two saves *)
(* never wait for each other; then the marks of the day are read.          *)
LockMarked(t) ==
  /\ saving[t] # None /\ saving[t].op = "marks" /\ saving[t].locked = {}
  /\ LET children == DOMAIN saving[t].wanted IN
     /\ \A c \in children : ~lockedByOther(t, c)
     /\ saving' = [saving EXCEPT ![t].locked = children,
                         ![t].active =
                            UNION {activeMarks(c, saving[t].date) : c \in children}]
  /\ UNCHANGED <<today, editDays, member, calendar, notices, inactive, mark>>

(* What is wanted and not there yet replaces what is.                      *)
WriteMarks(t) ==
  /\ saving[t] # None /\ saving[t].op = "marks" /\ saving[t].locked # {}
  /\ LET wanted == saving[t].wanted
         existing(c) == {m \in saving[t].active : mark[m].child = c}
         row(c) == [child |-> c, group |-> saving[t].group, date |-> saving[t].date,
                    marking |-> wanted[c], voided |-> FALSE]
         changed == {c \in DOMAIN wanted :
                       \A m \in existing(c) : mark[m] # row(c)}
         voided == UNION {existing(c) : c \in changed}
     IN \E id \in [changed -> {m \in Marks : mark[m] = None}] :
          /\ \A c, e \in changed : id[c] = id[e] => c = e
          /\ mark' = [m \in Marks |->
               IF m \in voided THEN [mark[m] EXCEPT !.voided = TRUE]
               ELSE IF \E c \in changed : id[c] = m
               THEN row(CHOOSE c \in changed : id[c] = m)
               ELSE mark[m]]
  /\ saving' = [saving EXCEPT ![t] = None]
  /\ UNCHANGED <<today, editDays, member, calendar, notices, inactive>>

(* A save is refused, or its connection is lost: nothing is written.       *)
Abandon(t) ==
  /\ saving[t] # None
  /\ saving' = [saving EXCEPT ![t] = None]
  /\ UNCHANGED <<today, editDays, member, calendar, notices, inactive, mark>>

-----------------------------------------------------------------------------
(* CalendarService.create, void                                            *)

createEntry(e) ==
  /\ e \notin calendar
  /\ calendar' = calendar \cup {e}
  /\ UNCHANGED <<today, editDays, member, notices, inactive, mark, saving>>

voidEntry(e) ==
  /\ e \in calendar
  /\ calendar' = calendar \ {e}
  /\ UNCHANGED <<today, editDays, member, notices, inactive, mark, saving>>

(* NoticesService: a notice is approved, or an approved one is withdrawn.  *)
decideNotice(n) ==
  /\ notices' = IF n \in notices THEN notices \ {n} ELSE notices \cup {n}
  /\ UNCHANGED <<today, editDays, member, calendar, inactive, mark, saving>>

(* AbsenceReasonsService.update                                            *)
updateReason(r) ==
  /\ inactive' = IF r \in inactive THEN inactive \ {r} ELSE inactive \cup {r}
  /\ UNCHANGED <<today, editDays, member, calendar, notices, mark, saving>>

(* RegisterService.setEditDays                                             *)
setEditDays(n) ==
  /\ n # editDays
  /\ editDays' = n
  /\ UNCHANGED <<today, member, calendar, notices, inactive, mark, saving>>

(* ChildrenService.update moves a child, which waits for its lock.         *)
moveChild(c, g) ==
  /\ member[c] # g
  /\ \A t \in Savers : saving[t] # None => c \notin saving[t].locked
  /\ member' = [member EXCEPT ![c] = g]
  /\ UNCHANGED <<today, editDays, calendar, notices, inactive, mark, saving>>

NextDay ==
  /\ today < LastDay
  /\ today' = today + 1
  /\ UNCHANGED <<editDays, member, calendar, notices, inactive, mark, saving>>

-----------------------------------------------------------------------------
RegisterInit ==
  /\ today = 1
  /\ editDays \in 0..LastDay
  /\ member \in [Children -> Groups]
  /\ calendar = {} /\ notices = {} /\ inactive = {}
  /\ mark = [m \in Marks |-> None]
  /\ saving = [t \in Savers |-> None]

RegisterNext ==
  \/ \E t \in Savers :
       \/ \E g \in Groups : \E d \in Dates :
            \E some \in (SUBSET Children) \ {{}} :
              \E wanted \in [some -> Markings] : BeginMarks(t, g, d, wanted)
       \/ LockMarked(t) \/ WriteMarks(t) \/ Abandon(t)
  \/ \E e \in CalendarRows : createEntry(e) \/ voidEntry(e)
  \/ \E n \in NoticeRows : decideNotice(n)
  \/ \E r \in Reasons : updateReason(r)
  \/ \E n \in 0..LastDay : setEditDays(n)
  \/ \E c \in Children : \E g \in Groups : moveChild(c, g)
  \/ NextDay

RegisterSpec == RegisterInit /\ [][RegisterNext]_registerVars

-----------------------------------------------------------------------------
RegisterTypeOK ==
  /\ today \in Dates /\ editDays \in 0..LastDay
  /\ member \in [Children -> Groups]
  /\ calendar \subseteq CalendarRows /\ notices \subseteq NoticeRows
  /\ inactive \subseteq Reasons
  /\ mark \in [Marks -> MarkRows \cup {None}]

(* A child has one standing mark a day, whatever groups it was moved       *)
(* through and whoever saves at the same time.                             *)
OneMarkPerDay ==
  \A c \in Children : \A d \in Dates : Cardinality(activeMarks(c, d)) <= 1

(* A day that was marked stays marked: a correction, or a save from the    *)
(* child's new group, never leaves it blank, and no notice or day off that *)
(* comes later hides the mark.                                             *)
MarkedStaysMarked ==
  [][\A c \in Children : \A d \in Dates :
       childDays(c)[d] \in {"present", "absent"} =>
         childDays(c)'[d] \in {"present", "absent"}]_registerVars

(* Every register that lists a child on a day, and the view the parents,   *)
(* the meals and the dashboard read, tell the same of it, although each    *)
(* looks the calendar up for a group of its own.                           *)
OneStateOfADay ==
  \A g \in Groups : \A d \in Dates : \A c \in childrenOf(g, d, d) :
    /\ day(g, d)[c] = childDays(c)[d]
    /\ day(g, d)[c] \in {"present", "unmarked"} => <<c, d>> \in expectedPresence

=============================================================================
