----------------------------- MODULE StaffTasks -----------------------------
(***************************************************************************)
(* Tasks given to the staff (staff-tasks/): an author gives a task to      *)
(* several people, changes whom it is given to, or cancels it, while they  *)
(* mark their part done or not done.                                       *)
(*                                                                         *)
(* Editing and cancelling lock the task alone, a mark locks it shared, so  *)
(* several people can mark at once.  The lists and the reminders count the *)
(* same rows in the database and again in the program.                     *)
(***************************************************************************)
EXTENDS Office

CONSTANTS
  People, Institutions,
  Roles,       \* Roles[p] is "root", "admin" or "teacher"
  Tasks,       \* identities of tasks
  LastHour,    \* the last hour there is
  Today,       \* Today[h]: the first hour of the day after hour h
  HistoryHours

Hours == 1..LastHour

VARIABLES
  now,
  person,      \* person -> [active, scope], scope None for everywhere
  task,        \* task -> [author, dueAt, cancelled], or None
  assignee,    \* <<task, person>> -> [doneAt, removed], or None
  begun        \* request -> what it has read and locked, or None

taskVars == <<now, person, task, assignee, begun>>

Started == {k \in Tasks : task[k] # None}
rows(k) == {p \in People : assignee[<<k, p>>] # None}
standing(k) == {p \in rows(k) : ~assignee[<<k, p>>].removed}

-----------------------------------------------------------------------------
(* tasks-calc.ts                                                           *)

canAssign(actor, target) ==
  /\ person[target].active
  /\ CASE Roles[actor] = "root" -> Roles[target] \in {"admin", "teacher"}
       [] Roles[actor] = "admin" ->
            /\ Roles[target] = "teacher"
            /\ person[actor].scope # None =>
                 /\ person[target].scope # None
                 /\ person[target].scope \cap person[actor].scope # {}
       [] OTHER -> FALSE

assigneeState(k, p) ==
  IF task[k].cancelled THEN "cancelled"
  ELSE IF assignee[<<k, p>>].doneAt # None THEN "done"
  ELSE IF now > task[k].dueAt THEN "overdue" ELSE "open"

isCounted(k, p) ==
  p \in standing(k) /\ person[p].active /\ Roles[p] \in {"admin", "teacher"}

total(k) == {p \in rows(k) : isCounted(k, p)}
done(k) == {p \in total(k) : assignee[<<k, p>>].doneAt # None}

isClosed(k) == task[k].cancelled \/ (total(k) # {} /\ done(k) = total(k))

-----------------------------------------------------------------------------
(* What the database is asked: openTaskWhere, openRowWhere                 *)

(* Mutant of openTask: people who left are counted too.                    *)
openTaskOfAnybody(k) ==
  /\ ~task[k].cancelled
  /\ \/ \E p \in rows(k) : assignee[<<k, p>>].doneAt = None
     \/ ~\E p \in People : isCounted(k, p)

openTask(k) ==
  /\ ~task[k].cancelled
  /\ \/ \E p \in People : isCounted(k, p) /\ assignee[<<k, p>>].doneAt = None
     \/ ~\E p \in People : isCounted(k, p)

openRow(k, p) == assignee[<<k, p>>].doneAt = None /\ ~task[k].cancelled

recent(k) == task[k].dueAt >= now - HistoryHours

(* StaffTasksService.given and mine: the first page, then the older ones.  *)
givenBy(u) ==
  {k \in Started : /\ task[k].author = u
                   /\ openTask(k) \/ recent(k)
                   /\ ~isClosed(k) \/ recent(k)}

olderGiven(u) ==
  {k \in Started : task[k].author = u /\ ~openTask(k) /\ ~recent(k)}

mine(u) ==
  {k \in Started : u \in standing(k) /\ (openRow(k, u) \/ recent(k))}

olderMine(u) ==
  {k \in Started : u \in standing(k) /\ ~openRow(k, u) /\ ~recent(k)}

(* givenView, and StaffTasksService.dashboard.                             *)
overdue(k) ==
  ~task[k].cancelled /\ now > task[k].dueAt /\ done(k) # total(k)

dashboardMine(u) ==
  {k \in Started : u \in standing(k) /\ openRow(k, u)
                   /\ task[k].dueAt < Today[now]}

dashboardGiven(u) ==
  {k \in Started :
     /\ task[k].author = u /\ ~task[k].cancelled /\ task[k].dueAt < now
     /\ \E p \in People : isCounted(k, p) /\ assignee[<<k, p>>].doneAt = None}

notDone(k) ==
  {p \in rows(k) : isCounted(k, p) /\ assignee[<<k, p>>].doneAt = None}

-----------------------------------------------------------------------------
(* StaffTasksService.create.  The people are checked before the insert.    *)

BeginCreate(t, k, u, some, dueAt) ==
  /\ begun[t] = None /\ task[k] = None
  /\ Roles[u] \in {"root", "admin"}
  /\ dueAt > now
  /\ \A p \in some : canAssign(u, p)
  /\ begun' = [begun EXCEPT ![t] = [op |-> "create", task |-> k, person |-> u,
                              some |-> some, dueAt |-> dueAt]]
  /\ UNCHANGED <<now, person, task, assignee>>

Create(t) ==
  /\ begun[t] # None /\ begun[t].op = "create"
  /\ LET k == begun[t].task IN
     /\ task[k] = None
     /\ task' = [task EXCEPT ![k] = [author |-> begun[t].person,
                                     dueAt |-> begun[t].dueAt,
                                     cancelled |-> FALSE]]
     /\ assignee' = [r \in Tasks \X People |->
          IF r[1] = k /\ r[2] \in begun[t].some
          THEN [doneAt |-> None, removed |-> FALSE]
          ELSE assignee[r]]
  /\ begun' = [begun EXCEPT ![t] = None]
  /\ UNCHANGED <<now, person>>

-----------------------------------------------------------------------------
(* StaffTasksService.update, cancel.  What a task is locked alone for is   *)
(* done in one step, which waits for the marks that lock it shared.        *)

(* Mutant of unlocked: the task is changed without waiting for its marks.  *)
neverLocked(k) == k \in Tasks

unlocked(k) ==
  \A t \in Txs : begun[t] # None => begun[t].op = "create" \/ begun[t].task # k

(* Who is added again starts anew; who is left out keeps a removed row.    *)
update(k, u, dueAt, wanted) ==
  /\ k \in Started /\ unlocked(k)
  /\ task[k].author = u
  /\ ~task[k].cancelled
  /\ dueAt # task[k].dueAt => dueAt > now
  /\ \A p \in wanted \ standing(k) : canAssign(u, p)
  /\ task' = [task EXCEPT ![k].dueAt = dueAt]
  /\ assignee' = [r \in Tasks \X People |->
       IF r[1] # k THEN assignee[r]
       ELSE IF r[2] \in wanted \ standing(k)
       THEN [doneAt |-> None, removed |-> FALSE]
       ELSE IF r[2] \in standing(k) \ wanted
       THEN [assignee[r] EXCEPT !.removed = TRUE]
       ELSE assignee[r]]
  /\ UNCHANGED <<now, person, begun>>

cancel(k, u) ==
  /\ k \in Started /\ unlocked(k)
  /\ task[k].author = u \/ Roles[u] = "root"
  /\ ~task[k].cancelled
  /\ task' = [task EXCEPT ![k].cancelled = TRUE]
  /\ UNCHANGED <<now, person, assignee, begun>>

-----------------------------------------------------------------------------
(* StaffTasksService.mark.  The hour is taken before the lock is asked for *)
(* and two marks of one person may both hold it.                           *)

LockMark(t, k, u, isDone) ==
  /\ begun[t] = None
  /\ k \in Started
  /\ u \in standing(k)
  /\ ~task[k].cancelled
  /\ isDone # (assignee[<<k, u>>].doneAt # None)
  /\ \E hour \in 1..now :
       begun' = [begun EXCEPT ![t] = [op |-> "mark", task |-> k, person |-> u,
                                doneAt |-> IF isDone THEN hour ELSE None]]
  /\ UNCHANGED <<now, person, task, assignee>>

Mark(t) ==
  /\ begun[t] # None /\ begun[t].op = "mark"
  /\ assignee' =
       [assignee EXCEPT ![<<begun[t].task, begun[t].person>>].doneAt = begun[t].doneAt]
  /\ begun' = [begun EXCEPT ![t] = None]
  /\ UNCHANGED <<now, person, task>>

Abandon(t) ==
  /\ begun[t] # None
  /\ begun' = [begun EXCEPT ![t] = None]
  /\ UNCHANGED <<now, person, task, assignee>>

(* UsersService.update and setAccess change who works, and where.          *)
changePerson(p, active, scope) ==
  /\ person[p] # [active |-> active, scope |-> scope]
  /\ person' = [person EXCEPT ![p] = [active |-> active, scope |-> scope]]
  /\ UNCHANGED <<now, task, assignee, begun>>

NextHour ==
  /\ now < LastHour
  /\ now' = now + 1
  /\ UNCHANGED <<person, task, assignee, begun>>

-----------------------------------------------------------------------------
Scopes == (SUBSET Institutions) \cup {None}

TasksInit ==
  /\ now = 1
  /\ person = [p \in People |-> [active |-> TRUE, scope |-> None]]
  /\ task = [k \in Tasks |-> None]
  /\ assignee = [r \in Tasks \X People |-> None]
  /\ begun = [t \in Txs |-> None]

TasksNext ==
  \/ \E t \in Txs :
       \/ \E k \in Tasks, u \in People :
            \/ \E some \in SUBSET People : \E h \in Hours :
                 BeginCreate(t, k, u, some, h)
            \/ \E isDone \in BOOLEAN : LockMark(t, k, u, isDone)
       \/ Create(t) \/ Mark(t) \/ Abandon(t)
  \/ \E k \in Tasks, u \in People :
       \/ \E h \in Hours : \E wanted \in SUBSET People : update(k, u, h, wanted)
       \/ cancel(k, u)
  \/ \E p \in People : \E active \in BOOLEAN : \E scope \in Scopes :
       changePerson(p, active, scope)
  \/ NextHour

TasksSpec == TasksInit /\ [][TasksNext]_taskVars

-----------------------------------------------------------------------------
TaskRequests ==
  [op : {"create"}, task : Tasks, person : People, some : SUBSET People,
   dueAt : Hours]
    \cup [op : {"mark"}, task : Tasks, person : People,
          doneAt : Hours \cup {None}]

TaskRows == [author : People, dueAt : Hours, cancelled : BOOLEAN]
AssigneeRows == [doneAt : Hours \cup {None}, removed : BOOLEAN]

(* What the proofs ask of the constants.                                   *)
ASSUME TasksAssumption ==
  /\ LastHour \in Nat \ {0}
  /\ None \notin Hours \cup TaskRows \cup AssigneeRows
  /\ Today \in [Hours -> Nat] /\ \A h \in Hours : Today[h] >= h

TasksTypeOK ==
  /\ now \in Hours
  /\ person \in [People -> [active : BOOLEAN, scope : Scopes]]
  /\ task \in [Tasks -> TaskRows \cup {None}]
  /\ assignee \in [Tasks \X People -> AssigneeRows \cup {None}]
  /\ begun \in [Txs -> TaskRequests \cup {None}]

(* A cancelled task is frozen, and so is the part of a person it was taken *)
(* from: no mark that was on its way changes either, and a part given back *)
(* starts as not done.                                                     *)
FrozenParts ==
  [][\A k \in Tasks : \A p \in People :
       assignee[<<k, p>>] # None /\ assignee'[<<k, p>>] # assignee[<<k, p>>] =>
         /\ ~task[k].cancelled
         /\ assignee[<<k, p>>].removed =>
              assignee'[<<k, p>>] = [doneAt |-> None, removed |-> FALSE]]_taskVars

(* Every task an author gave, and every part a person was given, is listed *)
(* once: on the first page or among the older ones.  The page is cut by    *)
(* what the database counts and what the program counts, which agree       *)
(* whoever was removed or deactivated.                                     *)
ListedOnce ==
  \A k \in Started : \A u \in People :
    /\ task[k].author = u => (k \in givenBy(u)) # (k \in olderGiven(u))
    /\ u \in standing(k) => (k \in mine(u)) # (k \in olderMine(u))

(* An author is reminded of the tasks shown as overdue, and everybody      *)
(* named there is reminded too, and sees the own part as overdue.          *)
RemindersAgree ==
  \A k \in Started : \A u \in People :
    /\ task[k].author = u => (overdue(k) <=> k \in dashboardGiven(u))
    /\ k \in dashboardGiven(u) =>
         /\ notDone(k) # {}
         /\ \A p \in notDone(k) :
              k \in dashboardMine(p) /\ assigneeState(k, p) = "overdue"

(* What a task asks of people is listed once and reminded of where it is   *)
(* shown as late.                                                          *)
TasksAreSeen == ListedOnce /\ RemindersAgree

=============================================================================
