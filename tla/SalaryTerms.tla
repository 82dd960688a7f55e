---------------------------- MODULE SalaryTerms ----------------------------
(***************************************************************************)
(* The versions of a teacher's salary terms                                *)
(* (payroll/salary-terms.service.ts).  A new version closes the open one   *)
(* the day before it starts, a version that has not started can be         *)
(* deleted, which gives its days back to the one before, and the open      *)
(* version can be closed on any day.                                       *)
(*                                                                         *)
(* Creating locks the teacher, deleting and updating lock the version, and *)
(* closing locks nothing: each reads, then writes, and others come         *)
(* between.                                                                *)
(***************************************************************************)
EXTENDS Office

CONSTANTS
  Deleted,
  Versions,   \* identities of versions
  LastDate    \* the last day there is

Dates == 1..LastDate

VersionRows == [from : Dates, to : Int \cup {None}]

(* What the proofs ask of the constants.                                   *)
ASSUME TermsAssumption ==
  /\ LastDate \in Nat \ {0}
  /\ None \notin Int /\ None \notin VersionRows /\ Deleted \notin VersionRows
  /\ None # Deleted

VARIABLES
  date,
  version,    \* version -> [from, to], or None
  saving      \* request -> what it has read and locked, or None

termsVars == <<date, version, saving>>

Kept == {v \in Versions : version[v] \notin {None, Deleted}}

covers(row, day) == row.from <= day /\ (row.to = None \/ day <= row.to)

(* The versions a lock is held on, and whether the teacher is locked.      *)
lockedByOther(t, v) ==
  \E u \in Txs \ {t} : saving[u] # None /\ saving[u].op = "remove" /\ saving[u].id = v

teacherLocked == \E u \in Txs : saving[u] # None /\ saving[u].op = "create"

BeginRequest(t, row) == saving[t] = None /\ saving' = [saving EXCEPT ![t] = row]

-----------------------------------------------------------------------------
(* SalaryTermsService.create                                               *)

openBefore(day) ==
  {v \in Kept : version[v].to = None /\ version[v].from < day}

(* Mutant of clash: only closed versions are looked at.                    *)
clashClosed(day, open) ==
  \E v \in Kept \ open : version[v].to # None /\ version[v].to >= day

clash(day, open) ==
  \E v \in Kept \ open : version[v].to = None \/ version[v].to >= day

BeginVersion(t, day) ==
  /\ ~teacherLocked
  /\ \E open \in SUBSET openBefore(day) :
       /\ openBefore(day) # {} => \E v \in openBefore(day) : open = {v}
       /\ ~clash(day, open)
       /\ BeginRequest(t, [op |-> "create", from |-> day, open |-> open])
  /\ UNCHANGED <<date, version>>

(* The version that was open is closed, whatever became of it since; if it *)
(* was deleted, the update fails.                                          *)
CreateVersion(t, id) ==
  /\ saving[t] # None /\ saving[t].op = "create"
  /\ version[id] = None
  /\ \A v \in saving[t].open : v \in Kept /\ ~lockedByOther(t, v)
  /\ version' = [v \in Versions |->
       IF v = id THEN [from |-> saving[t].from, to |-> None]
       ELSE IF v \in saving[t].open
       THEN [version[v] EXCEPT !.to = saving[t].from - 1]
       ELSE version[v]]
  /\ saving' = [saving EXCEPT ![t] = None]
  /\ UNCHANGED date

-----------------------------------------------------------------------------
(* SalaryTermsService.close                                                *)

BeginClose(t, id, day) ==
  /\ id \in Kept /\ version[id].to = None
  /\ day >= version[id].from
  /\ BeginRequest(t, [op |-> "close", id |-> id, to |-> day])
  /\ UNCHANGED <<date, version>>

Close(t) ==
  /\ saving[t] # None /\ saving[t].op = "close"
  /\ ~lockedByOther(t, saving[t].id)
  /\ version' = [v \in Versions |->
       IF v = saving[t].id /\ v \in Kept /\ version[v].to = None
       THEN [version[v] EXCEPT !.to = saving[t].to]
       ELSE version[v]]
  /\ saving' = [saving EXCEPT ![t] = None]
  /\ UNCHANGED date

-----------------------------------------------------------------------------
(* SalaryTermsService.update, remove                                       *)

notStarted(id) == id \in Kept /\ version[id].from > date

(* An update of the rates keeps the days; it waits for the lock.           *)
Update(t, id) ==
  /\ saving[t] = None
  /\ notStarted(id)
  /\ ~lockedByOther(t, id)
  /\ UNCHANGED termsVars

previous(id) == {v \in Kept : version[v].to = version[id].from - 1}

BeginRemove(t, id) ==
  /\ notStarted(id)
  /\ ~lockedByOther(t, id)
  /\ BeginRequest(t, [op |-> "remove", id |-> id, to |-> version[id].to,
               previous |-> previous(id)])
  /\ UNCHANGED <<date, version>>

(* The rows found are locked one by one; one that was deleted, or ends on  *)
(* another day by then, is left alone.                                     *)
Remove(t) ==
  /\ saving[t] # None /\ saving[t].op = "remove"
  /\ \A v \in saving[t].previous : ~lockedByOther(t, v)
  /\ LET id == saving[t].id IN
     version' = [v \in Versions |->
       IF v = id THEN Deleted
       ELSE IF v \in saving[t].previous /\ v \in previous(id)
       THEN [version[v] EXCEPT !.to = saving[t].to]
       ELSE version[v]]
  /\ saving' = [saving EXCEPT ![t] = None]
  /\ UNCHANGED date

(* A request fails, or its connection is lost, before it has committed.    *)
Fail(t) ==
  /\ saving[t] # None
  /\ saving' = [saving EXCEPT ![t] = None]
  /\ UNCHANGED <<date, version>>

NextDay ==
  /\ date < LastDate
  /\ date' = date + 1
  /\ UNCHANGED <<version, saving>>

-----------------------------------------------------------------------------
TermsInit ==
  /\ date = 1
  /\ version = [v \in Versions |-> None]
  /\ saving = [t \in Txs |-> None]

TermsNext ==
  \/ \E t \in Txs :
       \/ \E day \in Dates : BeginVersion(t, day)
       \/ \E id \in Versions : CreateVersion(t, id)
       \/ \E id \in Versions : \E day \in Dates : BeginClose(t, id, day)
       \/ Close(t)
       \/ \E id \in Versions : Update(t, id) \/ BeginRemove(t, id)
       \/ Remove(t)
       \/ Fail(t)
  \/ NextDay

TermsSpec == TermsInit /\ [][TermsNext]_termsVars

-----------------------------------------------------------------------------
TermsRequests ==
  [op : {"create"}, from : Dates, open : SUBSET Versions]
    \cup [op : {"close"}, id : Versions, to : Dates]
    \cup [op : {"remove"}, id : Versions, to : Int \cup {None},
          previous : SUBSET Versions]

TermsTypeOK ==
  /\ date \in 1..LastDate
  /\ version \in [Versions -> VersionRows \cup {None, Deleted}]
  /\ saving \in [Txs -> TermsRequests \cup {None}]

(* No day belongs to two versions of the terms, so a lesson has one price  *)
(* and the days of a month are shared out without counting one twice,      *)
(* whatever is created, closed and deleted at the same time.               *)
TermsDoNotOverlap ==
  \A day \in Dates : \A v, w \in Kept :
    covers(version[v], day) /\ covers(version[w], day) => v = w

=============================================================================
