---------------------------- MODULE OfficeProofs ----------------------------
(***************************************************************************)
(* What holds of the office for any number of teachers, months, users,     *)
(* tasks, copies and requests in flight.                                   *)
(*                                                                         *)
(* Terms.  That no two versions share a day is not inductive: it has to be *)
(* known what each request relies on from its read to its write.  Creating *)
(* relies on the lock of the teacher, which keeps other versions from      *)
(* appearing after the one it will close; deleting on the lock of the      *)
(* version, which keeps its last day; closing on nothing, so its write     *)
(* looks again.                                                            *)
(*                                                                         *)
(* Payrolls.  The first theorem needs only that an approval holds its own  *)
(* sheet.  The second needs a month in common to wait for: two approvals   *)
(* that begin when no month is approved hold nothing the other asks for,   *)
(* and what one has computed of a month can be opened before it commits.   *)
(*                                                                         *)
(* Staff.  A role is right when it is written and stays right because of   *)
(* the locks: whoever gives a position keeps it from changing until the    *)
(* role copied from it is written, and whoever changes one has waited for  *)
(* them and sees every holder.                                             *)
(*                                                                         *)
(* Tasks.  A part that was taken away, or is of a cancelled task, could    *)
(* still be changed by a mark that looked before.  It is not, since such a *)
(* mark holds its task shared: as long as it is on its way the task stays  *)
(* open and the part stands.                                               *)
(*                                                                         *)
(* Backups.  A run settles well only with all of its output in the file.   *)
(* Retention follows a copy just made, which is newer than any other, so a *)
(* fresh one stays; and a month that loses its last copy has enough later  *)
(* months, the greatest lost one among them with all of its later months   *)
(* still there.                                                            *)
(***************************************************************************)
EXTENDS SalaryTerms, Payroll, Staff, StaffTasks, Backups, FiniteSetTheorems,
        NaturalsInduction, WellFoundedInduction, TLAPS

-----------------------------------------------------------------------------
(* The versions of the terms                                               *)

Creating(t) == saving[t] # None /\ saving[t].op = "create"
Closing(t) == saving[t] # None /\ saving[t].op = "close"
Removing(t) == saving[t] # None /\ saving[t].op = "remove"

(* No version ends before it starts.                                       *)
NonEmpty ==
  \A v \in Kept : version[v].to = None \/ version[v].from <= version[v].to

before(v, w) == version[v].to # None /\ version[v].to < version[w].from

Ordered == \A v, w \in Kept : v # w => before(v, w) \/ before(w, v)

CreatesAlone ==
  \A t, u \in Txs : Creating(t) /\ Creating(u) => t = u

(* Unless the version it will close is gone, the new one comes after all.  *)
CreateReads ==
  \A t \in Txs : Creating(t) =>
    /\ \A v \in saving[t].open :
         version[v] # None /\ (v \in Kept => version[v].from < saving[t].from)
    /\ \A v, w \in saving[t].open : v = w
    /\ saving[t].open \subseteq Kept =>
         \A w \in Kept \ saving[t].open :
           /\ version[w].to # None /\ version[w].to < saving[t].from
           /\ \A v \in saving[t].open : before(w, v)

CloseReads ==
  \A t \in Txs : Closing(t) =>
    /\ version[saving[t].id] # None
    /\ saving[t].id \in Kept => version[saving[t].id].from <= saving[t].to

RemoveReads ==
  \A t \in Txs : Removing(t) =>
    /\ saving[t].id \in Kept /\ version[saving[t].id].to = saving[t].to
    /\ \A u \in Txs : Removing(u) /\ saving[u].id = saving[t].id => u = t

TermsInv ==
  /\ TermsTypeOK
  /\ NonEmpty
  /\ Ordered
  /\ CreatesAlone
  /\ CreateReads
  /\ CloseReads
  /\ RemoveReads

-----------------------------------------------------------------------------
LEMMA InitTerms == TermsInit => TermsInv
  BY TermsAssumption DEF TermsInit, TermsInv, TermsTypeOK, NonEmpty, Ordered, CreatesAlone,
    CreateReads, CloseReads, RemoveReads, Creating, Closing, Removing, Kept

(* The rows of the table, told apart from what is not a row.               *)
LEMMA KeptRows ==
  ASSUME TermsTypeOK, NEW v \in Kept
  PROVE  /\ v \in Versions /\ version[v] \in VersionRows
         /\ version[v].from \in Int /\ version[v].from >= 1
         /\ version[v].to = None \/ version[v].to \in Int
  BY TermsAssumption DEF TermsTypeOK, Kept, VersionRows, Dates

LEMMA KeptTx ==
  ASSUME TermsTypeOK, NEW t \in Txs, saving[t] # None
  PROVE  /\ saving[t] \in TermsRequests
         /\ Creating(t) => saving[t].from \in Dates /\ saving[t].open \subseteq Versions
         /\ Closing(t) => saving[t].id \in Versions /\ saving[t].to \in Dates
         /\ Removing(t) => saving[t].id \in Versions /\ saving[t].previous \subseteq Versions
                            /\ saving[t].to \in Int \cup {None}
  BY DEF TermsTypeOK, TermsRequests, Creating, Closing, Removing

LEMMA OrderedDays == TermsInv => TermsDoNotOverlap
<1> SUFFICES ASSUME TermsInv,
                    NEW day \in Dates, NEW v \in Kept, NEW w \in Kept,
                    covers(version[v], day), covers(version[w], day), v # w
             PROVE  FALSE
  BY DEF TermsDoNotOverlap
<1>1. before(v, w) \/ before(w, v)
  BY DEF TermsInv, Ordered
<1>2. day \in Int
  BY DEF Dates
<1> QED
  BY <1>1, <1>2, KeptRows DEF TermsInv, before, covers

-----------------------------------------------------------------------------
(* Requests that begin or fail: what they read holds when they read it.    *)

LEMMA CreateBegins ==
  ASSUME TermsInv, NEW t \in Txs, NEW day \in Dates, BeginVersion(t, day)
  PROVE  TermsInv'
<1> PICK open \in SUBSET openBefore(day) :
      /\ openBefore(day) # {} => \E v \in openBefore(day) : open = {v}
      /\ ~clash(day, open)
      /\ BeginRequest(t, [op |-> "create", from |-> day, open |-> open])
  BY DEF BeginVersion
<1> DEFINE row == [op |-> "create", from |-> day, open |-> open]
<1>1. row \in TermsRequests
  BY DEF TermsRequests, openBefore, Kept
<1>2. /\ UNCHANGED <<date, version>> /\ Kept' = Kept
      /\ saving[t] = None /\ saving' = [saving EXCEPT ![t] = row] /\ saving \in [Txs -> TermsRequests \cup {None}]
  BY DEF BeginVersion, BeginRequest, TermsInv, TermsTypeOK, Kept
<1>3. saving'[t] = row /\ \A u \in Txs : u # t => saving'[u] = saving[u]
  BY <1>2
<1>4. TermsTypeOK' /\ NonEmpty' /\ Ordered'
  BY <1>1, <1>2 DEF TermsInv, TermsTypeOK, NonEmpty, Ordered, before
<1>5. CreatesAlone'
  BY <1>2, <1>3 DEF TermsInv, CreatesAlone, Creating, BeginVersion, teacherLocked
<1>6. /\ \A v \in open : v \in Kept /\ version[v].to = None /\ version[v].from < day
      /\ \A v, w \in open : v = w
      /\ \A w \in Kept \ open : version[w].to # None /\ version[w].to < day
  <2>1. \A v \in open : v \in Kept /\ version[v].to = None /\ version[v].from < day
    BY DEF openBefore
  <2>2. \A v, w \in open : v = w
    BY DEF openBefore
  <2>3. \A w \in Kept \ open : version[w].to # None /\ version[w].to < day
    BY KeptRows DEF clash, Dates, TermsInv
  <2> QED
    BY <2>1, <2>2, <2>3
<1>7. \A v \in open, w \in Kept \ open : before(w, v)
  BY <1>6 DEF TermsInv, Ordered, before
<1>8. CreateReads'
  BY <1>2, <1>3, <1>6, <1>7 DEF TermsInv, CreateReads, Creating, before, Kept
<1>9. CloseReads' /\ RemoveReads'
  BY <1>2, <1>3 DEF TermsInv, CloseReads, RemoveReads, Closing, Removing
<1> QED
  BY <1>4, <1>5, <1>8, <1>9 DEF TermsInv

LEMMA CloseBegins ==
  ASSUME TermsInv, NEW t \in Txs, NEW id \in Versions, NEW day \in Dates,
         BeginClose(t, id, day)
  PROVE  TermsInv'
<1> DEFINE row == [op |-> "close", id |-> id, to |-> day]
<1>1. row \in TermsRequests
  BY DEF TermsRequests
<1>2. /\ UNCHANGED <<date, version>> /\ Kept' = Kept
      /\ saving[t] = None /\ saving' = [saving EXCEPT ![t] = row] /\ saving \in [Txs -> TermsRequests \cup {None}]
  BY DEF BeginClose, BeginRequest, TermsInv, TermsTypeOK, Kept
<1>3. saving'[t] = row /\ \A u \in Txs : u # t => saving'[u] = saving[u]
  BY <1>2
<1>4. TermsTypeOK' /\ NonEmpty' /\ Ordered'
  BY <1>1, <1>2 DEF TermsInv, TermsTypeOK, NonEmpty, Ordered, before
<1>5. CreatesAlone' /\ CreateReads'
  BY <1>2, <1>3 DEF TermsInv, CreatesAlone, CreateReads, Creating, before
<1>6. version[id] # None /\ version[id].from <= day
  BY KeptRows DEF TermsInv, BeginClose, Kept, Dates
<1>7. CloseReads' /\ RemoveReads'
  BY <1>2, <1>3, <1>6 DEF TermsInv, CloseReads, RemoveReads, Closing, Removing
<1> QED
  BY <1>4, <1>5, <1>7 DEF TermsInv

LEMMA RemoveBegins ==
  ASSUME TermsInv, NEW t \in Txs, NEW id \in Versions, BeginRemove(t, id)
  PROVE  TermsInv'
<1> DEFINE row == [op |-> "remove", id |-> id, to |-> version[id].to,
                   previous |-> previous(id)]
<1>1. id \in Kept /\ version[id].to \in Int \cup {None}
  BY KeptRows DEF BeginRemove, notStarted, TermsInv
<1>2. row \in TermsRequests
  BY <1>1 DEF TermsRequests, previous, Kept
<1>3. /\ UNCHANGED <<date, version>> /\ Kept' = Kept
      /\ saving[t] = None /\ saving' = [saving EXCEPT ![t] = row] /\ saving \in [Txs -> TermsRequests \cup {None}]
  BY DEF BeginRemove, BeginRequest, TermsInv, TermsTypeOK, Kept
<1>4. saving'[t] = row /\ \A u \in Txs : u # t => saving'[u] = saving[u]
  BY <1>3
<1>5. TermsTypeOK' /\ NonEmpty' /\ Ordered'
  BY <1>2, <1>3 DEF TermsInv, TermsTypeOK, NonEmpty, Ordered, before
<1>6. CreatesAlone' /\ CreateReads' /\ CloseReads'
  BY <1>3, <1>4 DEF TermsInv, CreatesAlone, CreateReads, CloseReads, Creating, Closing, before
<1>7. RemoveReads'
  BY <1>1, <1>3, <1>4 DEF TermsInv, RemoveReads, Removing, BeginRemove, lockedByOther
<1> QED
  BY <1>5, <1>6, <1>7 DEF TermsInv

LEMMA Fails ==
  ASSUME TermsInv, NEW t \in Txs, saving' = [saving EXCEPT ![t] = None], UNCHANGED <<date,
    version>>
  PROVE  TermsInv'
<1>1. /\ Kept' = Kept /\ saving \in [Txs -> TermsRequests \cup {None}]
      /\ saving'[t] = None /\ \A u \in Txs : u # t => saving'[u] = saving[u]
  BY DEF TermsInv, TermsTypeOK, Kept
<1>2. TermsTypeOK' /\ NonEmpty' /\ Ordered'
  BY <1>1 DEF TermsInv, TermsTypeOK, NonEmpty, Ordered, before
<1>3. CreatesAlone' /\ CreateReads' /\ CloseReads' /\ RemoveReads'
  BY <1>1 DEF TermsInv, CreatesAlone, CreateReads, CloseReads, RemoveReads,
              Creating, Closing, Removing, before
<1> QED
  BY <1>2, <1>3 DEF TermsInv

-----------------------------------------------------------------------------
(* Requests that write.                                                    *)

LEMMA Creates ==
  ASSUME TermsInv, NEW t \in Txs, NEW id \in Versions, CreateVersion(t, id)
  PROVE  TermsInv'
<1> DEFINE open == saving[t].open
           from == saving[t].from
           new == [from |-> from, to |-> None]
<1>1. /\ Creating(t) /\ version[id] = None /\ id \notin Kept
      /\ open \subseteq Kept /\ from \in Dates /\ from \in Int
      /\ \A v \in open : ~lockedByOther(t, v)
  BY KeptTx DEF CreateVersion, Creating, Kept, TermsInv, Dates
<1>2. /\ \A v \in open : version[v].from < from
      /\ \A v, w \in open : v = w
      /\ \A w \in Kept \ open :
           /\ version[w].to # None /\ version[w].to < from
           /\ \A v \in open : before(w, v)
  BY <1>1 DEF TermsInv, CreateReads
<1>3. new \in VersionRows /\ new \notin {None, Deleted}
  BY <1>1, TermsAssumption DEF VersionRows
<1>4. /\ version'[id] = new
      /\ \A v \in open : version'[v] = [version[v] EXCEPT !.to = from - 1]
      /\ \A v \in Versions \ (open \cup {id}) : version'[v] = version[v]
  BY <1>1 DEF CreateVersion, Kept
<1>5. \A v \in open : /\ version'[v] \in VersionRows /\ version'[v] \notin {None, Deleted}
                      /\ version'[v].from = version[v].from
                      /\ version'[v].to = from - 1 /\ version'[v].to # None
  <2> TAKE v \in open
  <2>1. v \in Kept /\ version[v] \in VersionRows /\ from - 1 \in Int
    BY <1>1, KeptRows DEF TermsInv
  <2>2. version'[v] = [version[v] EXCEPT !.to = from - 1]
    BY <1>4
  <2>3. /\ version'[v] \in VersionRows /\ version'[v].from = version[v].from
        /\ version'[v].to = from - 1
    BY <2>1, <2>2 DEF VersionRows
  <2> QED
    BY <2>1, <2>3, TermsAssumption
<1>6. Kept' = Kept \cup {id}
  BY <1>1, <1>3, <1>4, <1>5 DEF Kept
<1>7. saving'[t] = None /\ \A u \in Txs : u # t => saving'[u] = saving[u]
  BY DEF CreateVersion, TermsInv, TermsTypeOK
<1>8. TermsTypeOK'
  <2>1. version' \in [Versions -> VersionRows \cup {None, Deleted}]
    BY <1>3, <1>4, <1>5, version' = [v \in Versions |-> version'[v]]
      DEF CreateVersion, TermsInv, TermsTypeOK
  <2> QED
    BY <2>1 DEF CreateVersion, TermsInv, TermsTypeOK
<1>9. NonEmpty'
  BY <1>1, <1>2, <1>4, <1>5, <1>6, KeptRows DEF TermsInv, NonEmpty, Kept
<1>10. Ordered'
  <2> SUFFICES ASSUME NEW v \in Kept', NEW w \in Kept', v # w
               PROVE  before(v, w)' \/ before(w, v)'
    BY DEF Ordered
  <2>1. CASE v = id \/ w = id
    <3>1. \A x \in Kept : before(x, id)'
      <4> TAKE x \in Kept
      <4>1. CASE x \in open
        BY <4>1, <1>1, <1>4, <1>5 DEF before
      <4>2. CASE x \notin open
        BY <4>2, <1>1, <1>2, <1>4 DEF before, Kept
      <4> QED  BY <4>1, <4>2
    <3> QED  BY <2>1, <3>1, <1>6
  <2>2. CASE v # id /\ w # id
    <3>1. v \in Kept /\ w \in Kept
      BY <2>2, <1>6
    <3>2. CASE v \in open
      <4>1. w \notin open /\ before(w, v)
        BY <3>1, <3>2, <1>2
      <4>2. version'[w] = version[w] /\ version'[v].from = version[v].from
        BY <2>2, <3>1, <3>2, <4>1, <1>4, <1>5 DEF Kept
      <4> QED  BY <4>1, <4>2 DEF before
    <3>3. CASE w \in open
      <4>1. v \notin open /\ before(v, w)
        BY <3>1, <3>3, <1>2
      <4>2. version'[v] = version[v] /\ version'[w].from = version[w].from
        BY <2>2, <3>1, <3>3, <4>1, <1>4, <1>5 DEF Kept
      <4> QED  BY <4>1, <4>2 DEF before
    <3>4. CASE v \notin open /\ w \notin open
      <4>1. version'[v] = version[v] /\ version'[w] = version[w]
        BY <2>2, <3>1, <3>4, <1>4 DEF Kept
      <4> QED  BY <3>1, <4>1 DEF TermsInv, Ordered, before
    <3> QED  BY <3>2, <3>3, <3>4
  <2> QED  BY <2>1, <2>2
<1>11. CreatesAlone' /\ CreateReads'
  BY <1>1, <1>7 DEF TermsInv, CreatesAlone, CreateReads, Creating
<1>12. CloseReads'
  <2> SUFFICES ASSUME NEW u \in Txs, Closing(u)'
               PROVE  /\ version'[saving'[u].id] # None
                      /\ saving'[u].id \in Kept' => version'[saving'[u].id].from <= saving'[u].to
    BY DEF CloseReads
  <2>1. u # t /\ saving'[u] = saving[u] /\ Closing(u)
    BY <1>7 DEF Closing
  <2>2. saving[u].id \in Versions /\ version[saving[u].id] # None /\ saving[u].id # id
        /\ (saving[u].id \in Kept => version[saving[u].id].from <= saving[u].to)
    BY <2>1, <1>1, KeptTx DEF TermsInv, CloseReads, Closing
  <2>3. CASE saving[u].id \in open
    BY <2>1, <2>2, <2>3, <1>1, <1>5
  <2>4. CASE saving[u].id \notin open
    BY <2>1, <2>2, <2>4, <1>4, <1>6
  <2> QED  BY <2>3, <2>4
<1>13. RemoveReads'
  <2>1. \A u \in Txs : Removing(u)' => /\ u # t /\ saving'[u] = saving[u] /\ Removing(u)
                                       /\ saving[u].id \in Kept \ open
    BY <1>1, <1>7 DEF Removing, TermsInv, RemoveReads, lockedByOther
  <2>2. \A v \in Kept \ open : version'[v] = version[v]
    BY <1>1, <1>4 DEF Kept
  <2> QED  BY <2>1, <2>2, <1>6 DEF TermsInv, RemoveReads
<1> QED
  BY <1>8, <1>9, <1>10, <1>11, <1>12, <1>13 DEF TermsInv

LEMMA Closes ==
  ASSUME TermsInv, NEW t \in Txs, Close(t)
  PROVE  TermsInv'
<1> DEFINE id == saving[t].id
           to == saving[t].to
<1>1. Closing(t) /\ id \in Versions /\ to \in Dates /\ to \in Int /\ ~lockedByOther(t, id)
  BY KeptTx DEF Close, Closing, TermsInv, Dates
<1>2. saving'[t] = None /\ \A u \in Txs : u # t => saving'[u] = saving[u]
  BY DEF Close, TermsInv, TermsTypeOK
<1>3. CASE ~(id \in Kept /\ version[id].to = None)
  <2>1. version' = version
    BY <1>3 DEF Close, TermsInv, TermsTypeOK
  <2> QED  BY <2>1, Fails DEF Close
<1>4. CASE id \in Kept /\ version[id].to = None
  <2>1. /\ version'[id] = [version[id] EXCEPT !.to = to]
        /\ \A v \in Versions \ {id} : version'[v] = version[v]
    BY <1>1, <1>4 DEF Close
  <2>2. /\ version'[id] \in VersionRows /\ version'[id] \notin {None, Deleted}
        /\ version'[id].from = version[id].from
        /\ version'[id].to = to /\ version'[id].to # None
    BY <1>1, <1>4, <2>1, KeptRows, TermsAssumption DEF VersionRows, TermsInv
  <2>3. Kept' = Kept
    BY <1>4, <2>1, <2>2 DEF Kept
  <2>4. version[id].from <= to
    BY <1>1, <1>4 DEF TermsInv, CloseReads
  <2>5. TermsTypeOK'
    <3>1. version' \in [Versions -> VersionRows \cup {None, Deleted}]
      BY <2>1, <2>2, version' = [v \in Versions |-> version'[v]] DEF Close, TermsInv, TermsTypeOK
    <3> QED  BY <3>1 DEF Close, TermsInv, TermsTypeOK
  <2>6. NonEmpty'
    BY <2>1, <2>2, <2>3, <2>4 DEF TermsInv, NonEmpty, Kept
  <2>7. Ordered'
    BY <1>4, <2>1, <2>2, <2>3 DEF TermsInv, Ordered, before, Kept
  <2>8. CreatesAlone'
    BY <1>2 DEF TermsInv, CreatesAlone, Creating
  <2>9. CreateReads'
    <3> SUFFICES ASSUME NEW u \in Txs, Creating(u)'
                 PROVE  /\ \A v \in saving[u].open :
                             /\ version'[v] # None
                             /\ v \in Kept => version'[v].from < saving[u].from
                        /\ \A v, w \in saving[u].open : v = w
                        /\ saving[u].open \subseteq Kept =>
                             \A w \in Kept \ saving[u].open :
                               /\ version'[w].to # None /\ version'[w].to < saving[u].from
                               /\ \A v \in saving[u].open : before(w, v)'
      BY <1>2, <2>3 DEF CreateReads, Creating
    <3>1. Creating(u) /\ saving[u].open \subseteq Versions
      BY <1>2, KeptTx DEF Creating, TermsInv
    <3>2. \A v \in Versions : (version'[v] = None <=> version[v] = None)
                              /\ version'[v].from = version[v].from
      BY <1>4, <2>1, <2>2 DEF Kept
    <3>3. \A w \in Kept : version[w].to # None => version'[w] = version[w]
      BY <1>4, <2>1 DEF Kept
    <3> QED  BY <3>1, <3>2, <3>3 DEF TermsInv, CreateReads, before
  <2>10. CloseReads'
    <3>1. \A v \in Versions : (version'[v] = None <=> version[v] = None)
                              /\ version'[v].from = version[v].from
      BY <1>4, <2>1, <2>2 DEF Kept
    <3> QED  BY <1>2, <2>3, <3>1, KeptTx DEF TermsInv, CloseReads, Closing
  <2>11. RemoveReads'
    BY <1>1, <1>2, <2>1, <2>3 DEF TermsInv, RemoveReads, Removing, lockedByOther, Kept
  <2> QED
    BY <2>5, <2>6, <2>7, <2>8, <2>9, <2>10, <2>11 DEF TermsInv
<1> QED  BY <1>3, <1>4

LEMMA Removes ==
  ASSUME TermsInv, NEW t \in Txs, Remove(t)
  PROVE  TermsInv'
<1> DEFINE id == saving[t].id
           to == saving[t].to
           extended == saving[t].previous \cap previous(id)
<1>1. /\ Removing(t) /\ id \in Kept /\ version[id].to = to
      /\ extended \subseteq Kept
      /\ \A v \in extended : version[v].to = version[id].from - 1 /\ ~lockedByOther(t, v)
  BY DEF Remove, Removing, TermsInv, RemoveReads, previous
<1>2. saving'[t] = None /\ \A u \in Txs : u # t => saving'[u] = saving[u]
  BY DEF Remove, TermsInv, TermsTypeOK
<1>3. id \in Versions /\ version[id].from \in Int
      /\ (to # None => to \in Int /\ version[id].from <= to)
  BY <1>1, KeptRows DEF TermsInv, NonEmpty
<1>4. /\ version'[id] = Deleted
      /\ \A v \in extended \ {id} : version'[v] = [version[v] EXCEPT !.to = to]
      /\ \A v \in Versions \ (extended \cup {id}) : version'[v] = version[v]
  BY <1>1, <1>3 DEF Remove, Kept
<1>5. /\ id \notin extended
      /\ \A v \in extended : version[v].from < version[id].from
  BY <1>1, <1>3, KeptRows, TermsAssumption DEF TermsInv, NonEmpty
<1>6. \A v \in extended : /\ version'[v] \in VersionRows /\ version'[v] \notin {None, Deleted}
                       /\ version'[v].from = version[v].from /\ version'[v].to = to
  <2> TAKE v \in extended
  <2>1. version[v] \in VersionRows /\ to \in Int \cup {None}
    BY <1>1, <1>3, KeptRows DEF TermsInv
  <2>2. version'[v] = [version[v] EXCEPT !.to = to]
    BY <1>4, <1>5
  <2>3. /\ version'[v] \in VersionRows /\ version'[v].from = version[v].from
        /\ version'[v].to = to
    BY <2>1, <2>2 DEF VersionRows
  <2> QED
    BY <2>3, TermsAssumption
<1>7. Kept' = Kept \ {id} /\ extended \subseteq Kept'
  BY <1>1, <1>4, <1>5, <1>6 DEF Kept
<1>8. \A v \in Kept' \ extended : v \in Kept /\ v # id /\ version'[v] = version[v]
  BY <1>4, <1>7 DEF Kept
<1>9. TermsTypeOK'
  <2>1. version' \in [Versions -> VersionRows \cup {None, Deleted}]
    BY <1>1, <1>4, <1>5, <1>6, version' = [v \in Versions |-> version'[v]]
      DEF Remove, TermsInv, TermsTypeOK
  <2> QED
    BY <2>1 DEF Remove, TermsInv, TermsTypeOK
<1>10. NonEmpty'
  <2> SUFFICES ASSUME NEW v \in Kept', version'[v].to # None
               PROVE  version'[v].from <= version'[v].to
    BY DEF NonEmpty
  <2>1. CASE v \in extended
    BY <2>1, <1>1, <1>3, <1>5, <1>6, KeptRows DEF TermsInv
  <2>2. CASE v \notin extended
    BY <2>2, <1>8 DEF TermsInv, NonEmpty
  <2> QED  BY <2>1, <2>2
<1>11. \A v \in extended : \A w \in Kept \ {id, v} :
         before(w, v) \/ (before(id, w) /\ to # None /\ to < version[w].from)
  <2> TAKE v \in extended
  <2> TAKE w \in Kept \ {id, v}
  <2>1. (before(v, w) \/ before(w, v)) /\ (before(id, w) \/ before(w, id))
    BY <1>1 DEF TermsInv, Ordered
  <2>2. v \in Kept /\ version[v].to = version[id].from - 1
    BY <1>1
  <2>3. ASSUME before(v, w), before(w, id)  PROVE FALSE
    BY <2>2, <2>3, <1>3, KeptRows DEF TermsInv, NonEmpty, before
  <2> QED
    BY <2>1, <2>3, <1>1 DEF before
<1>12. Ordered'
  <2> SUFFICES ASSUME NEW v \in Kept', NEW w \in Kept', v # w
               PROVE  before(v, w)' \/ before(w, v)'
    BY DEF Ordered
  <2>1. ASSUME NEW x \in extended, NEW y \in Kept' \ extended
        PROVE  before(x, y)' \/ before(y, x)'
    <3>1. before(y, x) \/ (to # None /\ to < version[y].from)
      BY <2>1, <1>8, <1>11
    <3> QED
      BY <2>1, <3>1, <1>6, <1>8 DEF before
  <2>2. CASE v \in extended /\ w \in extended
    <3>1. before(v, w) \/ before(w, v)
      BY <2>2, <1>1 DEF TermsInv, Ordered
    <3> QED
      BY <2>2, <3>1, <1>1, <1>3, KeptRows DEF TermsInv, NonEmpty, before
  <2>3. CASE v \notin extended /\ w \notin extended
    BY <2>3, <1>8 DEF TermsInv, Ordered, before
  <2> QED  BY <2>1, <2>2, <2>3
<1>13. CreatesAlone'
  BY <1>2 DEF TermsInv, CreatesAlone, Creating
<1>14. \A v \in Versions : /\ version'[v] = None <=> version[v] = None
                           /\ v \in Kept' => v \in Kept /\ version'[v].from = version[v].from
  <2>1. Deleted # None
    BY TermsAssumption
  <2> QED
    BY <2>1, <1>1, <1>4, <1>6, <1>7, <1>8 DEF Kept
<1>15. CreateReads'
  <2> SUFFICES ASSUME NEW u \in Txs, Creating(u)'
               PROVE  /\ \A v \in saving[u].open :
                           /\ version'[v] # None
                           /\ v \in Kept' => version'[v].from < saving[u].from
                      /\ \A v, w \in saving[u].open : v = w
                      /\ saving[u].open \subseteq Kept' =>
                           \A w \in Kept' \ saving[u].open :
                             /\ version'[w].to # None /\ version'[w].to < saving[u].from
                             /\ \A v \in saving[u].open : before(w, v)'
    BY <1>2 DEF CreateReads, Creating
  <2>1. Creating(u) /\ saving[u].open \subseteq Versions
    BY <1>2, KeptTx DEF Creating, TermsInv
  <2>2. /\ \A v \in saving[u].open : version[v] # None
             /\ (v \in Kept => version[v].from < saving[u].from)
        /\ \A v, w \in saving[u].open : v = w
    BY <2>1 DEF TermsInv, CreateReads
  <2>3. ASSUME saving[u].open \subseteq Kept', NEW w \in Kept' \ saving[u].open
        PROVE  /\ version'[w].to # None /\ version'[w].to < saving[u].from
               /\ \A v \in saving[u].open : before(w, v)'
    <3>1. \A x \in Kept \ saving[u].open :
            /\ version[x].to # None /\ version[x].to < saving[u].from
            /\ \A v \in saving[u].open : before(x, v)
      BY <2>1, <2>3, <1>7 DEF TermsInv, CreateReads
    <3>2. id \in Kept \ saving[u].open /\ w \in Kept \ saving[u].open
      BY <2>3, <1>1, <1>7
    <3>3. version'[w].to = version[w].to \/ version'[w].to = version[id].to
      BY <2>3, <1>1, <1>6, <1>8
    <3>4. \A v \in saving[u].open : version'[v].from = version[v].from
      BY <2>1, <2>3, <1>14
    <3> QED
      BY <3>1, <3>2, <3>3, <3>4 DEF before
  <2> QED  BY <2>1, <2>2, <2>3, <1>14
<1>16. CloseReads'
  BY <1>2, <1>14, KeptTx DEF TermsInv, CloseReads, Closing
<1>17. RemoveReads'
  <2>1. \A u \in Txs : Removing(u)' => /\ u # t /\ saving'[u] = saving[u] /\ Removing(u)
                                       /\ saving[u].id \in Kept \ (extended \cup {id})
    BY <1>1, <1>2 DEF Removing, TermsInv, RemoveReads, lockedByOther
  <2> QED
    BY <2>1, <1>7, <1>8 DEF TermsInv, RemoveReads
<1> QED
  BY <1>9, <1>10, <1>12, <1>13, <1>15, <1>16, <1>17 DEF TermsInv

-----------------------------------------------------------------------------
LEMMA NextTerms == TermsInv /\ [TermsNext]_termsVars => TermsInv'
<1> SUFFICES ASSUME TermsInv, [TermsNext]_termsVars  PROVE TermsInv'
  OBVIOUS
<1>1. ASSUME NEW t \in Txs, NEW day \in Dates, BeginVersion(t, day)  PROVE TermsInv'
  BY <1>1, CreateBegins
<1>2. ASSUME NEW t \in Txs, NEW id \in Versions, CreateVersion(t, id)  PROVE TermsInv'
  BY <1>2, Creates
<1>3. ASSUME NEW t \in Txs, NEW id \in Versions, NEW day \in Dates, BeginClose(t, id, day)
      PROVE TermsInv'
  BY <1>3, CloseBegins
<1>4. ASSUME NEW t \in Txs, Close(t)  PROVE TermsInv'
  BY <1>4, Closes
<1>5. ASSUME NEW t \in Txs, NEW id \in Versions, BeginRemove(t, id)  PROVE TermsInv'
  BY <1>5, RemoveBegins
<1>6. ASSUME NEW t \in Txs, Remove(t)  PROVE TermsInv'
  BY <1>6, Removes
<1>7. ASSUME NEW t \in Txs, Fail(t)  PROVE TermsInv'
  BY <1>7, Fails DEF Fail
<1>8. ASSUME NextDay  PROVE TermsInv'
  <2>1. UNCHANGED <<version, saving>> /\ Kept' = Kept
    BY <1>8 DEF NextDay, Kept
  <2>2. TermsTypeOK'
    BY <1>8, <2>1, TermsAssumption DEF NextDay, TermsInv, TermsTypeOK
  <2> QED
    BY <2>1, <2>2 DEF TermsInv, NonEmpty, Ordered, CreatesAlone, CreateReads, CloseReads,
                      RemoveReads, Creating, Closing, Removing, before
<1>9. ASSUME UNCHANGED termsVars  PROVE TermsInv'
  BY <1>9 DEF termsVars, TermsInv, TermsTypeOK, NonEmpty, Ordered, CreatesAlone, CreateReads,
    CloseReads,
              RemoveReads, Creating, Closing, Removing, before, Kept
<1> QED
  BY <1>1, <1>2, <1>3, <1>4, <1>5, <1>6, <1>7, <1>8, <1>9 DEF TermsNext, Update

(* The versions of a teacher's terms and the requests on them are of their *)
(* types, for any number of versions, days and requests.                   *)
THEOREM TermsTypeCorrect == TermsSpec => []TermsTypeOK
<1>1. TermsInit => TermsInv
  BY InitTerms
<1>2. TermsInv /\ [TermsNext]_termsVars => TermsInv'
  BY NextTerms
<1>3. TermsInv => TermsTypeOK
  BY DEF TermsInv
<1> QED
  BY <1>1, <1>2, <1>3, PTL DEF TermsSpec

(* However requests to create, close and delete versions meet, no day      *)
(* belongs to two of them, so every lesson has one price.                  *)
THEOREM OneVersionADay == TermsSpec => []TermsDoNotOverlap
<1>1. TermsInit => TermsInv
  BY InitTerms
<1>2. TermsInv /\ [TermsNext]_termsVars => TermsInv'
  BY NextTerms
<1>3. TermsInv => TermsDoNotOverlap
  BY OrderedDays
<1> QED
  BY <1>1, <1>2, <1>3, PTL DEF TermsSpec

-----------------------------------------------------------------------------
(* The books: approved months and what they rest on                         *)

(* A sheet is locked by one transaction at a time, and by one that approves*)
(* it only while it is a draft.                                            *)
SheetsAreLocked ==
  /\ \A t, u \in Txs : \A m \in Months : locked(t, m) /\ locked(u, m) => t = u
  /\ \A t \in Txs : tx[t].op \in {"approve", "commit"} =>
       locked(t, tx[t].month) /\ ~approved(tx[t].month) /\ sheet[tx[t].month] # None

(* The entries of a month that count.                                      *)
countedOf(m) ==
  [extra |-> Live(extra) \cap inMonth(extra, m),
   adjustment |-> Live(adjustment) \cap inMonth(adjustment, m),
   absence |-> Live(absence) \cap absencesOf(m)]

(* What is going to be written down was made from the entries that stand.  *)
ComputedFromStanding ==
  \A t \in Txs : tx[t].op = "commit" => tx[t].lines.from = countedOf(tx[t].month)

BooksInv ==
  /\ PayrollTypeOK
  /\ SheetsAreLocked
  /\ ComputedFromStanding
  /\ ApprovedIsFrozen

-----------------------------------------------------------------------------
LEMMA InitBooks == PayrollInit => BooksInv
<1> SUFFICES ASSUME PayrollInit PROVE BooksInv
  OBVIOUS
<1>1. /\ \A t \in Txs : tx[t].op = "idle"
      /\ InFlight = {} /\ Approved = {}
  BY DEF PayrollInit, Idle, InFlight, Approved, approved
<1>2. PayrollTypeOK
  BY <1>1 DEF PayrollInit, PayrollTypeOK
<1>3. SheetsAreLocked /\ ComputedFromStanding /\ ApprovedIsFrozen
  BY <1>1 DEF SheetsAreLocked, ComputedFromStanding, ApprovedIsFrozen, locked
<1> QED  BY <1>2, <1>3 DEF BooksInv

(* A step of one transaction that changes entries of months it has locked  *)
(* and found to be drafts, and no approval.                                *)
LEMMA EntryStep ==
  ASSUME BooksInv, NEW ms, lockable(ms, Txs), \A m \in ms : status(m) = "draft",
         UNCHANGED <<line, tx>>, Approved' = Approved,
         \A m \in Months : sheet[m] # None => sheet'[m] # None,
         \A m \in Months \ ms : countedOf(m)' = countedOf(m)
  PROVE  SheetsAreLocked' /\ ComputedFromStanding' /\ ApprovedIsFrozen'
<1>1. \A m \in Months : approved(m)' <=> approved(m)
  BY DEF Approved
<1>2. InFlight' = InFlight /\ \A t, m : locked(t, m)' = locked(t, m)
  BY DEF InFlight, locked
<1>3. SheetsAreLocked'
  BY <1>1, <1>2 DEF BooksInv, SheetsAreLocked, PayrollTypeOK, InFlight
<1>4. \A m \in Approved : m \notin ms /\ countedOf(m)' = countedOf(m)
  BY DEF Approved, status
<1>5. ApprovedIsFrozen'
  BY <1>4 DEF ApprovedIsFrozen, BooksInv, countedOf
<1>6. ASSUME NEW t \in Txs, tx[t].op = "commit"
      PROVE  tx[t].month \in Months \ ms
  BY <1>6 DEF BooksInv, PayrollTypeOK, SheetsAreLocked, InFlight, lockable, locked
<1>7. ComputedFromStanding'
  BY <1>6 DEF BooksInv, ComputedFromStanding
<1> QED  BY <1>3, <1>5, <1>7

LEMMA DraftsLocked ==
  ASSUME BooksInv, NEW ms, lockDrafts(ms)
  PROVE  /\ lockable(ms, Txs) /\ \A m \in ms : status(m) = "draft"
         /\ UNCHANGED line /\ Approved' = Approved
         /\ sheet' \in [Months -> SheetRows \cup {None}]
         /\ \A m \in Months : sheet[m] # None => sheet'[m] # None
         /\ \A m \in ms \cap Months : sheet'[m] # None /\ ~approved(m)'
<1>1. None \notin SheetRows /\ Draft \in SheetRows
  BY PayrollAssumption DEF SheetRows, Draft
<1>2. /\ lockable(ms, Txs) /\ \A m \in ms : status(m) = "draft"
      /\ UNCHANGED line
      /\ sheet' = [m \in Months |-> IF m \in ms THEN sheetOf(m) ELSE sheet[m]]
  BY DEF lockDrafts
<1>3. sheet \in [Months -> SheetRows \cup {None}]
  BY DEF BooksInv, PayrollTypeOK
<1>4. \A m \in Months : sheetOf(m) \in SheetRows
  BY <1>1, <1>3 DEF sheetOf
<1>5. \A m \in Months : approved(m)' = approved(m)
  BY <1>1, <1>2, <1>3 DEF approved, sheetOf, Draft
<1>6. Approved' = Approved
  BY <1>5 DEF Approved
<1>7. \A m \in ms : ~approved(m)
  BY <1>2 DEF status
<1>8. sheet' \in [Months -> SheetRows \cup {None}]
  BY <1>2, <1>3, <1>4
<1>9. /\ \A m \in Months : sheet[m] # None => sheet'[m] # None
      /\ \A m \in ms \cap Months : sheet'[m] # None
  BY <1>1, <1>2, <1>4
<1> QED  BY <1>2, <1>5, <1>6, <1>7, <1>8, <1>9

-----------------------------------------------------------------------------
(* What is a draft made of: the entries.                                   *)

LEMMA SetWorkedDaysBooks ==
  ASSUME BooksInv, NEW m \in Months, NEW n \in WorkedDays, setWorkedDays(m, n)
  PROVE  BooksInv'
<1>1. None \notin SheetRows /\ Draft \in SheetRows
  BY PayrollAssumption DEF SheetRows, Draft
<1>2. sheet \in [Months -> SheetRows \cup {None}]
  BY DEF BooksInv, PayrollTypeOK
<1>3. sheetOf(m) \in SheetRows
  BY <1>1, <1>2 DEF sheetOf
<1> DEFINE row == [sheetOf(m) EXCEPT !.workedDays = n]
<1>4. row \in SheetRows /\ row.status = sheetOf(m).status
  BY <1>3 DEF SheetRows
<1>5. /\ sheet' = [sheet EXCEPT ![m] = row] /\ ~approved(m)
      /\ UNCHANGED <<thisMonth, given, line, entries, tx>>
  BY DEF setWorkedDays, status
<1>6. sheetOf(m).status = "draft"
  BY <1>3, <1>5 DEF sheetOf, Draft, approved, SheetRows
<1> HIDE DEF row
<1>7. /\ sheet' \in [Months -> SheetRows \cup {None}]
      /\ \A k \in Months : k # m => sheet'[k] = sheet[k]
      /\ sheet'[m] = row /\ row # None
  BY <1>1, <1>2, <1>4, <1>5
<1>8. \A k \in Months : approved(k)' <=> approved(k)
  BY <1>4, <1>5, <1>6, <1>7 DEF approved
<1>9. Approved' = Approved
  BY <1>8 DEF Approved
<1>10. PayrollTypeOK'
  BY <1>5, <1>7 DEF BooksInv, PayrollTypeOK, entries, InFlight
<1>11. \A k \in Months \ {} : countedOf(k)' = countedOf(k)
  BY <1>5 DEF countedOf, Live, inMonth, absencesOf, entries
<1>12. lockable({}, Txs) /\ \A k \in {} : status(k) = "draft"
  BY DEF lockable
<1>13. \A k \in Months : sheet[k] # None => sheet'[k] # None
  BY <1>7
<1>14. UNCHANGED <<line, tx>>
  BY <1>5
<1>15. SheetsAreLocked' /\ ComputedFromStanding' /\ ApprovedIsFrozen'
  BY <1>9, <1>11, <1>12, <1>13, <1>14, EntryStep
<1> QED  BY <1>10, <1>15 DEF BooksInv

LEMMA AddPaymentBooks ==
  ASSUME BooksInv, NEW p \in Payments, NEW m \in Months, addPayment(p, m)
  PROVE  BooksInv'
<1>1. None \notin SheetRows /\ Draft \in SheetRows
  BY PayrollAssumption DEF SheetRows, Draft
<1>2. /\ sheet \in [Months -> SheetRows \cup {None}]
      /\ payment \in [Payments -> PaymentRows \cup {None}]
  BY DEF BooksInv, PayrollTypeOK
<1>3. sheetOf(m) \in SheetRows
  BY <1>1, <1>2 DEF sheetOf
<1>4. /\ sheet' = [sheet EXCEPT ![m] = sheetOf(m)]
      /\ UNCHANGED <<thisMonth, given, line, absence, extra, adjustment, tx>>
  BY DEF addPayment
<1>5. /\ sheet' \in [Months -> SheetRows \cup {None}]
      /\ \A k \in Months : k # m => sheet'[k] = sheet[k]
      /\ sheet'[m] = sheetOf(m)
  BY <1>1, <1>2, <1>3, <1>4
<1>6. \A k \in Months : approved(k)' <=> approved(k)
  BY <1>1, <1>3, <1>5 DEF approved, sheetOf, Draft
<1>7. Approved' = Approved
  BY <1>6 DEF Approved
<1>8. approved(m) \in BOOLEAN
  BY DEF approved
<1> DEFINE row == [month |-> m, afterApproval |-> approved(m), voided |-> FALSE]
<1>9. row \in PaymentRows
  BY <1>8 DEF PaymentRows
<1>10. payment' = [payment EXCEPT ![p] = row]
  BY DEF addPayment
<1> HIDE DEF row
<1>11. payment' \in [Payments -> PaymentRows \cup {None}]
  BY <1>2, <1>9, <1>10
<1>12. PayrollTypeOK'
  BY <1>4, <1>5, <1>11 DEF BooksInv, PayrollTypeOK, InFlight
<1>13. \A k \in Months \ {} : countedOf(k)' = countedOf(k)
  BY <1>4 DEF countedOf, Live, inMonth, absencesOf
<1>14. lockable({}, Txs) /\ \A k \in {} : status(k) = "draft"
  BY DEF lockable
<1>15. \A k \in Months : sheet[k] # None => sheet'[k] # None
  BY <1>1, <1>3, <1>5
<1>16. UNCHANGED <<line, tx>>
  BY <1>4
<1>17. SheetsAreLocked' /\ ComputedFromStanding' /\ ApprovedIsFrozen'
  BY <1>7, <1>13, <1>14, <1>15, <1>16, EntryStep
<1> QED  BY <1>12, <1>17 DEF BooksInv

LEMMA VoidPaymentBooks ==
  ASSUME BooksInv, NEW p \in Payments, voidPayment(p)
  PROVE  BooksInv'
<1>1. payment[p] \in PaymentRows
  BY DEF BooksInv, PayrollTypeOK, voidPayment, Live
<1> DEFINE row == [payment[p] EXCEPT !.voided = TRUE]
<1>2. row \in PaymentRows
  BY <1>1 DEF PaymentRows
<1>3. /\ payment' = [payment EXCEPT ![p] = row]
      /\ UNCHANGED <<thisMonth, given, books, absence, extra, adjustment, tx>>
  BY DEF voidPayment
<1> HIDE DEF row
<1>4. payment' \in [Payments -> PaymentRows \cup {None}]
  BY <1>2, <1>3 DEF BooksInv, PayrollTypeOK
<1>5. PayrollTypeOK'
  BY <1>3, <1>4 DEF BooksInv, PayrollTypeOK, InFlight, books
<1>6. Approved' = Approved /\ \A k \in Months \ {} : countedOf(k)' = countedOf(k)
  BY <1>3 DEF countedOf, Live, inMonth, absencesOf, Approved, approved, books
<1>7. lockable({}, Txs) /\ \A k \in {} : status(k) = "draft"
  BY DEF lockable
<1>8. UNCHANGED <<line, tx>> /\ \A k \in Months : sheet[k] # None => sheet'[k] # None
  BY <1>3 DEF books
<1>9. SheetsAreLocked' /\ ComputedFromStanding' /\ ApprovedIsFrozen'
  BY <1>6, <1>7, <1>8, EntryStep
<1> QED  BY <1>5, <1>9 DEF BooksInv

LEMMA AdjustmentBooks ==
  ASSUME BooksInv, NEW j \in Adjustments, NEW row \in AdjustmentEntries,
         adjustment[j] # None => adjustment[j].month = row.month,
         lockDrafts({row.month}), adjustment' = [adjustment EXCEPT ![j] = row],
         UNCHANGED <<thisMonth, terms, given, absence, extra, payment, tx>>
  PROVE  BooksInv'
<1>1. row.month \in Months
  BY DEF AdjustmentEntries
<1>2. adjustment' \in [Adjustments -> AdjustmentEntries \cup {None}]
  BY DEF BooksInv, PayrollTypeOK
<1>3. PayrollTypeOK'
  BY <1>2, DraftsLocked DEF BooksInv, PayrollTypeOK, InFlight
<1>5. ASSUME NEW m \in Months \ {row.month}
      PROVE  (Live(adjustment) \cap inMonth(adjustment, m))'
                = Live(adjustment) \cap inMonth(adjustment, m)
  BY <1>2, <1>5 DEF inMonth, Live, BooksInv, PayrollTypeOK
<1>6. \A m \in Months \ {row.month} : countedOf(m)' = countedOf(m)
  BY <1>5 DEF countedOf, Live, inMonth, absencesOf
<1>7. SheetsAreLocked' /\ ComputedFromStanding' /\ ApprovedIsFrozen'
  BY <1>6, DraftsLocked, EntryStep
<1> QED  BY <1>3, <1>7 DEF BooksInv

LEMMA AddAdjustmentBooks ==
  ASSUME BooksInv, NEW j \in Adjustments, NEW m \in Months,
         NEW amount \in AdjustmentAmounts, addAdjustment(j, m, amount)
  PROVE  BooksInv'
<1> DEFINE row == [month |-> m, amount |-> amount, voided |-> FALSE]
<1>1. row \in AdjustmentEntries /\ row.month = m
  BY DEF AdjustmentEntries
<1>2. adjustment' = [adjustment EXCEPT ![j] = row]
  BY DEF addAdjustment
<1> HIDE DEF row
<1> QED  BY <1>1, <1>2, AdjustmentBooks DEF addAdjustment

LEMMA VoidAdjustmentBooks ==
  ASSUME BooksInv, NEW j \in Adjustments, voidAdjustment(j)
  PROVE  BooksInv'
<1>1. adjustment[j] \in AdjustmentEntries
  BY DEF voidAdjustment, Live, BooksInv, PayrollTypeOK
<1> DEFINE row == [adjustment[j] EXCEPT !.voided = TRUE]
<1>2. row \in AdjustmentEntries /\ row.month = adjustment[j].month
  BY <1>1 DEF AdjustmentEntries
<1>3. adjustment' = [adjustment EXCEPT ![j] = row]
  BY DEF voidAdjustment
<1> HIDE DEF row
<1> QED  BY <1>2, <1>3, AdjustmentBooks DEF voidAdjustment

LEMMA ExtraHoursBooks ==
  ASSUME BooksInv, NEW k \in Extras, NEW row \in HourEntries,
         extra[k] # None => extra[k].month = row.month,
         lockDrafts({row.month}), extra' = [extra EXCEPT ![k] = row],
         UNCHANGED <<thisMonth, terms, given, absence, adjustment, payment, tx>>
  PROVE  BooksInv'
<1>1. row.month \in Months
  BY DEF HourEntries
<1>2. extra' \in [Extras -> HourEntries \cup {None}]
  BY DEF BooksInv, PayrollTypeOK
<1>3. PayrollTypeOK'
  BY <1>2, DraftsLocked DEF BooksInv, PayrollTypeOK, InFlight
<1>4. ASSUME NEW m \in Months \ {row.month}
      PROVE  (Live(extra) \cap inMonth(extra, m))' = Live(extra) \cap inMonth(extra, m)
  BY <1>2, <1>4 DEF inMonth, Live, BooksInv, PayrollTypeOK
<1>5. \A m \in Months \ {row.month} : countedOf(m)' = countedOf(m)
  BY <1>4 DEF countedOf, Live, inMonth, absencesOf
<1>6. SheetsAreLocked' /\ ComputedFromStanding' /\ ApprovedIsFrozen'
  BY <1>5, DraftsLocked, EntryStep
<1> QED  BY <1>3, <1>6 DEF BooksInv

LEMMA AddExtraHoursBooks ==
  ASSUME BooksInv, NEW k \in Extras, NEW row \in ExtraRows, addExtraHours(k, row)
  PROVE  BooksInv'
<1>1. row \in HourEntries
  BY PayrollAssumption
<1> QED  BY <1>1, ExtraHoursBooks DEF addExtraHours

LEMMA VoidExtraHoursBooks ==
  ASSUME BooksInv, NEW k \in Extras, voidExtraHours(k)
  PROVE  BooksInv'
<1>1. extra[k] \in HourEntries
  BY DEF voidExtraHours, Live, BooksInv, PayrollTypeOK
<1> DEFINE row == [extra[k] EXCEPT !.voided = TRUE]
<1>2. row \in HourEntries /\ row.month = extra[k].month
  BY <1>1 DEF HourEntries
<1>3. extra' = [extra EXCEPT ![k] = row]
  BY DEF voidExtraHours
<1> HIDE DEF row
<1> QED  BY <1>2, <1>3, ExtraHoursBooks DEF voidExtraHours

(* An absence counts in the months whose sheets it locks, and in no other. *)
LEMMA AbsenceBooks ==
  ASSUME BooksInv, NEW a \in Absences, NEW row \in AbsenceEntries,
         absence[a] # None =>
           absence[a].start = row.start /\ absence[a].end = row.end,
         lockMonths(row), absence' = [absence EXCEPT ![a] = row],
         UNCHANGED <<thisMonth, terms, given, extra, adjustment, payment, tx>>
  PROVE  BooksInv'
<1> DEFINE ms == monthOf(row.start)..monthOf(row.end)
<1>1. row.start \in Int /\ row.end \in Int
  BY DEF AbsenceEntries
<1>2. monthOf(row.start) \in Int /\ monthOf(row.end) \in Int
  BY <1>1, PayrollAssumption DEF monthOf
<1>3. ASSUME NEW m \in Months \ ms
      PROVE  ~(monthOf(row.start) <= m /\ m <= monthOf(row.end))
  <2>1. m \in Int /\ m \notin monthOf(row.start)..monthOf(row.end)
    BY PayrollAssumption
  <2> HIDE DEF ms
  <2> QED  BY <2>1, <1>2
<1>4. lockDrafts(ms)
  BY DEF lockMonths
<1> HIDE DEF ms
<1>5. absence' \in [Absences -> AbsenceEntries \cup {None}]
  BY DEF BooksInv, PayrollTypeOK
<1>6. PayrollTypeOK'
  BY <1>4, <1>5, DraftsLocked DEF BooksInv, PayrollTypeOK, InFlight
<1>7. ASSUME NEW m \in Months \ ms
      PROVE  absencesOf(m)' = absencesOf(m) /\ a \notin absencesOf(m)
  BY <1>3, <1>5, <1>7 DEF absencesOf, BooksInv, PayrollTypeOK
<1>8. \A b \in Absences \ {a} : absence'[b] = absence[b]
  BY DEF BooksInv, PayrollTypeOK
<1>9. ASSUME NEW m \in Months \ ms
      PROVE  (Live(absence) \cap absencesOf(m))' = Live(absence) \cap absencesOf(m)
  BY <1>5, <1>7, <1>8, <1>9 DEF Live, absencesOf, BooksInv, PayrollTypeOK
<1>10. \A m \in Months \ ms : countedOf(m)' = countedOf(m)
  BY <1>9 DEF countedOf, Live, inMonth
<1>11. SheetsAreLocked' /\ ComputedFromStanding' /\ ApprovedIsFrozen'
  BY <1>4, <1>10, DraftsLocked, EntryStep
<1> QED  BY <1>6, <1>11 DEF BooksInv

LEMMA AddAbsenceBooks ==
  ASSUME BooksInv, NEW a \in Absences, NEW row \in AbsenceRows, addAbsence(a, row)
  PROVE  BooksInv'
<1>1. row \in AbsenceEntries
  BY PayrollAssumption
<1> QED  BY <1>1, AbsenceBooks DEF addAbsence

LEMMA VoidAbsenceBooks ==
  ASSUME BooksInv, NEW a \in Absences, voidAbsence(a)
  PROVE  BooksInv'
<1>1. absence[a] \in AbsenceEntries
  BY DEF voidAbsence, Live, BooksInv, PayrollTypeOK
<1> DEFINE row == [absence[a] EXCEPT !.voided = TRUE]
<1>2. row \in AbsenceEntries /\ row.start = absence[a].start /\ row.end = absence[a].end
  BY <1>1 DEF AbsenceEntries
<1>3. lockMonths(row)
  BY <1>2 DEF voidAbsence, lockMonths
<1>4. absence' = [absence EXCEPT ![a] = row]
  BY DEF voidAbsence
<1> HIDE DEF row
<1> QED  BY <1>2, <1>3, <1>4, AbsenceBooks DEF voidAbsence

(* What happens elsewhere touches neither sheets nor entries.              *)
LEMMA ElsewhereBooks ==
  ASSUME BooksInv, UNCHANGED <<books, entries, tx>>,
         thisMonth' \in Months, given' \subseteq Lessons
  PROVE  BooksInv'
<1>1. PayrollTypeOK'
  BY DEF BooksInv, PayrollTypeOK, books, entries, InFlight
<1>2. Approved' = Approved /\ \A k \in Months \ {} : countedOf(k)' = countedOf(k)
  BY DEF countedOf, Live, inMonth, absencesOf, Approved, approved, books, entries
<1>3. lockable({}, Txs) /\ \A k \in {} : status(k) = "draft"
  BY DEF lockable
<1>4. UNCHANGED <<line, tx>> /\ \A k \in Months : sheet[k] # None => sheet'[k] # None
  BY DEF books
<1>5. SheetsAreLocked' /\ ComputedFromStanding' /\ ApprovedIsFrozen'
  BY <1>2, <1>3, <1>4, EntryStep
<1> QED  BY <1>1, <1>5 DEF BooksInv

-----------------------------------------------------------------------------
(* Approving and opening again.                                            *)

LEMMA StandingKept ==
  ASSUME UNCHANGED <<absence, extra, adjustment>>, NEW m
  PROVE  countedOf(m)' = countedOf(m)
BY DEF countedOf, Live, inMonth, absencesOf

(* What the other transactions know when one begins, goes on or ends.      *)
LEMMA OthersKept ==
  ASSUME BooksInv, NEW t \in Txs, NEW row, tx' = [tx EXCEPT ![t] = row]
  PROVE  /\ tx'[t] = row /\ \A u \in Txs \ {t} : tx'[u] = tx[u]
         /\ tx' = [u \in Txs |-> tx'[u]]
         /\ \A u \in Txs \ {t} : (u \in InFlight)' <=> u \in InFlight
         /\ \A u \in Txs \ {t} : \A m : locked(u, m)' <=> locked(u, m)
         /\ (t \in InFlight)' <=> row.op # "idle"
         /\ \A m : locked(t, m)' <=> row.op # "idle" /\ m \in row.held
<1>1. /\ tx'[t] = row /\ \A u \in Txs \ {t} : tx'[u] = tx[u]
      /\ tx' = [u \in Txs |-> tx'[u]]
  BY DEF BooksInv, PayrollTypeOK
<1>2. /\ \A u \in Txs \ {t} : (u \in InFlight)' <=> u \in InFlight
      /\ (t \in InFlight)' <=> row.op # "idle"
  BY <1>1 DEF InFlight
<1> QED  BY <1>1, <1>2 DEF locked

(* A step of an approval or a reopening: what it holds afterwards nobody    *)
(* else held, and no sheet that another holds becomes approved.            *)
LEMMA ApprovalStep ==
  ASSUME BooksInv, NEW t \in Txs, NEW row, tx' = [tx EXCEPT ![t] = row],
         row.op \in {"idle", "approve", "commit", "reopen"},
         row.op # "idle" =>
           /\ row.month \in Months /\ row.held \subseteq Months
           /\ row.want \subseteq Months
           /\ lockable(row.held, Txs \ {t}),
         row.op \in {"approve", "commit"} =>
           /\ row.month \in row.held
           /\ ~approved(row.month)' /\ sheet'[row.month] # None,
         row.op = "commit" => row.lines.from = countedOf(row.month),
         sheet' \in [Months -> SheetRows \cup {None}],
         \A k \in Months : sheet[k] # None => sheet'[k] # None,
         \A u \in Txs \ {t} : \A k \in Months :
           locked(u, k) => (approved(k)' => approved(k)),
         payment' \in [Payments -> PaymentRows \cup {None}],
         line' = [m \in Months |-> line'[m]],
         \A m \in Approved' : line'[m].from = countedOf(m),
         UNCHANGED <<thisMonth, given, absence, extra, adjustment>>
  PROVE  BooksInv'
<1>1. /\ tx'[t] = row /\ \A u \in Txs \ {t} : tx'[u] = tx[u]
      /\ tx' = [u \in Txs |-> tx'[u]]
      /\ \A u \in Txs \ {t} : (u \in InFlight)' <=> u \in InFlight
      /\ \A u \in Txs \ {t} : \A k : locked(u, k)' <=> locked(u, k)
      /\ (t \in InFlight)' <=> row.op # "idle"
      /\ \A k : locked(t, k)' <=> row.op # "idle" /\ k \in row.held
  BY OthersKept
<1>2. PayrollTypeOK'
  BY <1>1 DEF BooksInv, PayrollTypeOK
<1>3. \A u \in Txs \ {t} : \A k : row.op # "idle" /\ k \in row.held => ~locked(u, k)
  BY DEF lockable
<1>4. \A u, v \in Txs : \A k \in Months : locked(u, k)' /\ locked(v, k)' => u = v
  BY <1>1, <1>3 DEF BooksInv, SheetsAreLocked
<1>5. ASSUME NEW u \in Txs, tx'[u].op \in {"approve", "commit"}
      PROVE  (locked(u, tx[u].month) /\ ~approved(tx[u].month)
                /\ sheet[tx[u].month] # None)'
  <2>1. CASE u = t
    BY <2>1, <1>1, <1>5
  <2>2. CASE u # t
    <3>1. /\ tx[u].op \in {"approve", "commit"} /\ tx'[u].month = tx[u].month
          /\ tx[u].month \in Months
          /\ locked(u, tx[u].month) /\ ~approved(tx[u].month)
          /\ sheet[tx[u].month] # None
      BY <2>2, <1>1, <1>5 DEF BooksInv, SheetsAreLocked, PayrollTypeOK, InFlight
    <3> QED  BY <3>1, <2>2, <1>1
  <2> QED  BY <2>1, <2>2
<1>6. SheetsAreLocked'
  BY <1>4, <1>5 DEF SheetsAreLocked
<1>7. \A k : countedOf(k)' = countedOf(k)
  BY StandingKept
<1>8. ComputedFromStanding'
  BY <1>1, <1>7 DEF BooksInv, ComputedFromStanding
<1>9. ApprovedIsFrozen'
  BY <1>7 DEF ApprovedIsFrozen, countedOf
<1> QED  BY <1>2, <1>6, <1>8, <1>9 DEF BooksInv

LEMMA BeginApproveBooks ==
  ASSUME BooksInv, NEW t \in Txs, NEW m \in Months, BeginApprove(t, m)
  PROVE  BooksInv'
<1> DEFINE row == [op |-> "approve", month |-> m, want |-> Approved, held |-> {m}]
<1>1. /\ row.op = "approve" /\ row.month = m /\ row.want \subseteq Months
      /\ row.held = {m}
  BY DEF Approved
<1>2. tx' = [tx EXCEPT ![t] = row]
  BY DEF BeginApprove
<1> HIDE DEF row
<1>3. lockDrafts({m}) /\ UNCHANGED <<thisMonth, given, entries>>
  BY DEF BeginApprove
<1>4. /\ lockable({m}, Txs) /\ UNCHANGED line /\ Approved' = Approved
      /\ sheet' \in [Months -> SheetRows \cup {None}]
      /\ \A k \in Months : sheet[k] # None => sheet'[k] # None
      /\ sheet'[m] # None /\ ~approved(m)'
  BY <1>3, DraftsLocked
<1>5. lockable({m}, Txs \ {t})
  BY <1>4 DEF lockable
<1>6. \A k \in Months : approved(k)' <=> approved(k)
  BY <1>4 DEF Approved
<1>7. \A k \in Approved' : line'[k].from = countedOf(k)
  BY <1>4 DEF BooksInv, ApprovedIsFrozen, countedOf
<1>8. /\ payment' \in [Payments -> PaymentRows \cup {None}]
      /\ line' = [k \in Months |-> line'[k]]
  BY <1>3, <1>4 DEF BooksInv, PayrollTypeOK, entries
<1>9. UNCHANGED <<thisMonth, given, absence, extra, adjustment>>
  BY <1>3 DEF entries
<1> QED  BY <1>1, <1>2, <1>4, <1>5, <1>6, <1>7, <1>8, <1>9, ApprovalStep

(* A step that changes transactions and nothing else.                      *)
LEMMA BooksKept ==
  ASSUME BooksInv, UNCHANGED <<thisMonth, given, books, entries>>
  PROVE  /\ sheet' \in [Months -> SheetRows \cup {None}]
         /\ \A k \in Months : sheet[k] # None => sheet'[k] # None
         /\ \A k \in Months : approved(k)' <=> approved(k)
         /\ payment' \in [Payments -> PaymentRows \cup {None}]
         /\ line' = [k \in Months |-> line'[k]]
         /\ \A k \in Approved' : line'[k].from = countedOf(k)
         /\ UNCHANGED <<thisMonth, given, absence, extra, adjustment>>
BY DEF BooksInv, PayrollTypeOK, ApprovedIsFrozen, countedOf, books, entries, Approved,
       approved

LEMMA BeginReopenBooks ==
  ASSUME BooksInv, NEW t \in Txs, NEW m \in Months, BeginReopen(t, m)
  PROVE  BooksInv'
<1> DEFINE row == [op |-> "reopen", month |-> m, want |-> Approved, held |-> {}]
<1>1. /\ row.op = "reopen" /\ row.month = m /\ row.want \subseteq Months
      /\ row.held = {}
  BY DEF Approved
<1>2. tx' = [tx EXCEPT ![t] = row]
  BY DEF BeginReopen
<1> HIDE DEF row
<1>3. lockable({}, Txs \ {t})
  BY DEF lockable
<1>4. UNCHANGED <<thisMonth, given, books, entries>>
  BY DEF BeginReopen
<1> QED  BY <1>1, <1>2, <1>3, <1>4, BooksKept, ApprovalStep

LEMMA AbortBooks ==
  ASSUME BooksInv, NEW t \in Txs, Abort(t)
  PROVE  BooksInv'
<1>1. tx' = [tx EXCEPT ![t] = Idle] /\ Idle.op = "idle"
  BY DEF Abort, Idle
<1>2. UNCHANGED <<thisMonth, given, books, entries>>
  BY DEF Abort
<1> QED  BY <1>1, <1>2, BooksKept, ApprovalStep

(* A sheet is made from the entries of its month that stand.               *)
LEMMA ComputedFrom ==
  ASSUME NEW m
  PROVE  computeSheet(m).from = countedOf(m)
BY DEF computeSheet, countedOf

LEMMA ComputeApproveBooks ==
  ASSUME BooksInv, NEW t \in Txs, ComputeApprove(t)
  PROVE  BooksInv'
<1>1. /\ lockable(tx[t].want, Txs \ {t}) /\ t \in InFlight
      /\ tx[t].op = "approve" /\ UNCHANGED <<thisMonth, given, books, entries>>
  BY DEF ComputeApprove, granted
<1> PICK m \in Months : m = tx[t].month
  BY <1>1 DEF BooksInv, PayrollTypeOK
<1>2. /\ tx[t].want \subseteq Months
      /\ tx[t].held \subseteq Months /\ m \in tx[t].held
      /\ ~approved(m) /\ sheet[m] # None
  BY <1>1 DEF BooksInv, PayrollTypeOK, SheetsAreLocked, locked
<1> DEFINE more == tx[t].want \cap Approved
           lines == computeSheet(tx[t].month)
           next == [op |-> "commit", month |-> tx[t].month, want |-> tx[t].want,
                    held |-> tx[t].held \cup more, lines |-> lines]
<1>3. lines.from = countedOf(m)
  BY ComputedFrom
<1>4. tx' = [tx EXCEPT ![t] = next]
  BY DEF ComputeApprove
<1>5. more \subseteq tx[t].want
  OBVIOUS
<1> HIDE DEF lines, more
<1> PICK row : row = next
  OBVIOUS
<1>6. /\ row.op = "commit" /\ row.month = m /\ row.want = tx[t].want
      /\ row.held = tx[t].held \cup more /\ row.lines = lines
  OBVIOUS
<1> HIDE DEF next
<1>7. \A u \in Txs \ {t} : \A k \in tx[t].held : ~locked(u, k)
  BY <1>1, <1>2 DEF BooksInv, SheetsAreLocked, locked
<1>8. lockable(row.held, Txs \ {t})
  BY <1>1, <1>5, <1>6, <1>7 DEF lockable
<1>9. row.held \subseteq Months
  BY <1>2, <1>5, <1>6
<1>10. ~approved(m)' /\ sheet'[m] # None
  BY <1>1, <1>2 DEF books, approved
<1>11. ~approved(row.month)' /\ sheet'[row.month] # None
  BY <1>6, <1>10
<1> QED
  BY <1>1, <1>2, <1>3, <1>4, <1>6, <1>8, <1>9, <1>11, BooksKept, ApprovalStep

LEMMA CommitApproveBooks ==
  ASSUME BooksInv, NEW t \in Txs, CommitApprove(t)
  PROVE  BooksInv'
<1>1. tx' = [tx EXCEPT ![t] = Idle] /\ Idle.op = "idle"
  BY DEF CommitApprove, Idle
<1>2. tx[t].op = "commit" /\ t \in InFlight
  BY DEF CommitApprove, InFlight
<1> PICK m \in Months : m = tx[t].month
  BY <1>2 DEF BooksInv, PayrollTypeOK
<1>3. /\ locked(t, m) /\ ~approved(m) /\ sheet[m] # None
      /\ tx[t].lines.from = countedOf(m)
  BY <1>2 DEF BooksInv, SheetsAreLocked, ComputedFromStanding
<1>4. /\ sheet' = [sheet EXCEPT ![m].status = "approved"]
      /\ line' = [line EXCEPT ![m] = tx[t].lines]
      /\ UNCHANGED <<thisMonth, terms, given, absence, extra, adjustment>>
  BY DEF CommitApprove
<1>5. /\ sheet \in [Months -> SheetRows \cup {None}]
      /\ payment \in [Payments -> PaymentRows \cup {None}]
      /\ line = [k \in Months |-> line[k]]
  BY DEF BooksInv, PayrollTypeOK
<1>6. sheet[m] \in SheetRows
  BY <1>3, <1>5
<1>7. [sheet[m] EXCEPT !.status = "approved"] \in SheetRows
  BY <1>6 DEF SheetRows
<1>8. /\ sheet'[m] = [sheet[m] EXCEPT !.status = "approved"]
      /\ \A k \in Months \ {m} : sheet'[k] = sheet[k]
      /\ sheet' = [k \in Months |-> sheet'[k]]
  BY <1>4, <1>5
<1>9. sheet' \in [Months -> SheetRows \cup {None}]
  BY <1>5, <1>7, <1>8
<1>10. None \notin SheetRows
  BY PayrollAssumption
<1>11. \A k \in Months : sheet[k] # None => sheet'[k] # None
  BY <1>7, <1>8, <1>10
<1>12. \A k \in Months \ {m} : approved(k)' <=> approved(k)
  BY <1>8 DEF approved
<1>13. \A u \in Txs \ {t} : \A k \in Months :
         locked(u, k) => (approved(k)' => approved(k))
  BY <1>3, <1>12 DEF BooksInv, SheetsAreLocked
<1>14. /\ line'[m] = tx[t].lines /\ \A k \in Months \ {m} : line'[k] = line[k]
       /\ line' = [k \in Months |-> line'[k]]
  BY <1>4, <1>5
<1>15. \A k \in Approved' : line'[k].from = countedOf(k)
  BY <1>3, <1>12, <1>14, ZenonT(60) DEF BooksInv, ApprovedIsFrozen, countedOf, Approved
<1>16. ASSUME NEW p \in Payments
       PROVE  payment'[p] \in PaymentRows \cup {None}
  <2>1. payment'[p] = IF p \in inMonth(payment, m)
                     THEN [payment[p] EXCEPT !.afterApproval = FALSE] ELSE payment[p]
    BY DEF CommitApprove
  <2>2. CASE p \in inMonth(payment, m)
    <3>1. payment[p] \in PaymentRows
      BY <1>5, <2>2 DEF inMonth
    <3>2. [payment[p] EXCEPT !.afterApproval = FALSE] \in PaymentRows
      BY <3>1 DEF PaymentRows
    <3> QED  BY <2>1, <2>2, <3>2
  <2>3. CASE p \notin inMonth(payment, m)
    BY <1>5, <2>1, <2>3
  <2> QED  BY <2>2, <2>3
<1>17. payment' = [p \in Payments |-> payment'[p]]
  BY DEF CommitApprove
<1>18. payment' \in [Payments -> PaymentRows \cup {None}]
  BY <1>16, <1>17
<1> QED
  BY <1>1, <1>4, <1>9, <1>11, <1>13, <1>14, <1>15, <1>18, ApprovalStep

LEMMA ReopenBooks ==
  ASSUME BooksInv, NEW t \in Txs, Reopen(t)
  PROVE  BooksInv'
<1>1. tx' = [tx EXCEPT ![t] = Idle] /\ Idle.op = "idle"
  BY DEF Reopen, Idle
<1>2. tx[t].op = "reopen" /\ t \in InFlight /\ UNCHANGED <<thisMonth, given, entries>>
  BY DEF Reopen, InFlight
<1> PICK m \in Months : m = tx[t].month
  BY <1>2 DEF BooksInv, PayrollTypeOK
<1>3. CASE UNCHANGED books
  BY <1>1, <1>2, <1>3, BooksKept, ApprovalStep
<1>4. CASE /\ approved(m) /\ sheet' = [sheet EXCEPT ![m].status = "draft"]
           /\ line' = [line EXCEPT ![m] = None]
  <2>1. /\ sheet \in [Months -> SheetRows \cup {None}]
        /\ payment \in [Payments -> PaymentRows \cup {None}]
        /\ line = [k \in Months |-> line[k]]
    BY DEF BooksInv, PayrollTypeOK
  <2>2. sheet[m] \in SheetRows
    BY <1>4, <2>1 DEF approved
  <2>3. /\ [sheet[m] EXCEPT !.status = "draft"] \in SheetRows
        /\ [sheet[m] EXCEPT !.status = "draft"].status = "draft"
    BY <2>2 DEF SheetRows
  <2>4. /\ sheet'[m] = [sheet[m] EXCEPT !.status = "draft"]
        /\ \A k \in Months \ {m} : sheet'[k] = sheet[k]
        /\ sheet' = [k \in Months |-> sheet'[k]]
    BY <1>4, <2>1
  <2>5. sheet' \in [Months -> SheetRows \cup {None}]
    BY <2>1, <2>3, <2>4
  <2>6. None \notin SheetRows
    BY PayrollAssumption
  <2>7. \A k \in Months : sheet[k] # None => sheet'[k] # None
    BY <2>3, <2>4, <2>6
  <2>8. ~approved(m)' /\ \A k \in Months \ {m} : approved(k)' <=> approved(k)
    BY <2>3, <2>4 DEF approved
  <2>9. \A u \in Txs \ {t} : \A k \in Months :
          locked(u, k) => (approved(k)' => approved(k))
    BY <2>8
  <2>10. /\ \A k \in Months \ {m} : line'[k] = line[k]
         /\ line' = [k \in Months |-> line'[k]]
    BY <1>4, <2>1
  <2>11. \A k \in Approved' : line'[k].from = countedOf(k)
    BY <2>8, <2>10 DEF BooksInv, ApprovedIsFrozen, countedOf, Approved
  <2>12. /\ UNCHANGED <<thisMonth, given, absence, extra, adjustment>>
         /\ payment' \in [Payments -> PaymentRows \cup {None}]
    BY <1>2, <2>1 DEF entries
  <2> QED
    BY <1>1, <2>5, <2>7, <2>9, <2>10, <2>11, <2>12, ApprovalStep
<1> QED  BY <1>3, <1>4 DEF Reopen

LEMMA NextBooks == BooksInv /\ [PayrollNext]_payrollVars => BooksInv'
<1> SUFFICES ASSUME BooksInv, [PayrollNext]_payrollVars PROVE BooksInv'
  OBVIOUS
<1> USE DEF Approval, Entry, Elsewhere
<1>1. ASSUME NEW t \in Txs, Approval(t) PROVE BooksInv'
  BY <1>1, BeginApproveBooks, BeginReopenBooks, ComputeApproveBooks,
     CommitApproveBooks, ReopenBooks, AbortBooks
<1>2. ASSUME Entry PROVE BooksInv'
  BY <1>2, SetWorkedDaysBooks, AddAdjustmentBooks, VoidAdjustmentBooks,
     AddPaymentBooks, VoidPaymentBooks, AddExtraHoursBooks, VoidExtraHoursBooks,
     AddAbsenceBooks, VoidAbsenceBooks
<1>3. ASSUME Elsewhere PROVE BooksInv'
  <2>1. ASSUME NEW l \in Lessons, ChangeLesson(l) PROVE BooksInv'
    BY <2>1, ElsewhereBooks DEF ChangeLesson, BooksInv, PayrollTypeOK
  <2>2. ASSUME NEW t \in terms, NEW day \in CloseDays, close(t, day) PROVE BooksInv'
    BY <2>2, ElsewhereBooks DEF close, BooksInv, PayrollTypeOK
  <2>3. ASSUME NextMonth PROVE BooksInv'
    BY <2>3, ElsewhereBooks DEF NextMonth, BooksInv, PayrollTypeOK
  <2> QED  BY <1>3, <2>1, <2>2, <2>3
<1>4. ASSUME UNCHANGED payrollVars PROVE BooksInv'
  BY <1>4, ElsewhereBooks DEF payrollVars, BooksInv, PayrollTypeOK
<1> QED  BY <1>1, <1>2, <1>3, <1>4 DEF PayrollNext

(* The sheets, the entries and the transactions keep their types.          *)
THEOREM PayrollTypeCorrect == PayrollSpec => []PayrollTypeOK
<1>1. BooksInv => PayrollTypeOK
  BY DEF BooksInv
<1> QED  BY <1>1, InitBooks, NextBooks, PTL DEF PayrollSpec

(* An approved month rests on exactly the entries that stand for it, from  *)
(* its approval on and for as long as it is approved, whoever adds or voids*)
(* entries, approves and opens months at the same time.                    *)
THEOREM EntriesStayFrozen == PayrollSpec => []ApprovedIsFrozen
<1>1. BooksInv => ApprovedIsFrozen
  BY DEF BooksInv
<1> QED  BY <1>1, InitBooks, NextBooks, PTL DEF PayrollSpec

-----------------------------------------------------------------------------
(* Corrections                                                             *)

(* A month a that stays approved is asked for by everybody who approves or *)
(* opens, so that of those who have computed there is one at a time, and   *)
(* nothing is opened before it has committed.                              *)
Anchored(a) ==
  /\ CorrectionsHaveBase
  /\ \A t \in Txs :
       /\ tx[t].op # "idle" => a \in tx[t].want
       /\ tx[t].op = "commit" =>
            /\ a \in tx[t].held
            /\ \A b \in tx[t].lines.lessons :
                 monthOf(b.lesson.day) \in Approved \cup {tx[t].month}

(* The lines of a sheet are about its month and about approved ones.       *)
LEMMA ComputedMonths ==
  ASSUME CorrectionsHaveBase, NEW m \in Months,
         NEW b \in computeSheet(m).lessons
  PROVE  monthOf(b.lesson.day) \in Approved \cup {m}
<1> DEFINE past == {s \in Approved : s < m}
           fresh == lessonLines(lessonsIn({m}), terms)
           fixes == IF past = {} THEN {}
                    ELSE correctionLines(lessonsIn(past), booked(m), terms)
<1>1. computeSheet(m).lessons =
        {[sheet |-> m, lesson |-> c.lesson, amount |-> c.amount] : c \in fresh \cup fixes}
  BY DEF computeSheet
<1>2. ASSUME NEW c \in fresh PROVE monthOf(c.lesson.day) = m
  BY <1>2 DEF lessonLines, counted, lessonsIn
<1>3. ASSUME NEW c \in booked(m) PROVE monthOf(c.lesson.day) \in Approved
  BY <1>3 DEF booked, CorrectionsHaveBase
<1>4. ASSUME NEW c \in fixes PROVE monthOf(c.lesson.day) \in Approved
  <2>1. c.lesson \in lessonsIn(past) \/ \E k \in booked(m) : c.lesson = k.lesson
    BY <1>4 DEF correctionLines, lessonLines, counted
  <2> QED  BY <2>1, <1>3 DEF lessonsIn
<1> HIDE DEF fresh, fixes
<1>5. PICK c \in fresh \cup fixes : b.lesson = c.lesson
  BY <1>1
<1> QED  BY <1>2, <1>4, <1>5

(* Steps that leave the approvals and the transactions alone.              *)
LEMMA AnchorKept ==
  ASSUME NEW a, Anchored(a), UNCHANGED <<line, tx>>, Approved' = Approved
  PROVE  Anchored(a)'
BY DEF Anchored, CorrectionsHaveBase

(* A transaction that begins or ends, the others going on as they were.    *)
LEMMA AnchorStep ==
  ASSUME NEW a, Anchored(a), BooksInv, NEW t \in Txs, NEW row,
         tx' = [tx EXCEPT ![t] = row], row.op \in {"idle", "approve", "reopen"},
         row.op # "idle" => a \in row.want,
         UNCHANGED line, Approved' = Approved
  PROVE  Anchored(a)'
<1>1. tx'[t] = row /\ \A u \in Txs \ {t} : tx'[u] = tx[u]
  BY OthersKept
<1> QED  BY <1>1 DEF Anchored, CorrectionsHaveBase

LEMMA EntryAnchored ==
  ASSUME NEW a, Anchored(a), BooksInv, Entry
  PROVE  Anchored(a)'
<1>1. ASSUME NEW ms, lockDrafts(ms)
      PROVE  UNCHANGED line /\ Approved' = Approved
  BY <1>1, DraftsLocked
<1>2. ASSUME NEW m \in Months, NEW n \in WorkedDays, setWorkedDays(m, n)
      PROVE  Anchored(a)'
  <2>1. None \notin SheetRows /\ sheet \in [Months -> SheetRows \cup {None}]
    BY PayrollAssumption DEF BooksInv, PayrollTypeOK
  <2>2. sheetOf(m) \in SheetRows /\ sheetOf(m).status = "draft"
    BY <1>2, <2>1 DEF sheetOf, Draft, setWorkedDays, status, approved, SheetRows
  <2>3. /\ [sheetOf(m) EXCEPT !.workedDays = n].status = "draft"
        /\ sheet' = [sheet EXCEPT ![m] = [sheetOf(m) EXCEPT !.workedDays = n]]
        /\ ~approved(m) /\ UNCHANGED <<line, tx>>
    BY <1>2, <2>2 DEF setWorkedDays, status, SheetRows
  <2>4. \A k \in Months : approved(k)' <=> approved(k)
    BY <2>1, <2>3 DEF approved
  <2>5. Approved' = Approved
    BY <2>4 DEF Approved
  <2> QED  BY <2>3, <2>5, AnchorKept
<1>3. ASSUME NEW p \in Payments, NEW m \in Months, addPayment(p, m)
      PROVE  Anchored(a)'
  <2>1. None \notin SheetRows /\ sheet \in [Months -> SheetRows \cup {None}]
    BY PayrollAssumption DEF BooksInv, PayrollTypeOK
  <2>2. \A k \in Months : approved(k)' <=> approved(k)
    BY <1>3, <2>1 DEF approved, addPayment, sheetOf, Draft
  <2>3. Approved' = Approved /\ UNCHANGED <<line, tx>>
    BY <1>3, <2>2 DEF Approved, addPayment
  <2> QED  BY <2>3, AnchorKept
<1>4. ASSUME NEW p \in Payments, voidPayment(p) PROVE Anchored(a)'
  <2>1. Approved' = Approved /\ UNCHANGED <<line, tx>>
    BY <1>4 DEF voidPayment, books, Approved, approved
  <2> QED  BY <2>1, AnchorKept
<1>5. ASSUME NEW j \in Adjustments, NEW m \in Months, NEW x \in AdjustmentAmounts,
             addAdjustment(j, m, x)
      PROVE  Anchored(a)'
  BY <1>1, <1>5, AnchorKept DEF addAdjustment
<1>6. ASSUME NEW j \in Adjustments, voidAdjustment(j) PROVE Anchored(a)'
  BY <1>1, <1>6, AnchorKept DEF voidAdjustment
<1>7. ASSUME NEW k \in Extras, NEW row \in ExtraRows, addExtraHours(k, row)
      PROVE  Anchored(a)'
  BY <1>1, <1>7, AnchorKept DEF addExtraHours
<1>8. ASSUME NEW k \in Extras, voidExtraHours(k) PROVE Anchored(a)'
  BY <1>1, <1>8, AnchorKept DEF voidExtraHours
<1>9. ASSUME NEW k \in Absences, NEW row \in AbsenceRows, addAbsence(k, row)
      PROVE  Anchored(a)'
  BY <1>1, <1>9, AnchorKept DEF addAbsence, lockMonths
<1>10. ASSUME NEW k \in Absences, voidAbsence(k) PROVE Anchored(a)'
  BY <1>1, <1>10, AnchorKept DEF voidAbsence, lockMonths
<1> QED
  BY <1>2, <1>3, <1>4, <1>5, <1>6, <1>7, <1>8, <1>9, <1>10 DEF Entry

LEMMA ComputeAnchored ==
  ASSUME NEW a \in Months, Anchored(a), approved(a), BooksInv, NEW t \in Txs,
         ComputeApprove(t)
  PROVE  Anchored(a)'
<1>1. /\ tx[t].op = "approve" /\ t \in InFlight
      /\ UNCHANGED <<thisMonth, terms, given, books, entries>>
  BY DEF ComputeApprove, granted
<1> PICK m \in Months : m = tx[t].month
  BY <1>1 DEF BooksInv, PayrollTypeOK
<1> DEFINE lines == computeSheet(m)
           next == [op |-> "commit", month |-> m, want |-> tx[t].want,
                    held |-> tx[t].held \cup (tx[t].want \cap Approved),
                    lines |-> lines]
<1>2. tx' = [tx EXCEPT ![t] = next]
  BY DEF ComputeApprove
<1> HIDE DEF lines
<1> PICK row : row = next
  OBVIOUS
<1>3. /\ row.op = "commit" /\ row.month = m /\ row.want = tx[t].want
      /\ row.held = tx[t].held \cup (tx[t].want \cap Approved) /\ row.lines = lines
  OBVIOUS
<1> HIDE DEF next
<1>4. \A b \in lines.lessons : monthOf(b.lesson.day) \in Approved \cup {m}
  BY ComputedMonths DEF lines, Anchored
<1>5. a \in row.want /\ a \in row.held
  BY <1>1, <1>3 DEF Anchored, Approved
<1>6. tx'[t] = row /\ \A u \in Txs \ {t} : tx'[u] = tx[u]
  BY <1>2, OthersKept
<1>7. Approved' = Approved /\ UNCHANGED line
  BY <1>1 DEF books, Approved, approved
<1>8. CorrectionsHaveBase'
  BY <1>7 DEF Anchored, CorrectionsHaveBase
<1>9. ASSUME NEW u \in Txs
      PROVE  /\ tx'[u].op # "idle" => a \in tx'[u].want
             /\ tx'[u].op = "commit" =>
                  /\ a \in tx'[u].held
                  /\ \A b \in tx'[u].lines.lessons :
                       monthOf(b.lesson.day) \in Approved \cup {tx'[u].month}
  <2>1. CASE u = t
    BY <2>1, <1>3, <1>4, <1>5, <1>6
  <2>2. CASE u # t
    BY <2>2, <1>6 DEF Anchored
  <2> QED  BY <2>1, <2>2
<1> QED  BY <1>7, <1>8, <1>9 DEF Anchored

LEMMA CommitAnchored ==
  ASSUME NEW a \in Months, Anchored(a), BooksInv, NEW t \in Txs, CommitApprove(t)
  PROVE  Anchored(a)'
<1>1. tx' = [tx EXCEPT ![t] = Idle] /\ Idle.op = "idle"
  BY DEF CommitApprove, Idle
<1>2. tx[t].op = "commit" /\ t \in InFlight
  BY DEF CommitApprove, InFlight
<1> PICK m \in Months : m = tx[t].month
  BY <1>2 DEF BooksInv, PayrollTypeOK
<1>3. /\ sheet' = [sheet EXCEPT ![m].status = "approved"]
      /\ line' = [line EXCEPT ![m] = tx[t].lines]
  BY DEF CommitApprove
<1>4. /\ sheet \in [Months -> SheetRows \cup {None}] /\ None \notin SheetRows
      /\ line = [k \in Months |-> line[k]]
      /\ sheet[m] # None /\ ~approved(m)
  BY <1>2, PayrollAssumption DEF BooksInv, PayrollTypeOK, SheetsAreLocked
<1>5. /\ \A k \in Months \ {m} : sheet'[k] = sheet[k] /\ line'[k] = line[k]
      /\ sheet'[m] = [sheet[m] EXCEPT !.status = "approved"]
      /\ line'[m] = tx[t].lines
  BY <1>3, <1>4
<1>6. [sheet[m] EXCEPT !.status = "approved"] \in SheetRows
  BY <1>4 DEF SheetRows
<1>7. sheet'[m] # None /\ sheet'[m].status = "approved"
  BY <1>4, <1>5, <1>6 DEF SheetRows
<1>8. \A k \in Months : approved(k)' <=> approved(k) \/ k = m
  BY <1>5, <1>7 DEF approved
<1>9. Approved' = Approved \cup {m}
  BY <1>8 DEF Approved
<1>10. m \notin Approved
  BY <1>4 DEF Approved
<1>11. \A b \in tx[t].lines.lessons : monthOf(b.lesson.day) \in Approved \cup {m}
  BY <1>2 DEF Anchored
<1>12. CorrectionsHaveBase'
  BY <1>5, <1>9, <1>10, <1>11 DEF Anchored, CorrectionsHaveBase, Approved
<1>13. tx'[t] = Idle /\ \A u \in Txs \ {t} : tx'[u] = tx[u]
  BY <1>1, OthersKept
<1> QED  BY <1>1, <1>9, <1>12, <1>13 DEF Anchored

LEMMA ReopenAnchored ==
  ASSUME NEW a \in Months, Anchored(a), BooksInv, NEW t \in Txs, Reopen(t)
  PROVE  Anchored(a)'
<1>1. tx' = [tx EXCEPT ![t] = Idle] /\ Idle.op = "idle"
  BY DEF Reopen, Idle
<1>2. tx[t].op = "reopen" /\ t \in InFlight /\ lockable(tx[t].want, Txs \ {t})
  BY DEF Reopen, granted
<1> PICK m \in Months : m = tx[t].month
  BY <1>2 DEF BooksInv, PayrollTypeOK
<1>3. CASE UNCHANGED books
  <2>1. Approved' = Approved /\ UNCHANGED line
    BY <1>3 DEF books, Approved, approved
  <2> QED  BY <1>1, <2>1, AnchorStep
<1>4. CASE /\ ~corrected(m) /\ sheet' = [sheet EXCEPT ![m].status = "draft"]
           /\ line' = [line EXCEPT ![m] = None] /\ approved(m)
  <2>1. /\ sheet \in [Months -> SheetRows \cup {None}] /\ None \notin SheetRows
        /\ line = [k \in Months |-> line[k]]
    BY PayrollAssumption DEF BooksInv, PayrollTypeOK
  <2>2. sheet[m] \in SheetRows
    BY <1>4, <2>1 DEF approved
  <2>3. /\ \A k \in Months \ {m} : sheet'[k] = sheet[k] /\ line'[k] = line[k]
        /\ sheet'[m] = [sheet[m] EXCEPT !.status = "draft"]
    BY <1>4, <2>1
  <2>4. sheet'[m].status = "draft"
    BY <2>2, <2>3 DEF SheetRows
  <2>5. \A k \in Months : approved(k)' <=> approved(k) /\ k # m
    BY <2>3, <2>4 DEF approved
  <2>6. Approved' = Approved \ {m}
    BY <2>5 DEF Approved
  <2>7. CorrectionsHaveBase'
    BY <1>4, <2>3, <2>6 DEF Anchored, CorrectionsHaveBase, corrected, Approved
  <2>8. a \in tx[t].want
    BY <1>2 DEF Anchored
  <2>9. ASSUME NEW u \in Txs \ {t} PROVE tx[u].op # "commit"
    <3>1. ~locked(u, a)
      BY <1>2, <2>8 DEF lockable
    <3> QED  BY <3>1 DEF Anchored, locked, InFlight
  <2>10. tx'[t] = Idle /\ \A u \in Txs \ {t} : tx'[u] = tx[u]
    BY <1>1, OthersKept
  <2> QED  BY <1>1, <2>7, <2>9, <2>10 DEF Anchored
<1> QED  BY <1>3, <1>4 DEF Reopen

LEMMA NextAnchored ==
  ASSUME NEW a \in Months, Anchored(a), approved(a), BooksInv,
         [PayrollNext]_payrollVars
  PROVE  Anchored(a)'
<1>1. a \in Approved
  BY DEF Approved
<1>2. ASSUME NEW t \in Txs, Approval(t) PROVE Anchored(a)'
  <2>1. ASSUME NEW m \in Months, BeginApprove(t, m) PROVE Anchored(a)'
    <3> PICK row : row = [op |-> "approve", month |-> m, want |-> Approved, held |-> {m}]
      OBVIOUS
    <3>1. tx' = [tx EXCEPT ![t] = row] /\ row.op = "approve" /\ a \in row.want
      BY <1>1, <2>1 DEF BeginApprove
    <3>2. UNCHANGED line /\ Approved' = Approved
      BY <2>1, DraftsLocked DEF BeginApprove
    <3> QED  BY <3>1, <3>2, AnchorStep
  <2>2. ASSUME NEW m \in Months, BeginReopen(t, m) PROVE Anchored(a)'
    <3> PICK row : row = [op |-> "reopen", month |-> m, want |-> Approved, held |-> {}]
      OBVIOUS
    <3>1. tx' = [tx EXCEPT ![t] = row] /\ row.op = "reopen" /\ a \in row.want
      BY <1>1, <2>2 DEF BeginReopen
    <3>2. UNCHANGED line /\ Approved' = Approved
      BY <2>2 DEF BeginReopen, books, Approved, approved
    <3> QED  BY <3>1, <3>2, AnchorStep
  <2>3. ASSUME Abort(t) PROVE Anchored(a)'
    <3>1. tx' = [tx EXCEPT ![t] = Idle] /\ Idle.op = "idle"
      BY <2>3 DEF Abort, Idle
    <3>2. UNCHANGED line /\ Approved' = Approved
      BY <2>3 DEF Abort, books, Approved, approved
    <3> QED  BY <3>1, <3>2, AnchorStep
  <2> QED
    BY <1>2, <2>1, <2>2, <2>3, ComputeAnchored, CommitAnchored, ReopenAnchored
    DEF Approval
<1>3. ASSUME Elsewhere \/ UNCHANGED payrollVars PROVE Anchored(a)'
  <2>1. UNCHANGED <<line, tx>> /\ Approved' = Approved
    BY <1>3 DEF Elsewhere, ChangeLesson, close, NextMonth, payrollVars, books, Approved,
       approved
  <2> QED  BY <2>1, AnchorKept
<1> QED  BY <1>2, <1>3, EntryAnchored DEF PayrollNext

(* From books in order, with nobody at work, they stay in order for as long*)
(* as some month stays approved, such as one that has been paid.           *)
THEOREM BooksStayFrozen ==
  ASSUME NEW a \in Months
  PROVE  /\ PayrollTypeOK /\ BooksAreFrozen /\ InFlight = {}
         /\ [][PayrollNext]_payrollVars /\ []approved(a)
         => []BooksAreFrozen
<1>1. PayrollTypeOK /\ BooksAreFrozen /\ InFlight = {} => BooksInv /\ Anchored(a)
  BY DEF BooksInv, Anchored, BooksAreFrozen, InFlight, SheetsAreLocked,
     ComputedFromStanding, locked
<1>2. BooksInv /\ Anchored(a) /\ approved(a) /\ [PayrollNext]_payrollVars
        => BooksInv' /\ Anchored(a)'
  BY NextBooks, NextAnchored
<1>3. BooksInv /\ Anchored(a) => BooksAreFrozen
  BY DEF BooksInv, Anchored, BooksAreFrozen
<1> QED  BY <1>1, <1>2, <1>3, PTL

-----------------------------------------------------------------------------
(* Users and positions                                                     *)

(* A user is locked by one request only, a position alone or shared.       *)
UsersLockedAlone ==
  \A t, u \in Txs :
    (work[t] # None /\ work[u] # None /\ work[t].user # None /\ work[t].user = work[u].user)
      => t = u

ChangedAlone ==
  \A t, u \in Txs :
    (Open(t, "change") /\ work[u] # None /\ work[t].position = work[u].position) => t = u

(* What is locked is there.                                                *)
LockedExist ==
  \A t \in Txs :
    /\ Open(t, "change") \/ Open(t, "give") => position[work[t].position] # None
    /\ Open(t, "user") => user[work[t].user] # None

StaffInv ==
  /\ StaffTypeOK
  /\ UsersLockedAlone
  /\ ChangedAlone
  /\ LockedExist
  /\ RoleFollowsPosition

-----------------------------------------------------------------------------
LEMMA InitStaff == StaffInit => StaffInv
  BY DEF StaffInit, StaffInv, StaffTypeOK, UsersLockedAlone, ChangedAlone, LockedExist,
         RoleFollowsPosition, Open

LEMMA StaffTxFields ==
  ASSUME StaffTypeOK, NEW t \in Txs
  PROVE  /\ Open(t, "change") => work[t].position \in Positions /\ work[t].user = None
         /\ Open(t, "give") => work[t].position \in Positions /\ work[t].user \in Users
         /\ Open(t, "user") => work[t].user \in Users /\ work[t].position = None
         /\ Open(t, "delete") \/ Open(t, "terms") =>
              work[t].of \in Users /\ work[t].user = None /\ work[t].position = None
  BY StaffAssumption DEF StaffTypeOK, TxRows, Open

LEMMA TypeStep ==
  ASSUME StaffInv, [StaffNext]_staffVars
  PROVE  StaffTypeOK'
<1> USE StaffAssumption DEF StaffInv, StaffTypeOK
<1>1. ASSUME NEW p \in Positions, NEW teaching \in BOOLEAN, createPosition(p, teaching)
      PROVE  StaffTypeOK'
  BY <1>1 DEF createPosition, PositionRows
<1>2. ASSUME NEW u \in Users, NEW role \in UserRoles, createUser(u,
  role)  PROVE StaffTypeOK'
  BY <1>2 DEF createUser, UserRows
<1>3. ASSUME NEW u \in Users, removeTerms(u)  PROVE StaffTypeOK'
  BY <1>3 DEF removeTerms
<1>4. ASSUME NEW t \in Txs, NEW p \in Positions, LockPosition(t, p)  PROVE StaffTypeOK'
  BY <1>4 DEF LockPosition, Begin, TxRows
<1>5. ASSUME NEW t \in Txs, NEW p \in Positions, LockGiven(t, p)  PROVE StaffTypeOK'
  <2>1. work[t].user \in Users
    BY <1>5, StaffTxFields DEF LockGiven
  <2> QED  BY <1>5, <2>1 DEF LockGiven, lockPosition, TxRows
<1>6. ASSUME NEW t \in Txs, NEW p \in Positions, NEW u \in Users, BeginStaff(t, u, p)
      PROVE  StaffTypeOK'
  BY <1>6 DEF BeginStaff, lockPosition, TxRows
<1>7. ASSUME NEW t \in Txs, NEW on \in BOOLEAN, updatePosition(t, on)  PROVE StaffTypeOK'
  <2>1. position[work[t].position] \in PositionRows /\ work[t].position \in Positions
    BY <1>7, StaffTxFields DEF updatePosition, LockedExist
  <2>2. [position[work[t].position] EXCEPT !.teaching = on] \in PositionRows
    BY <2>1 DEF PositionRows
  <2> QED  BY <1>7, <2>1, <2>2 DEF updatePosition, End
<1>8. ASSUME NEW t \in Txs, NEW on \in BOOLEAN, setActive(t, on)  PROVE StaffTypeOK'
  <2>1. user[work[t].user] \in UserRows /\ work[t].user \in Users
    BY <1>8, StaffTxFields DEF setActive, LockedExist
  <2>2. [user[work[t].user] EXCEPT !.active = on] \in UserRows
    BY <2>1 DEF UserRows
  <2> QED  BY <1>8, <2>1, <2>2 DEF setActive, End
<1>9. ASSUME NEW t \in Txs, NEW u \in Users, lockUser(t, u)  PROVE StaffTypeOK'
  BY <1>9 DEF lockUser, Begin, TxRows
<1>10. ASSUME NEW t \in Txs, NEW u \in Users, BeginDelete(t, u)  PROVE StaffTypeOK'
  BY <1>10 DEF BeginDelete, Begin, TxRows
<1>11. ASSUME NEW t \in Txs, NEW u \in Users, BeginTerms(t, u)  PROVE StaffTypeOK'
  BY <1>11 DEF BeginTerms, Begin, TxRows
<1>12. ASSUME NEW t \in Txs, removePosition(t)  PROVE StaffTypeOK'
  BY <1>12 DEF removePosition, End
<1>13. ASSUME NEW t \in Txs, CreateStaff(t)  PROVE StaffTypeOK'
  BY <1>13, StaffTxFields DEF CreateStaff, End, UserRows, UserRoles, StaffRoles, roleOf
<1>14. ASSUME NEW t \in Txs, updateUser(t)  PROVE StaffTypeOK'
  <2>1. user[work[t].user] \in UserRows /\ work[t].user \in Users /\ work[t].position \in Positions
    BY <1>14, StaffTxFields DEF updateUser
  <2>2. [user[work[t].user] EXCEPT !.role = roleOf(work[t].position),
                                 !.position = work[t].position] \in UserRows
    BY <2>1 DEF UserRows, UserRoles, StaffRoles, roleOf
  <2> QED  BY <1>14, <2>1, <2>2 DEF updateUser, End
<1>15. ASSUME NEW t \in Txs, becomeParent(t)  PROVE StaffTypeOK'
  <2>1. user[work[t].user] \in UserRows /\ work[t].user \in Users
    BY <1>15, StaffTxFields DEF becomeParent, LockedExist
  <2>2. [user[work[t].user] EXCEPT !.role = "parent", !.position = None] \in UserRows
    BY <2>1 DEF UserRows, UserRoles
  <2> QED  BY <1>15, <2>1, <2>2 DEF becomeParent, End
<1>16. ASSUME NEW t \in Txs, delete(t)  PROVE StaffTypeOK'
  BY <1>16 DEF delete, End
<1>17. ASSUME NEW t \in Txs, createTerms(t)  PROVE StaffTypeOK'
  BY <1>17, StaffTxFields DEF createTerms, End
<1>18. ASSUME NEW t \in Txs, Refuse(t)  PROVE StaffTypeOK'
  BY <1>18 DEF Refuse, End
<1>19. ASSUME UNCHANGED staffVars  PROVE StaffTypeOK'
  BY <1>19 DEF staffVars
<1> USE DEF StaffInv
<1> QED
  BY <1>1, <1>2, <1>3, <1>4, <1>5, <1>6, <1>7, <1>8, <1>9, <1>10, <1>11, <1>12, <1>13,
     <1>14, <1>15, <1>16, <1>17, <1>18, <1>19 DEF StaffNext, setAccess

(* A request that ends leaves the locks of the others as they are.         *)
LEMMA LocksEnd ==
  ASSUME StaffInv, NEW t \in Txs, End(t)
  PROVE  /\ UsersLockedAlone' /\ ChangedAlone'
         /\ work'[t] = None /\ \A u \in Txs : u # t => work'[u] = work[u]
<1>1. work'[t] = None /\ \A u \in Txs : u # t => work'[u] = work[u]
  BY DEF End, StaffInv, StaffTypeOK
<1>2. UsersLockedAlone' /\ ChangedAlone'
  BY <1>1 DEF StaffInv, UsersLockedAlone, ChangedAlone, Open
<1> QED
  BY <1>1, <1>2

(* A request that takes a lock takes one that nobody has, or shares that of*)
(* a position with others who give it.                                     *)
LEMMA LocksTaken ==
  ASSUME StaffInv, NEW t \in Txs, NEW row \in TxRows,
         work' = [work EXCEPT ![t] = row],
         \A u \in Txs \ {t} : work[u] # None /\ row.user # None => work[u].user # row.user,
         row.op = "change" => positionFree(row.position, TRUE),
         row.op = "give" => positionFree(row.position, FALSE)
  PROVE  /\ UsersLockedAlone' /\ ChangedAlone'
         /\ work'[t] = row /\ \A u \in Txs : u # t => work'[u] = work[u]
<1>1. work'[t] = row /\ \A u \in Txs : u # t => work'[u] = work[u]
  BY DEF StaffInv, StaffTypeOK
<1>2. UsersLockedAlone'
  BY <1>1 DEF StaffInv, UsersLockedAlone
<1>3. ChangedAlone'
  <2> SUFFICES ASSUME NEW u \in Txs, NEW v \in Txs, Open(u, "change")', work'[v] # None,
                      work'[u].position = work'[v].position
               PROVE  u = v
    BY DEF ChangedAlone
  <2>1. CASE u = t /\ v # t
    BY <1>1, <2>1 DEF positionFree, Open
  <2>2. CASE u # t /\ v = t
    <3>1. Open(u, "change") /\ work[u].position \in Positions
      BY <1>1, <2>2, StaffTxFields DEF Open, StaffInv
    <3>2. row.op \in {"change", "give"}
      BY <3>1, <1>1, <2>2, StaffAssumption DEF TxRows
    <3> QED
      BY <1>1, <2>2, <3>1, <3>2 DEF positionFree, Open
  <2>3. CASE u # t /\ v # t
    BY <1>1, <2>3 DEF StaffInv, ChangedAlone, Open
  <2> QED  BY <2>1, <2>2, <2>3
<1> QED
  BY <1>1, <1>2, <1>3

-----------------------------------------------------------------------------
(* Positions.                                                              *)

LEMMA PositionSteps ==
  ASSUME StaffInv,
         \/ \E p \in Positions, on \in BOOLEAN : createPosition(p, on)
         \/ \E t \in Txs, p \in Positions : LockPosition(t, p)
         \/ \E t \in Txs, on \in BOOLEAN : updatePosition(t, on) \/ removePosition(t)
  PROVE  UsersLockedAlone' /\ ChangedAlone' /\ LockedExist' /\ RoleFollowsPosition'
<1>0. position \in [Positions -> PositionRows \cup {None}] /\ \A row \in PositionRows : row # None
  BY StaffAssumption DEF StaffInv, StaffTypeOK
<1>1. CASE \E p \in Positions, on \in BOOLEAN : createPosition(p, on)
  <2>0. PICK p \in Positions, on \in BOOLEAN : createPosition(p, on)
    BY <1>1
  <2>1. /\ position'[p] # None
        /\ \A q \in Positions : q # p => position'[q] = position[q]
    BY <1>0, <2>0 DEF createPosition, PositionRows
  <2>2. UsersLockedAlone' /\ ChangedAlone'
    BY <2>0 DEF createPosition, StaffInv, UsersLockedAlone, ChangedAlone, Open
  <2>3. LockedExist'
    BY <2>0, <2>1, StaffTxFields DEF createPosition, StaffInv, LockedExist, Open
  <2>4. RoleFollowsPosition'
    BY <2>0, <2>1 DEF createPosition, StaffInv, StaffTypeOK, UserRows, RoleFollowsPosition,
      roleOf
  <2> QED  BY <2>2, <2>3, <2>4
<1>2. CASE \E t \in Txs, p \in Positions : LockPosition(t, p)
  <2>0. PICK t \in Txs, p \in Positions : LockPosition(t, p)
    BY <1>2
  <2> DEFINE row == [op |-> "change", user |-> None, position |-> p]
  <2>1. row \in TxRows /\ work' = [work EXCEPT ![t] = row] /\ positionFree(p, TRUE)
        /\ position[p] # None /\ UNCHANGED <<position, user>>
    BY <2>0 DEF LockPosition, Begin, TxRows
  <2>2. /\ UsersLockedAlone' /\ ChangedAlone'
        /\ work'[t] = row /\ \A u \in Txs : u # t => work'[u] = work[u]
    BY <2>1, LocksTaken
  <2>3. LockedExist' /\ RoleFollowsPosition'
    BY <2>1, <2>2 DEF StaffInv, LockedExist, RoleFollowsPosition, Open, roleOf
  <2> QED  BY <2>2, <2>3
<1>3. CASE \E t \in Txs, on \in BOOLEAN : updatePosition(t, on) \/ removePosition(t)
  <2>0. PICK t \in Txs, on \in BOOLEAN : updatePosition(t, on) \/ removePosition(t)
    BY <1>3
  <2> DEFINE q == work[t].position
  <2>1. Open(t, "change") /\ q \in Positions /\ position[q] # None /\ End(t)
        /\ UNCHANGED user
    BY <2>0, StaffTxFields DEF updatePosition, removePosition, StaffInv, LockedExist
  <2>2. /\ UsersLockedAlone' /\ ChangedAlone'
        /\ work'[t] = None /\ \A u \in Txs : u # t => work'[u] = work[u]
    BY <2>1, LocksEnd
  <2>3. \A r \in Positions : r # q => position'[r] = position[r]
    BY <1>0, <2>0 DEF updatePosition, removePosition
  <2>4. LockedExist'
    <3>1. ASSUME NEW u \in Txs, Open(u, "change")' \/ Open(u, "give")'
          PROVE  position'[work'[u].position] # None
      <4>1. u # t /\ work'[u] = work[u] /\ (Open(u, "change") \/ Open(u, "give"))
        BY <3>1, <2>2 DEF Open
      <4>2. work[u].position \in Positions /\ work[u].position # q
        BY <4>1, <2>1, StaffTxFields DEF StaffInv, ChangedAlone, Open
      <4> QED  BY <4>1, <4>2, <2>3 DEF StaffInv, LockedExist
    <3>2. ASSUME NEW u \in Txs, Open(u, "user")'
          PROVE  user'[work'[u].user] # None
      BY <3>2, <2>1, <2>2 DEF StaffInv, LockedExist, Open
    <3> QED  BY <3>1, <3>2 DEF LockedExist
  <2>5. holders(q) = {} \/ position'[q] = position[q]
    <3>1. CASE removePosition(t)
      BY <3>1 DEF removePosition
    <3>2. CASE updatePosition(t, on) /\ on = position[q].teaching
      <4>1. position[q] \in PositionRows
        BY <1>0, <2>1
      <4>2. position'[q] = [position[q] EXCEPT !.teaching = on]
        BY <3>2, <1>0, <2>1 DEF updatePosition
      <4>3. position'[q] = position[q]
        BY <4>1, <4>2, <3>2 DEF PositionRows
      <4> QED  BY <4>3
    <3>3. CASE updatePosition(t, on) /\ on # position[q].teaching
      BY <3>3 DEF updatePosition
    <3> QED  BY <3>1, <3>2, <3>3, <2>0
  <2>6. RoleFollowsPosition'
    <3> SUFFICES ASSUME NEW u \in Users, user[u] # None
                 PROVE  IF user[u].role \in StaffRoles
                        THEN /\ user[u].position # None
                             /\ position'[user[u].position] # None
                             /\ user[u].role =
                                  IF position'[user[u].position].teaching
                                  THEN "teacher" ELSE "admin"
                        ELSE user[u].position = None
      BY <2>1 DEF RoleFollowsPosition, roleOf
    <3>1. IF user[u].role \in StaffRoles
          THEN /\ user[u].position \in Positions
               /\ position[user[u].position] # None
               /\ user[u].role = roleOf(user[u].position)
          ELSE user[u].position = None
      BY DEF StaffInv, StaffTypeOK, UserRows, RoleFollowsPosition
    <3>2. CASE user[u].position = q
      BY <3>1, <3>2, <2>1, <2>5, StaffAssumption DEF holders, roleOf
    <3>3. CASE user[u].position # q
      BY <3>1, <3>3, <2>3, StaffAssumption DEF roleOf
    <3> QED  BY <3>2, <3>3
  <2> QED  BY <2>2, <2>4, <2>6
<1> QED
  BY <1>1, <1>2, <1>3

-----------------------------------------------------------------------------
(* Users.                                                                  *)

(* The role of one user is written as its position says, and the user was  *)
(* locked, or is not there for others to have locked.                      *)
LEMMA RoleWritten ==
  ASSUME StaffInv, NEW u \in Users, UNCHANGED position,
         \A v \in Users : v # u => user'[v] = user[v],
         user'[u] # None =>
           IF user'[u].role \in StaffRoles
           THEN /\ user'[u].position # None
                /\ position[user'[u].position] # None
                /\ user'[u].role = roleOf(user'[u].position)
           ELSE user'[u].position = None
  PROVE  RoleFollowsPosition'
  BY DEF StaffInv, RoleFollowsPosition, roleOf

(* Every lock still is on something that is there: the user that changed is*)
(* there, or was locked by nobody.                                         *)
LEMMA LockedStay ==
  ASSUME StaffInv, NEW u \in Users, UNCHANGED position,
         \A v \in Users : v # u => user'[v] = user[v],
         \A t \in Txs : work'[t] # None =>
           work'[t] = work[t] /\ (Open(t, "user") /\ work[t].user = u => user'[u] # None)
  PROVE  LockedExist'
<1> SUFFICES ASSUME NEW t \in Txs, work'[t] # None
             PROVE  /\ work'[t].op \in {"change", "give"} =>
                         position'[work'[t].position] # None
                    /\ work'[t].op = "user" => user'[work'[t].user] # None
  BY DEF LockedExist, Open
<1>1. work'[t] = work[t] /\ (Open(t, "user") /\ work[t].user = u => user'[u] # None)
  OBVIOUS
<1> QED
  BY <1>1, StaffTxFields DEF StaffInv, LockedExist, Open

LEMMA UserSteps ==
  ASSUME StaffInv,
         \/ \E u \in Users, role \in UserRoles : createUser(u, role)
         \/ \E t \in Txs : CreateStaff(t) \/ updateUser(t)
         \/ \E t \in Txs, on \in BOOLEAN : becomeParent(t) \/ setActive(t, on)
         \/ \E t \in Txs : delete(t)
  PROVE  UsersLockedAlone' /\ ChangedAlone' /\ LockedExist' /\ RoleFollowsPosition'
<1>0. user \in [Users -> UserRows \cup {None}] /\ \A row \in UserRows : row # None
  BY StaffAssumption DEF StaffInv, StaffTypeOK
<1>1. CASE \E u \in Users, role \in UserRoles : createUser(u, role)
  <2>0. PICK u \in Users, role \in UserRoles : createUser(u, role)
    BY <1>1
  <2>1. /\ user'[u] = [role |-> role, position |-> None, active |-> TRUE]
        /\ \A v \in Users : v # u => user'[v] = user[v]
        /\ UNCHANGED <<position, work>> /\ role \notin StaffRoles /\ userFree(u)
    BY <1>0, <2>0 DEF createUser
  <2>2. UsersLockedAlone' /\ ChangedAlone'
    BY <2>1 DEF StaffInv, UsersLockedAlone, ChangedAlone, Open
  <2>3. LockedExist'
    BY <2>1, LockedStay DEF userFree, Open
  <2>4. RoleFollowsPosition'
    BY <2>1, RoleWritten
  <2> QED  BY <2>2, <2>3, <2>4
<1>2. CASE \E t \in Txs : CreateStaff(t) \/ updateUser(t)
  <2>0. PICK t \in Txs : CreateStaff(t) \/ updateUser(t)
    BY <1>2
  <2> DEFINE w == work[t].user
             p == work[t].position
  <2>1. /\ Open(t, "give") /\ w \in Users /\ p \in Positions /\ position[p] # None
        /\ End(t) /\ UNCHANGED position
    BY <2>0, StaffTxFields DEF CreateStaff, updateUser, StaffInv, LockedExist
  <2>2. /\ user'[w].role = roleOf(p) /\ user'[w].position = p
        /\ \A v \in Users : v # w => user'[v] = user[v]
    <3>1. CASE CreateStaff(t)
      BY <1>0, <2>1, <3>1 DEF CreateStaff
    <3>2. CASE updateUser(t)
      <4>1. user[w] \in UserRows
        BY <1>0, <2>1, <3>2 DEF updateUser
      <4> QED  BY <1>0, <2>1, <3>2, <4>1 DEF updateUser, UserRows
    <3> QED  BY <2>0, <3>1, <3>2
  <2>3. /\ UsersLockedAlone' /\ ChangedAlone'
        /\ work'[t] = None /\ \A v \in Txs : v # t => work'[v] = work[v]
    BY <2>1, LocksEnd
  <2>4. \A v \in Txs : Open(v, "user") => work[v].user # w
    BY <2>1, StaffTxFields, StaffAssumption DEF StaffInv, UsersLockedAlone, Open
  <2>5. LockedExist'
    BY <2>1, <2>2, <2>3, <2>4, LockedStay
  <2>6. RoleFollowsPosition'
    BY <2>1, <2>2, RoleWritten, StaffAssumption DEF roleOf, StaffRoles
  <2> QED  BY <2>3, <2>5, <2>6
<1>3. CASE \E t \in Txs, on \in BOOLEAN : becomeParent(t) \/ setActive(t, on)
  <2>0. PICK t \in Txs, on \in BOOLEAN : becomeParent(t) \/ setActive(t, on)
    BY <1>3
  <2> DEFINE w == work[t].user
  <2>1. /\ Open(t, "user") /\ w \in Users /\ user[w] # None
        /\ End(t) /\ UNCHANGED position
    BY <2>0, StaffTxFields DEF becomeParent, setActive, StaffInv, LockedExist
  <2>2. /\ \A v \in Users : v # w => user'[v] = user[v]
        /\ \/ user'[w].role = "parent" /\ user'[w].position = None
           \/ user'[w].role = user[w].role /\ user'[w].position = user[w].position
    <3>1. user[w] \in UserRows
      BY <1>0, <2>1
    <3> HIDE DEF w
    <3>2. CASE becomeParent(t)
      <4>1. user' = [user EXCEPT ![w] =
                       [user[w] EXCEPT !.role = "parent", !.position = None]]
        BY <1>0, <2>1, <3>1, <3>2 DEF becomeParent, UserRows, w
      <4> QED  BY <1>0, <2>1, <3>1, <4>1 DEF UserRows
    <3>3. CASE setActive(t, on)
      <4>1. user' = [user EXCEPT ![w] = [user[w] EXCEPT !.active = on]]
        BY <3>3 DEF setActive, w
      <4> QED  BY <1>0, <2>1, <3>1, <4>1 DEF UserRows
    <3> QED  BY <2>0, <3>2, <3>3
  <2>3. /\ UsersLockedAlone' /\ ChangedAlone'
        /\ work'[t] = None /\ \A v \in Txs : v # t => work'[v] = work[v]
    BY <2>1, LocksEnd
  <2>4. \A v \in Txs : v # t /\ Open(v, "user") => work[v].user # w
    BY <2>1, StaffTxFields, StaffAssumption DEF StaffInv, UsersLockedAlone, Open
  <2>5. LockedExist'
    BY <2>1, <2>2, <2>3, <2>4, LockedStay
  <2>6. RoleFollowsPosition'
    <3>1. IF user[w].role \in StaffRoles
          THEN /\ user[w].position # None
               /\ position[user[w].position] # None
               /\ user[w].role = roleOf(user[w].position)
          ELSE user[w].position = None
      BY <2>1 DEF StaffInv, RoleFollowsPosition
    <3> QED  BY <2>1, <2>2, <3>1, RoleWritten DEF StaffRoles
  <2> QED  BY <2>3, <2>5, <2>6
<1>4. CASE \E t \in Txs : delete(t)
  <2>0. PICK t \in Txs : delete(t)
    BY <1>4
  <2> DEFINE w == work[t].of
  <2>1. /\ Open(t, "delete") /\ w \in Users /\ userFree(w)
        /\ End(t) /\ UNCHANGED position
    BY <2>0, StaffTxFields DEF delete, StaffInv
  <2>2. user'[w] = None /\ \A v \in Users : v # w => user'[v] = user[v]
    BY <1>0, <2>0, <2>1 DEF delete
  <2>3. /\ UsersLockedAlone' /\ ChangedAlone'
        /\ work'[t] = None /\ \A v \in Txs : v # t => work'[v] = work[v]
    BY <2>1, LocksEnd
  <2>4. LockedExist'
    BY <2>1, <2>2, <2>3, LockedStay DEF userFree, Open
  <2>5. RoleFollowsPosition'
    BY <2>1, <2>2, RoleWritten
  <2> QED  BY <2>3, <2>4, <2>5
<1> QED
  BY <1>1, <1>2, <1>3, <1>4

-----------------------------------------------------------------------------
(* Requests that lock, or only concern salary terms.                       *)

LEMMA LockSteps ==
  ASSUME StaffInv, NEW t \in Txs,
         \/ \E p \in Positions : LockGiven(t, p)
         \/ \E u \in Users, p \in Positions : BeginStaff(t, u, p)
         \/ \E u \in Users : lockUser(t, u) \/ BeginDelete(t, u) \/ BeginTerms(t, u)
  PROVE  UsersLockedAlone' /\ ChangedAlone' /\ LockedExist' /\ RoleFollowsPosition'
<1>1. UNCHANGED <<position, user>>
  BY DEF LockGiven, BeginStaff, lockUser, BeginDelete, BeginTerms
<1>2. RoleFollowsPosition'
  BY <1>1 DEF StaffInv, RoleFollowsPosition, roleOf
<1>3. PICK row \in TxRows :
        /\ work' = [work EXCEPT ![t] = row] /\ row.op # "change"
        /\ \A v \in Txs \ {t} : work[v] # None /\ row.user # None => work[v].user # row.user
        /\ row.op = "give" => positionFree(row.position,
          FALSE) /\ position[row.position] # None
        /\ row.op = "user" => user[row.user] # None
  <2>1. CASE \E p \in Positions : LockGiven(t, p)
    <3>0. PICK p \in Positions : LockGiven(t, p)
      BY <2>1
    <3> DEFINE row == [op |-> "give", user |-> work[t].user, position |-> p]
    <3>1. work[t].user \in Users
      BY <3>0, StaffTxFields DEF LockGiven, StaffInv
    <3>2. \A v \in Txs \ {t} : work[v] # None => work[v].user # work[t].user
      BY <3>0, <3>1, StaffAssumption DEF LockGiven, Open, StaffInv, UsersLockedAlone
    <3>3. row \in TxRows
      BY <3>1 DEF TxRows
    <3> QED  BY <3>0, <3>2, <3>3 DEF LockGiven, lockPosition
  <2>2. CASE \E u \in Users, p \in Positions : BeginStaff(t, u, p)
    <3>0. PICK u \in Users, p \in Positions : BeginStaff(t, u, p)
      BY <2>2
    <3> DEFINE row == [op |-> "give", user |-> u, position |-> p]
    <3>1. row \in TxRows
      BY DEF TxRows
    <3> QED  BY <3>0, <3>1 DEF BeginStaff, lockPosition, userFree
  <2>3. CASE \E u \in Users : lockUser(t, u)
    <3>0. PICK u \in Users : lockUser(t, u)
      BY <2>3
    <3> DEFINE row == [op |-> "user", user |-> u, position |-> None]
    <3>1. row \in TxRows
      BY DEF TxRows
    <3> QED  BY <3>0, <3>1 DEF lockUser, Begin, userFree
  <2>4. CASE \E u \in Users : BeginDelete(t, u)
    <3>0. PICK u \in Users : BeginDelete(t, u)
      BY <2>4
    <3> DEFINE row == [op |-> "delete", user |-> None, position |-> None, of |-> u]
    <3>1. row \in TxRows
      BY DEF TxRows
    <3> QED  BY <3>0, <3>1 DEF BeginDelete, Begin
  <2>5. CASE \E u \in Users : BeginTerms(t, u)
    <3>0. PICK u \in Users : BeginTerms(t, u)
      BY <2>5
    <3> DEFINE row == [op |-> "terms", user |-> None, position |-> None, of |-> u]
    <3>1. row \in TxRows
      BY DEF TxRows
    <3> QED  BY <3>0, <3>1 DEF BeginTerms, Begin
  <2> QED  BY <2>1, <2>2, <2>3, <2>4, <2>5
<1>4. /\ UsersLockedAlone' /\ ChangedAlone'
      /\ work'[t] = row /\ \A v \in Txs : v # t => work'[v] = work[v]
  <2>1. /\ row.op = "change" => positionFree(row.position, TRUE)
        /\ row.op = "give" => positionFree(row.position, FALSE)
        /\ work' = [work EXCEPT ![t] = row]
        /\ \A v \in Txs \ {t} : work[v] # None /\ row.user # None => work[v].user # row.user
    BY <1>3
  <2> QED
    BY <2>1, LocksTaken, ZenonT(30)
<1>5. LockedExist'
  BY <1>1, <1>3, <1>4 DEF StaffInv, LockedExist, Open
<1> QED
  BY <1>2, <1>4, <1>5

LEMMA OtherSteps ==
  ASSUME StaffInv,
         \/ \E u \in Users : removeTerms(u)
         \/ \E t \in Txs : createTerms(t) \/ Refuse(t)
         \/ UNCHANGED staffVars
  PROVE  UsersLockedAlone' /\ ChangedAlone' /\ LockedExist' /\ RoleFollowsPosition'
<1>1. UNCHANGED <<position, user>>
  BY DEF removeTerms, createTerms, Refuse, staffVars
<1>2. RoleFollowsPosition'
  BY <1>1 DEF StaffInv, RoleFollowsPosition, roleOf
<1>3. CASE (\E u \in Users : removeTerms(u)) \/ UNCHANGED staffVars
  <2>1. UNCHANGED work
    BY <1>3 DEF removeTerms, staffVars
  <2> QED
    BY <1>1, <1>2, <2>1 DEF StaffInv, UsersLockedAlone, ChangedAlone, LockedExist, Open
<1>4. CASE \E t \in Txs : createTerms(t) \/ Refuse(t)
  <2>0. PICK t \in Txs : createTerms(t) \/ Refuse(t)
    BY <1>4
  <2>1. /\ UsersLockedAlone' /\ ChangedAlone'
        /\ work'[t] = None /\ \A v \in Txs : v # t => work'[v] = work[v]
    BY <2>0, LocksEnd DEF createTerms, Refuse
  <2>2. LockedExist'
    BY <1>1, <2>1 DEF StaffInv, LockedExist, Open
  <2> QED  BY <1>2, <2>1, <2>2
<1> QED
  BY <1>3, <1>4

-----------------------------------------------------------------------------
LEMMA NextStaff == StaffInv /\ [StaffNext]_staffVars => StaffInv'
<1> SUFFICES ASSUME StaffInv, [StaffNext]_staffVars
             PROVE  UsersLockedAlone' /\ ChangedAlone' /\ LockedExist' /\ RoleFollowsPosition'
  BY TypeStep DEF StaffInv
<1>1. CASE \E p \in Positions, on \in BOOLEAN : createPosition(p, on)
  BY <1>1, PositionSteps
<1>2. CASE \E u \in Users, role \in UserRoles : createUser(u, role)
  BY <1>2, UserSteps
<1>3. CASE (\E u \in Users : removeTerms(u)) \/ UNCHANGED staffVars
  BY <1>3, OtherSteps
<1>4. CASE \E t \in Txs, p \in Positions : LockPosition(t, p)
  BY <1>4, PositionSteps
<1>5. CASE \E t \in Txs, p \in Positions :
             LockGiven(t, p) \/ \E u \in Users : BeginStaff(t, u, p)
  BY <1>5, LockSteps
<1>6. CASE \E t \in Txs, on \in BOOLEAN : updatePosition(t, on)
  BY <1>6, PositionSteps
<1>7. CASE \E t \in Txs, on \in BOOLEAN : setActive(t, on)
  BY <1>7, UserSteps
<1>8. CASE \E t \in Txs, u \in Users :
             lockUser(t, u) \/ BeginDelete(t, u) \/ BeginTerms(t, u)
  BY <1>8, LockSteps
<1>9. CASE \E t \in Txs : removePosition(t)
  BY <1>9, TRUE \in BOOLEAN, PositionSteps
<1>10. CASE \E t \in Txs : becomeParent(t)
  BY <1>10, TRUE \in BOOLEAN, UserSteps
<1>11. CASE \E t \in Txs : CreateStaff(t) \/ updateUser(t) \/ setAccess(t) \/ delete(t)
  BY <1>11, UserSteps DEF setAccess
<1>12. CASE \E t \in Txs : createTerms(t) \/ Refuse(t)
  BY <1>12, OtherSteps
<1> QED
  BY <1>1, <1>2, <1>3, <1>4, <1>5, <1>6, <1>7, <1>8, <1>9, <1>10, <1>11, <1>12 DEF StaffNext

(* Users, positions and the requests on them are of their types, for any   *)
(* number of them.                                                         *)
THEOREM StaffTypeCorrect == StaffSpec => []StaffTypeOK
<1>1. StaffInit => StaffInv
  BY InitStaff
<1>2. StaffInv /\ [StaffNext]_staffVars => StaffInv'
  BY NextStaff
<1>3. StaffInv => StaffTypeOK
  BY DEF StaffInv
<1> QED
  BY <1>1, <1>2, <1>3, PTL DEF StaffSpec

(* Whoever changes positions and users and in whatever order, a member of  *)
(* staff has the role that the position held gives.                        *)
THEOREM RolesAreRight == StaffSpec => []RoleFollowsPosition
<1>1. StaffInit => StaffInv
  BY InitStaff
<1>2. StaffInv /\ [StaffNext]_staffVars => StaffInv'
  BY NextStaff
<1>3. StaffInv => RoleFollowsPosition
  BY DEF StaffInv
<1> QED
  BY <1>1, <1>2, <1>3, PTL DEF StaffSpec

-----------------------------------------------------------------------------
(* Tasks                                                                   *)

Marking(t) == begun[t] # None /\ begun[t].op = "mark"

(* What a mark saw when it locked the task is still so.                    *)
MarksHold ==
  \A t \in Txs : Marking(t) =>
    /\ task[begun[t].task] # None /\ ~task[begun[t].task].cancelled
    /\ assignee[<<begun[t].task, begun[t].person>>] # None
    /\ ~assignee[<<begun[t].task, begun[t].person>>].removed

(* Nobody has a part of a task that does not exist.                        *)
PartsOfTasks ==
  \A k \in Tasks, p \in People : assignee[<<k, p>>] # None => task[k] # None

TasksInv == TasksTypeOK /\ MarksHold /\ PartsOfTasks

(* What FrozenParts asks of a step.                                        *)
FrozenStep ==
  \A k \in Tasks : \A p \in People :
    assignee[<<k, p>>] # None /\ assignee'[<<k, p>>] # assignee[<<k, p>>] =>
      /\ ~task[k].cancelled
      /\ assignee[<<k, p>>].removed =>
           assignee'[<<k, p>>] = [doneAt |-> None, removed |-> FALSE]

-----------------------------------------------------------------------------
LEMMA InitTasks == TasksInit => TasksInv
<1> SUFFICES ASSUME TasksInit  PROVE TasksInv
  OBVIOUS
<1>1. now \in Hours
  BY TasksAssumption DEF TasksInit, Hours
<1>2. person \in [People -> [active : BOOLEAN, scope : Scopes]]
  <2>1. [active |-> TRUE, scope |-> None] \in [active : BOOLEAN, scope : Scopes]
    BY DEF Scopes
  <2> QED  BY <2>1, Zenon DEF TasksInit
<1>3. /\ task \in [Tasks -> TaskRows \cup {None}]
      /\ assignee \in [Tasks \X People -> AssigneeRows \cup {None}]
      /\ begun \in [Txs -> TaskRequests \cup {None}]
  BY DEF TasksInit
<1>4. MarksHold /\ PartsOfTasks
  <2>1. \A k \in Tasks, p \in People : assignee[<<k, p>>] = None
    BY DEF TasksInit
  <2> QED  BY <2>1 DEF TasksInit, MarksHold, PartsOfTasks, Marking
<1> QED
  BY <1>1, <1>2, <1>3, <1>4 DEF TasksInv, TasksTypeOK

LEMMA BegunFields ==
  ASSUME TasksTypeOK, NEW t \in Txs, begun[t] # None
  PROVE  /\ begun[t].task \in Tasks /\ begun[t].person \in People
         /\ begun[t].op = "create" => begun[t].some \subseteq People /\ begun[t].dueAt \in Hours
         /\ Marking(t) => begun[t].doneAt \in Hours \cup {None}
  BY DEF TasksTypeOK, TaskRequests, Marking

LEMMA PartRows ==
  ASSUME TasksTypeOK, NEW k \in Tasks, NEW p \in People
  PROVE  /\ <<k, p>> \in Tasks \X People
         /\ assignee[<<k, p>>] \in AssigneeRows \cup {None}
  BY DEF TasksTypeOK

(* A part that changes is left as it is except for the hour it was done,   *)
(* begun anew, or taken away.                                              *)
LEMMA PartChanges ==
  ASSUME NEW row \in AssigneeRows, NEW hour \in Hours \cup {None}
  PROVE  /\ row # None
         /\ [row EXCEPT !.doneAt = hour] \in AssigneeRows
         /\ [row EXCEPT !.doneAt = hour].removed = row.removed
         /\ [row EXCEPT !.removed = TRUE] \in AssigneeRows
         /\ [doneAt |-> None, removed |-> FALSE] \in AssigneeRows
  BY TasksAssumption DEF AssigneeRows

(* A step that keeps the marks on their way and what they saw.             *)
LEMMA MarksStay ==
  ASSUME MarksHold,
         \A t \in Txs : Marking(t)' =>
           /\ begun'[t] = begun[t] /\ Marking(t)
           /\ task'[begun[t].task] = task[begun[t].task]
           /\ assignee'[<<begun[t].task, begun[t].person>>]
                = assignee[<<begun[t].task, begun[t].person>>]
  PROVE  MarksHold'
<1> SUFFICES ASSUME NEW t \in Txs, Marking(t)'
             PROVE  /\ task'[begun'[t].task] # None /\ ~task'[begun'[t].task].cancelled
                    /\ assignee'[<<begun'[t].task, begun'[t].person>>] # None
                    /\ ~assignee'[<<begun'[t].task, begun'[t].person>>].removed
  BY Zenon DEF MarksHold
<1>1. /\ begun'[t] = begun[t] /\ Marking(t)
      /\ task'[begun[t].task] = task[begun[t].task]
      /\ assignee'[<<begun[t].task, begun[t].person>>]
           = assignee[<<begun[t].task, begun[t].person>>]
  OBVIOUS
<1>2. /\ task[begun[t].task] # None /\ ~task[begun[t].task].cancelled
      /\ assignee[<<begun[t].task, begun[t].person>>] # None
      /\ ~assignee[<<begun[t].task, begun[t].person>>].removed
  BY <1>1 DEF MarksHold
<1> QED  BY <1>1, <1>2

-----------------------------------------------------------------------------
LEMMA TaskCreates ==
  ASSUME TasksInv, NEW t \in Txs, Create(t)
  PROVE  TasksInv' /\ FrozenStep
<1> DEFINE k == begun[t].task
           row == [author |-> begun[t].person, dueAt |-> begun[t].dueAt,
             cancelled |-> FALSE]
<1>1. /\ k \in Tasks /\ task[k] = None /\ row \in TaskRows /\ row # None
      /\ begun[t].some \subseteq People
  <2>1. TasksTypeOK /\ begun[t] # None /\ begun[t].op = "create" /\ task[k] = None
    BY DEF Create, TasksInv
  <2>2. /\ k \in Tasks /\ begun[t].person \in People
        /\ begun[t].some \subseteq People /\ begun[t].dueAt \in Hours
    BY <2>1, BegunFields
  <2>3. row \in TaskRows
    BY <2>2 DEF TaskRows
  <2> QED  BY <2>1, <2>2, <2>3, TasksAssumption
<1>2. /\ task'[k] = row /\ task' \in [Tasks -> TaskRows \cup {None}]
      /\ \A l \in Tasks : l # k => task'[l] = task[l]
  BY <1>1 DEF Create, TasksInv, TasksTypeOK
<1>3. \A l \in Tasks, p \in People :
        assignee'[<<l, p>>] = IF l = k /\ p \in begun[t].some
                          THEN [doneAt |-> None, removed |-> FALSE] ELSE assignee[<<l, p>>]
  BY DEF Create
<1>4. \A p \in People : assignee[<<k, p>>] = None
  BY <1>1 DEF TasksInv, PartsOfTasks
<1>5. assignee' \in [Tasks \X People -> AssigneeRows \cup {None}]
  <2>1. [doneAt |-> None, removed |-> FALSE] \in AssigneeRows
    BY DEF AssigneeRows
  <2> QED  BY <2>1 DEF Create, TasksInv, TasksTypeOK
<1>6. begun' \in [Txs -> TaskRequests \cup {None}] /\ begun'[t] = None
      /\ \A u \in Txs : u # t => begun'[u] = begun[u]
  BY DEF Create, TasksInv, TasksTypeOK
<1>7. TasksTypeOK'
  BY <1>2, <1>5, <1>6 DEF Create, TasksInv, TasksTypeOK
<1>8. MarksHold'
  <2> SUFFICES ASSUME NEW u \in Txs, Marking(u)'
               PROVE  /\ begun'[u] = begun[u] /\ Marking(u)
                      /\ task'[begun[u].task] = task[begun[u].task]
                      /\ assignee'[<<begun[u].task, begun[u].person>>]
                           = assignee[<<begun[u].task, begun[u].person>>]
    BY MarksStay, Zenon DEF TasksInv
  <2>1. Marking(u) /\ begun'[u] = begun[u] /\ begun[u].task \in Tasks /\ begun[u].person \in People
    BY <1>6, BegunFields DEF Marking, TasksInv
  <2>2. begun[u].task # k
    BY <2>1, <1>1 DEF TasksInv, MarksHold
  <2> QED  BY <2>1, <2>2, <1>2, <1>3
<1>9. PartsOfTasks'
  BY <1>1, <1>2, <1>3 DEF TasksInv, PartsOfTasks
<1> QED
  BY <1>3, <1>4, <1>7, <1>8, <1>9 DEF TasksInv, FrozenStep

(* The part a mark changes is of an open task, and stands.                 *)
LEMMA Marks ==
  ASSUME TasksInv, NEW t \in Txs, Mark(t)
  PROVE  TasksInv' /\ FrozenStep
<1> DEFINE k == begun[t].task
           p == begun[t].person
           row == [assignee[<<k, p>>] EXCEPT !.doneAt = begun[t].doneAt]
<1>1. /\ k \in Tasks /\ p \in People /\ begun[t].doneAt \in Hours \cup {None}
      /\ task[k] # None /\ ~task[k].cancelled
      /\ assignee[<<k, p>>] # None /\ ~assignee[<<k, p>>].removed
  <2>1. TasksTypeOK /\ begun[t] # None /\ Marking(t)
    BY DEF Mark, Marking, TasksInv
  <2> QED  BY <2>1, BegunFields DEF TasksInv, MarksHold
<1>2. assignee[<<k, p>>] \in AssigneeRows
  BY <1>1, PartRows DEF TasksInv
<1>3. row \in AssigneeRows /\ row # None /\ ~row.removed
  <2>1. row \in AssigneeRows /\ row.removed = assignee[<<k, p>>].removed
    BY <1>1, <1>2 DEF AssigneeRows
  <2> QED  BY <2>1, <1>1, TasksAssumption
<1>4. /\ assignee' \in [Tasks \X People -> AssigneeRows \cup {None}]
      /\ assignee'[<<k, p>>] = row
      /\ \A l \in Tasks, q \in People :
           <<l, q>> # <<k, p>> => assignee'[<<l, q>>] = assignee[<<l, q>>]
  BY <1>1, <1>3 DEF Mark, TasksInv, TasksTypeOK
<1>5. /\ begun' \in [Txs -> TaskRequests \cup {None}] /\ begun'[t] = None
      /\ \A u \in Txs : u # t => begun'[u] = begun[u]
  BY DEF Mark, TasksInv, TasksTypeOK
<1>6. TasksTypeOK' /\ task' = task
  BY <1>4, <1>5 DEF Mark, TasksInv, TasksTypeOK
<1>7. MarksHold'
  <2> SUFFICES ASSUME NEW u \in Txs, Marking(u)'
               PROVE  /\ task[begun'[u].task] # None /\ ~task[begun'[u].task].cancelled
                      /\ assignee'[<<begun'[u].task, begun'[u].person>>] # None
                      /\ ~assignee'[<<begun'[u].task, begun'[u].person>>].removed
    BY <1>6 DEF MarksHold
  <2>1. begun'[u] = begun[u] /\ Marking(u) /\ begun[u].task \in Tasks /\ begun[u].person \in People
    BY <1>5, BegunFields DEF Marking, TasksInv
  <2>2. /\ task[begun[u].task] # None /\ ~task[begun[u].task].cancelled
        /\ assignee[<<begun[u].task, begun[u].person>>] # None
        /\ ~assignee[<<begun[u].task, begun[u].person>>].removed
    BY <2>1 DEF TasksInv, MarksHold
  <2>3. CASE begun[u].task = k /\ begun[u].person = p
    BY <2>1, <2>2, <2>3, <1>3, <1>4
  <2>4. CASE ~(begun[u].task = k /\ begun[u].person = p)
    BY <2>1, <2>2, <2>4, <1>1, <1>4
  <2> QED  BY <2>3, <2>4
<1>8. PartsOfTasks'
  BY <1>1, <1>4, <1>6 DEF TasksInv, PartsOfTasks
<1>9. FrozenStep
  BY <1>1, <1>4 DEF FrozenStep
<1> QED  BY <1>6, <1>7, <1>8, <1>9 DEF TasksInv

(* A task is changed when no mark holds it, so no mark is overtaken.       *)
LEMMA Updates ==
  ASSUME TasksInv, NEW k \in Tasks, NEW u \in People, NEW dueAt \in Hours,
         NEW wanted \in SUBSET People, update(k, u, dueAt, wanted)
  PROVE  TasksInv' /\ FrozenStep
<1> DEFINE new == [doneAt |-> None, removed |-> FALSE]
           Gone(p) == [assignee[<<k, p>>] EXCEPT !.removed = TRUE]
<1>1. task[k] # None /\ task[k] \in TaskRows /\ ~task[k].cancelled /\ unlocked(k)
  BY DEF update, Started, TasksInv, TasksTypeOK
<1>2. [task[k] EXCEPT !.dueAt = dueAt] \in TaskRows
  BY <1>1 DEF TaskRows
<1>3. /\ task' \in [Tasks -> TaskRows \cup {None}] /\ task'[k] # None
      /\ \A l \in Tasks : l # k => task'[l] = task[l]
  BY <1>2, TasksAssumption DEF update, TasksInv, TasksTypeOK
<1>4. /\ begun' = begun /\ now' = now /\ person' = person
      /\ \A l \in Tasks, p \in People : l # k => assignee'[<<l, p>>] = assignee[<<l, p>>]
      /\ \A p \in People :
           assignee'[<<k, p>>] = IF p \in wanted \ standing(k) THEN new
                                 ELSE IF p \in standing(k) \ wanted THEN Gone(p)
                                 ELSE assignee[<<k, p>>]
  BY DEF update
<1>5. \A p \in standing(k) : assignee[<<k, p>>] \in AssigneeRows /\ ~assignee[<<k,
  p>>].removed
  BY PartRows DEF standing, rows, TasksInv
<1>6. new \in AssigneeRows
  BY DEF AssigneeRows
<1>7. \A p \in People : assignee'[<<k, p>>] \in AssigneeRows \cup {None}
  <2> SUFFICES ASSUME NEW p \in People
               PROVE  assignee'[<<k, p>>] \in AssigneeRows \cup {None}
    OBVIOUS
  <2>1. CASE p \in wanted \ standing(k)
    BY <2>1, <1>4, <1>6
  <2>2. CASE p \in standing(k) \ wanted
    <3>1. Gone(p) \in AssigneeRows
      BY <2>2, <1>5 DEF AssigneeRows
    <3> QED  BY <2>2, <3>1, <1>4
  <2>3. CASE p \notin wanted \ standing(k) /\ p \notin standing(k) \ wanted
    BY <2>3, <1>4, PartRows DEF TasksInv
  <2> QED  BY <2>1, <2>2, <2>3
<1>8. assignee' \in [Tasks \X People -> AssigneeRows \cup {None}]
  <2>1. \A l \in Tasks, p \in People : assignee'[<<l, p>>] \in AssigneeRows \cup {None}
    BY <1>4, <1>7, PartRows DEF TasksInv
  <2>2. \A r \in Tasks \X People : \E l \in Tasks, p \in People : r = <<l, p>>
    OBVIOUS
  <2>3. \A r \in Tasks \X People : assignee'[r] \in AssigneeRows \cup {None}
    BY <2>1, <2>2
  <2> QED  BY <2>3 DEF update
<1>9. TasksTypeOK'
  BY <1>3, <1>4, <1>8 DEF TasksInv, TasksTypeOK
<1>10. MarksHold'
  <2> SUFFICES ASSUME NEW t \in Txs, Marking(t)'
               PROVE  /\ begun'[t] = begun[t] /\ Marking(t)
                      /\ task'[begun[t].task] = task[begun[t].task]
                      /\ assignee'[<<begun[t].task, begun[t].person>>]
                           = assignee[<<begun[t].task, begun[t].person>>]
    BY MarksStay, Zenon DEF TasksInv
  <2>1. begun'[t] = begun[t] /\ Marking(t) /\ begun[t].task \in Tasks /\ begun[t].person \in People
    BY <1>4, BegunFields DEF Marking, TasksInv
  <2>2. begun[t].task # k
    BY <2>1, <1>1 DEF unlocked, Marking
  <2> QED  BY <2>1, <2>2, <1>3, <1>4
<1>11. PartsOfTasks'
  BY <1>3, <1>4 DEF TasksInv, PartsOfTasks
<1>12. FrozenStep
  <2> SUFFICES ASSUME NEW p \in People, assignee[<<k, p>>] # None,
                      assignee'[<<k, p>>] # assignee[<<k, p>>], assignee[<<k, p>>].removed
               PROVE  assignee'[<<k, p>>] = new
    BY <1>1, <1>4 DEF FrozenStep
  <2> QED  BY <1>4, <1>5
<1> QED  BY <1>9, <1>10, <1>11, <1>12 DEF TasksInv

LEMMA Cancels ==
  ASSUME TasksInv, NEW k \in Tasks, NEW u \in People, cancel(k, u)
  PROVE  TasksInv' /\ FrozenStep
<1>1. task[k] # None /\ task[k] \in TaskRows /\ unlocked(k)
  BY DEF cancel, Started, TasksInv, TasksTypeOK
<1>2. [task[k] EXCEPT !.cancelled = TRUE] \in TaskRows
  BY <1>1 DEF TaskRows
<1>3. /\ task' \in [Tasks -> TaskRows \cup {None}] /\ task'[k] # None
      /\ \A l \in Tasks : l # k => task'[l] = task[l]
  BY <1>2, TasksAssumption DEF cancel, TasksInv, TasksTypeOK
<1>4. begun' = begun /\ now' = now /\ person' = person /\ assignee' = assignee
  BY DEF cancel
<1>5. TasksTypeOK'
  BY <1>3, <1>4 DEF TasksInv, TasksTypeOK
<1>6. MarksHold'
  <2> SUFFICES ASSUME NEW t \in Txs, Marking(t)'
               PROVE  /\ begun'[t] = begun[t] /\ Marking(t)
                      /\ task'[begun[t].task] = task[begun[t].task]
                      /\ assignee'[<<begun[t].task, begun[t].person>>]
                           = assignee[<<begun[t].task, begun[t].person>>]
    BY MarksStay, Zenon DEF TasksInv
  <2>1. begun'[t] = begun[t] /\ Marking(t) /\ begun[t].task \in Tasks
    BY <1>4, BegunFields DEF Marking, TasksInv
  <2>2. begun[t].task # k
    BY <2>1, <1>1 DEF unlocked, Marking
  <2> QED  BY <2>1, <2>2, <1>3, <1>4
<1>7. PartsOfTasks' /\ FrozenStep
  BY <1>3, <1>4 DEF TasksInv, PartsOfTasks, FrozenStep
<1> QED  BY <1>5, <1>6, <1>7 DEF TasksInv

(* A mark begins on what it has just read, and changes nothing yet.        *)
LEMMA LocksMark ==
  ASSUME TasksInv, NEW t \in Txs, NEW k \in Tasks, NEW u \in People,
         NEW isDone \in BOOLEAN, LockMark(t, k, u, isDone)
  PROVE  TasksInv' /\ FrozenStep
<1>1. PICK hour \in 1..now :
        begun' = [begun EXCEPT ![t] = [op |-> "mark", task |-> k, person |-> u,
                                 doneAt |-> IF isDone THEN hour ELSE None]]
  BY DEF LockMark
<1> DEFINE at == IF isDone THEN hour ELSE None
           row == [op |-> "mark", task |-> k, person |-> u, doneAt |-> at]
<1>2. hour \in Hours
  BY TasksAssumption DEF TasksInv, TasksTypeOK, Hours
<1>3. at \in Hours \cup {None}
  BY <1>2
<1>4. row \in TaskRequests
  BY <1>3 DEF TaskRequests
<1>5. /\ begun' \in [Txs -> TaskRequests \cup {None}] /\ begun'[t] = row
      /\ \A v \in Txs : v # t => begun'[v] = begun[v]
  BY <1>1, <1>4 DEF TasksInv, TasksTypeOK
<1>6. /\ now' = now /\ person' = person /\ task' = task /\ assignee' = assignee
      /\ task[k] # None /\ ~task[k].cancelled
      /\ assignee[<<k, u>>] # None /\ ~assignee[<<k, u>>].removed
  BY DEF LockMark, Started, standing, rows
<1>7. TasksTypeOK' /\ PartsOfTasks' /\ FrozenStep
  BY <1>5, <1>6 DEF TasksInv, TasksTypeOK, PartsOfTasks, FrozenStep
<1>8. MarksHold'
  <2> SUFFICES ASSUME NEW v \in Txs, Marking(v)'
               PROVE  /\ task[begun'[v].task] # None /\ ~task[begun'[v].task].cancelled
                      /\ assignee[<<begun'[v].task, begun'[v].person>>] # None
                      /\ ~assignee[<<begun'[v].task, begun'[v].person>>].removed
    BY <1>6 DEF MarksHold
  <2>1. CASE v = t
    BY <2>1, <1>5, <1>6
  <2>2. CASE v # t
    <3>1. begun'[v] = begun[v] /\ Marking(v)
      BY <2>2, <1>5 DEF Marking
    <3> QED  BY <3>1 DEF TasksInv, MarksHold
  <2> QED  BY <2>1, <2>2
<1> QED  BY <1>7, <1>8 DEF TasksInv

(* What leaves the tasks alone and begins no mark.                         *)
LEMMA TasksElsewhere ==
  ASSUME TasksInv, TasksTypeOK', task' = task, assignee' = assignee,
         \A t \in Txs : Marking(t)' => begun'[t] = begun[t]
  PROVE  TasksInv' /\ FrozenStep
<1>1. MarksHold'
  <2> SUFFICES ASSUME NEW t \in Txs, Marking(t)'
               PROVE  /\ begun'[t] = begun[t] /\ Marking(t)
                      /\ task'[begun[t].task] = task[begun[t].task]
                      /\ assignee'[<<begun[t].task, begun[t].person>>]
                           = assignee[<<begun[t].task, begun[t].person>>]
    BY MarksStay, Zenon DEF TasksInv
  <2> QED  BY DEF Marking
<1>2. PartsOfTasks' /\ FrozenStep
  BY DEF TasksInv, PartsOfTasks, FrozenStep
<1> QED  BY <1>1, <1>2 DEF TasksInv

LEMMA BeginsCreate ==
  ASSUME TasksInv, NEW t \in Txs, NEW k \in Tasks, NEW u \in People,
         NEW some \in SUBSET People, NEW h \in Hours, BeginCreate(t, k, u, some, h)
  PROVE  TasksInv' /\ FrozenStep
<1> DEFINE row == [op |-> "create", task |-> k, person |-> u, some |-> some, dueAt |-> h]
<1>1. row \in TaskRequests
  BY DEF TaskRequests
<1>2. /\ begun' \in [Txs -> TaskRequests \cup {None}] /\ begun'[t] = row
      /\ \A v \in Txs : v # t => begun'[v] = begun[v]
  BY <1>1 DEF BeginCreate, TasksInv, TasksTypeOK
<1>3. TasksTypeOK' /\ task' = task /\ assignee' = assignee
  BY <1>2 DEF BeginCreate, TasksInv, TasksTypeOK
<1>4. \A v \in Txs : Marking(v)' => begun'[v] = begun[v]
  BY <1>2 DEF Marking
<1> QED  BY <1>3, <1>4, TasksElsewhere

LEMMA Abandons ==
  ASSUME TasksInv, NEW t \in Txs, Abandon(t)
  PROVE  TasksInv' /\ FrozenStep
<1>1. /\ begun' \in [Txs -> TaskRequests \cup {None}] /\ begun'[t] = None
      /\ \A v \in Txs : v # t => begun'[v] = begun[v]
  BY DEF Abandon, TasksInv, TasksTypeOK
<1>2. TasksTypeOK' /\ task' = task /\ assignee' = assignee
  BY <1>1 DEF Abandon, TasksInv, TasksTypeOK
<1>3. \A v \in Txs : Marking(v)' => begun'[v] = begun[v]
  BY <1>1 DEF Marking
<1> QED  BY <1>2, <1>3, TasksElsewhere

LEMMA PeopleChange ==
  ASSUME TasksInv, NEW p \in People, NEW active \in BOOLEAN, NEW scope \in Scopes,
         changePerson(p, active, scope)
  PROVE  TasksInv' /\ FrozenStep
<1>1. [active |-> active, scope |-> scope] \in [active : BOOLEAN, scope : Scopes]
  OBVIOUS
<1>2. person' \in [People -> [active : BOOLEAN, scope : Scopes]]
  BY <1>1, Zenon DEF changePerson, TasksInv, TasksTypeOK
<1>3. TasksTypeOK' /\ task' = task /\ assignee' = assignee /\ begun' = begun
  BY <1>2 DEF changePerson, TasksInv, TasksTypeOK
<1> QED  BY <1>3, TasksElsewhere

LEMMA TimePasses ==
  ASSUME TasksInv, NextHour \/ UNCHANGED taskVars
  PROVE  TasksInv' /\ FrozenStep
<1>1. now' \in Hours
  BY TasksAssumption DEF NextHour, taskVars, TasksInv, TasksTypeOK, Hours
<1>2. TasksTypeOK' /\ task' = task /\ assignee' = assignee /\ begun' = begun
  BY <1>1 DEF NextHour, taskVars, TasksInv, TasksTypeOK
<1> QED  BY <1>2, TasksElsewhere

LEMMA NextTasks == TasksInv /\ [TasksNext]_taskVars => TasksInv' /\ FrozenStep
<1> SUFFICES ASSUME TasksInv, [TasksNext]_taskVars  PROVE TasksInv' /\ FrozenStep
  OBVIOUS
<1>1. ASSUME NEW t \in Txs, NEW k \in Tasks, NEW u \in People, NEW some \in SUBSET People,
             NEW h \in Hours, BeginCreate(t, k, u, some, h)
      PROVE  TasksInv' /\ FrozenStep
  BY <1>1, BeginsCreate
<1>2. ASSUME NEW t \in Txs, NEW k \in Tasks, NEW u \in People, NEW isDone \in BOOLEAN,
             LockMark(t, k, u, isDone)
      PROVE  TasksInv' /\ FrozenStep
  BY <1>2, LocksMark
<1>3. ASSUME NEW t \in Txs, Create(t) \/ Mark(t) \/ Abandon(t)
      PROVE  TasksInv' /\ FrozenStep
  BY <1>3, TaskCreates, Marks, Abandons
<1>4. ASSUME NEW k \in Tasks, NEW u \in People, NEW h \in Hours,
  NEW wanted \in SUBSET People,
             update(k, u, h, wanted)
      PROVE  TasksInv' /\ FrozenStep
  BY <1>4, Updates
<1>5. ASSUME NEW k \in Tasks, NEW u \in People, cancel(k, u)
      PROVE  TasksInv' /\ FrozenStep
  BY <1>5, Cancels
<1>6. ASSUME NEW p \in People, NEW active \in BOOLEAN, NEW scope \in Scopes,
             changePerson(p, active, scope)
      PROVE  TasksInv' /\ FrozenStep
  BY <1>6, PeopleChange
<1>7. ASSUME NextHour \/ UNCHANGED taskVars  PROVE TasksInv' /\ FrozenStep
  BY <1>7, TimePasses
<1> QED
  BY <1>1, <1>2, <1>3, <1>4, <1>5, <1>6, <1>7, Zenon DEF TasksNext

-----------------------------------------------------------------------------
(* Every reachable state has the type it should have.                      *)
THEOREM TasksTypeCorrect == TasksSpec => []TasksTypeOK
<1>1. TasksInit => TasksInv
  BY InitTasks
<1>2. TasksInv /\ [TasksNext]_taskVars => TasksInv'
  BY NextTasks
<1>3. TasksInv => TasksTypeOK
  BY DEF TasksInv
<1> QED
  BY <1>1, <1>2, <1>3, PTL DEF TasksSpec

(* A cancelled task is frozen, and so is a part that was taken away,       *)
(* however many marks are on their way (StaffTasksService.mark, update,    *)
(* cancel): none of them is overtaken.                                     *)
THEOREM PartsStayFrozen == TasksSpec => FrozenParts
<1>1. TasksInit => TasksInv
  BY InitTasks
<1>2. TasksInv /\ [TasksNext]_taskVars => TasksInv'
  BY NextTasks
<1>3. TasksInv /\ [TasksNext]_taskVars => [FrozenStep]_taskVars
  BY NextTasks
<1>4. FrozenParts <=> [][FrozenStep]_taskVars
  BY DEF FrozenParts, FrozenStep
<1> QED
  BY <1>1, <1>2, <1>3, <1>4, PTL DEF TasksSpec

-----------------------------------------------------------------------------
(* What the database counts as open is what the program does not count as  *)
(* closed.                                                                 *)
LEMMA Counts ==
  ASSUME NEW k \in Tasks
  PROVE  /\ openTask(k) <=> ~isClosed(k)
         /\ done(k) # total(k) <=> \E p \in People : isCounted(k, p) /\ assignee[<<k,
           p>>].doneAt = None
<1>1. total(k) = {p \in People : isCounted(k, p)}
  BY DEF total, isCounted, standing, rows
<1>2. done(k) = {p \in People : isCounted(k, p) /\ assignee[<<k, p>>].doneAt # None}
  BY <1>1 DEF done
<1>3. done(k) # total(k) <=> \E p \in People : isCounted(k, p) /\ assignee[<<k,
  p>>].doneAt = None
  BY <1>1, <1>2, Zenon
<1>4. total(k) = {} <=> ~\E p \in People : isCounted(k, p)
  BY <1>1
<1> QED
  BY <1>3, <1>4 DEF openTask, isClosed

(* Every task is listed once and reminded of where it is shown as late.    *)
LEMMA Seen == TasksTypeOK => TasksAreSeen
<1> SUFFICES ASSUME TasksTypeOK, NEW k \in Started, NEW u \in People
             PROVE  /\ task[k].author = u => (k \in givenBy(u)) # (k \in olderGiven(u))
                    /\ u \in standing(k) => (k \in mine(u)) # (k \in olderMine(u))
                    /\ task[k].author = u => (overdue(k) <=> k \in dashboardGiven(u))
                    /\ k \in dashboardGiven(u) =>
                         /\ notDone(k) # {}
                         /\ \A p \in notDone(k) :
                              k \in dashboardMine(p) /\ assigneeState(k, p) = "overdue"
  BY DEF TasksAreSeen, ListedOnce, RemindersAgree
<1>1. /\ k \in Tasks /\ task[k] \in TaskRows
      /\ now \in Int /\ Today[now] \in Int /\ Today[now] >= now /\ task[k].dueAt \in Int
  <2>1. k \in Tasks /\ task[k] \in TaskRows /\ now \in Hours
    BY DEF Started, TasksTypeOK
  <2>2. Today[now] \in Int /\ Today[now] >= now
    BY <2>1, TasksAssumption
  <2> QED  BY <2>1, <2>2, TasksAssumption DEF TaskRows, Hours
<1>2. openTask(k) <=> ~isClosed(k)
  BY <1>1, Counts
<1>3. task[k].author = u => (k \in givenBy(u)) # (k \in olderGiven(u))
  BY <1>2 DEF givenBy, olderGiven
<1>4. u \in standing(k) => (k \in mine(u)) # (k \in olderMine(u))
  BY DEF mine, olderMine
<1>5. task[k].author = u => (overdue(k) <=> k \in dashboardGiven(u))
  BY <1>1, Counts DEF overdue, dashboardGiven
<1>6. ASSUME k \in dashboardGiven(u)
      PROVE  /\ notDone(k) # {}
             /\ \A p \in notDone(k) :
                  k \in dashboardMine(p) /\ assigneeState(k, p) = "overdue"
  <2>1. /\ ~task[k].cancelled /\ task[k].dueAt < now
        /\ \E p \in People : isCounted(k, p) /\ assignee[<<k, p>>].doneAt = None
    BY <1>6 DEF dashboardGiven
  <2>2. notDone(k) # {}
    BY <2>1 DEF notDone, isCounted, standing, rows
  <2>3. ASSUME NEW p \in notDone(k)
        PROVE  k \in dashboardMine(p) /\ assigneeState(k, p) = "overdue"
    <3>1. p \in standing(k) /\ assignee[<<k, p>>].doneAt = None
      BY DEF notDone, isCounted
    <3>2. task[k].dueAt < Today[now] /\ now > task[k].dueAt
      BY <1>1, <2>1
    <3> QED  BY <2>1, <3>1, <3>2 DEF dashboardMine, openRow, assigneeState
  <2> QED  BY <2>2, <2>3
<1> QED  BY <1>3, <1>4, <1>5, <1>6

(* A task, and a part of it, is on the first page or among the older ones, *)
(* and the author and everybody late are reminded of it, as what the       *)
(* database is asked (openTaskWhere, openRowWhere) and what the program    *)
(* counts (tasks-calc.ts) agree.                                           *)
THEOREM EveryTaskIsSeen == TasksSpec => []TasksAreSeen
<1>1. TasksInit => TasksInv
  BY InitTasks
<1>2. TasksInv /\ [TasksNext]_taskVars => TasksInv'
  BY NextTasks
<1>3. TasksInv => TasksAreSeen
  BY Seen DEF TasksInv
<1> QED
  BY <1>1, <1>2, <1>3, PTL DEF TasksSpec

LEMMA LeastNatural ==
  ASSUME NEW S \in SUBSET Nat, S # {}
  PROVE  \E n \in S : \A m \in S : n <= m
<1> DEFINE R == OpToRel(<, Nat)
<1>1. \A m, n \in Nat : m < n => <<m, n>> \in R
  BY DEF OpToRel
<1>2. IsWellFoundedOn(R, Nat)
  BY NatLessThanWellFounded
<1> HIDE DEF R
<1>3. PICK n \in S : \A m \in S : <<m, n>> \notin R
  BY <1>2, WFMin
<1>4. \A m \in S : ~(m < n)
  BY <1>1, <1>3
<1> QED
  BY <1>4

-----------------------------------------------------------------------------
(* Backup copies                                                           *)

(* Output that has ended is all in the file unless writing it failed, and  *)
(* nothing settles well before the exit and the output.                    *)
ChildSound(c) ==
  /\ ~c.exited => ~c.ok
  /\ Container /\ c.flushed => c.drained \/ c.writeFailed
  /\ c.settled /\ c.ok => c.exited /\ c.flushed

(* What a run relies on: time stands still for it, other copies are older, *)
(* and once it has renamed its own this is the newest.                     *)
RunKnows ==
  copy # None =>
    /\ process # "down" /\ copy.at = clock /\ ChildSound(copy.child)
    /\ copy.stage # "creating" => run[copy.id] # None
    /\ \A f \in files : f.id <= copy.id
    /\ copy.stage \in {"renamed", "retaining"} =>
         \E f \in files : f.id = copy.id /\ f.kind = copy.kind /\ f.at = clock

EndingKnows ==
  /\ ending # {} => process # "down"
  /\ \A id \in ending : run[id] # None

(* Every run that succeeded has left a copy that is at least as new.       *)
FilesFresh ==
  \A id \in succeeded :
    /\ run[id].finishedAt \in 0..clock
    /\ \E f \in files : f.at >= run[id].finishedAt

(* A month is kept among others: it is there, or enough later ones are.    *)
KeptIn(month, months) ==
  \/ month \in months
  \/ Cardinality(months \cap (month+1)..LastTick) >= KeepMonths

MonthsThere == {monthWhen(f) : f \in scheduled}

MonthsHold ==
  \A id \in succeeded : run[id].kind = "scheduled" =>
    KeptIn(run[id].finishedAt \div Month, MonthsThere)

Promises == FilesFresh /\ MonthsHold

BackupsInv ==
  /\ BackupsTypeOK /\ IsFiniteSet(files) /\ CopiesAreWhole
  /\ RunKnows /\ EndingKnows /\ Promises

LEMMA Parameters ==
  /\ Copies \subseteq Nat /\ Container \in BOOLEAN
  /\ Day \in Nat \ {0} /\ Month \in Nat \ {0} /\ KeepDaily \in Nat \ {0}
  /\ LastTick \in Nat /\ KeepMonths \in Nat /\ ManualDays \in Nat /\ Stale \in Nat
  /\ None \notin RunRows /\ None \notin CopyRows /\ None \notin 0..LastTick
BY BackupsAssumption

LEMMA ChildBegins == started \in ChildRows /\ ChildSound(started)
BY Parameters DEF started, ChildRows, ChildSound

LEMMA Finishes ==
  ASSUME NEW c \in ChildRows
  PROVE  maybeFinish(c) \in ChildRows /\ maybeFinish(c).settled = (c.exited /\ c.flushed)
         /\ maybeFinish(c).ok = c.ok /\ maybeFinish(c).exited = c.exited
         /\ maybeFinish(c).flushed = c.flushed /\ maybeFinish(c).drained = c.drained
         /\ maybeFinish(c).writeFailed = c.writeFailed
BY DEF maybeFinish, ChildRows

LEMMA ChildGoesOn ==
  ASSUME NEW c \in ChildRows, ChildSound(c), ~c.settled, NEW d \in childEvents(c)
  PROVE  d \in ChildRows /\ ChildSound(d)
<1>1. CASE ~c.exited /\ d \in onClose(c)
  <2>1. PICK ok \in BOOLEAN : d = maybeFinish([c EXCEPT !.exited = TRUE, !.ok = ok])
    BY <1>1 DEF onClose
  <2>2. PICK e : e = [c EXCEPT !.exited = TRUE, !.ok = ok]
    OBVIOUS
  <2>3. e \in ChildRows /\ e.exited /\ e.flushed = c.flushed /\ e.drained = c.drained
        /\ e.writeFailed = c.writeFailed
    BY <2>2 DEF ChildRows
  <2> QED  BY <2>1, <2>2, <2>3, Finishes DEF ChildSound
<1>2. CASE ~c.flushed /\ d \in onFlush(c)
  <2>1. d = maybeFinish([c EXCEPT !.flushed = TRUE, !.drained = TRUE])
    BY <1>2 DEF onFlush
  <2>2. PICK e : e = [c EXCEPT !.flushed = TRUE, !.drained = TRUE]
    OBVIOUS
  <2>3. e \in ChildRows /\ e.exited = c.exited /\ e.ok = c.ok /\ e.drained
    BY <2>2 DEF ChildRows
  <2> QED  BY <2>1, <2>2, <2>3, Finishes DEF ChildSound
<1>3. CASE ~c.flushed /\ d \in onWriteError(c)
  <2>1. d = maybeFinish([c EXCEPT !.flushed = TRUE, !.writeFailed = TRUE])
    BY <1>3 DEF onWriteError
  <2>2. PICK e : e = [c EXCEPT !.flushed = TRUE, !.writeFailed = TRUE]
    OBVIOUS
  <2>3. e \in ChildRows /\ e.exited = c.exited /\ e.ok = c.ok /\ e.writeFailed
    BY <2>2 DEF ChildRows
  <2> QED  BY <2>1, <2>2, <2>3, Finishes DEF ChildSound
<1>4. CASE d \in onTimer(c)
  BY <1>4 DEF onTimer, ChildRows, ChildSound
<1>5. CASE c.timedOut /\ d \in onGrace(c)
  BY <1>5 DEF onGrace, ChildRows, ChildSound
<1>6. CASE d \in onSpawnError(c)
  BY <1>6 DEF onSpawnError, ChildRows, ChildSound
<1> QED  BY <1>1, <1>2, <1>3, <1>4, <1>5, <1>6 DEF childEvents

(* What settles well is whole.                                             *)
LEMMA WellIsWhole ==
  ASSUME NEW c \in ChildRows, ChildSound(c), c.settled, exitedWell(c)
  PROVE  isWhole(c) = TRUE
BY DEF ChildSound, exitedWell, isWhole, ChildRows

-----------------------------------------------------------------------------
(* Steps that remove nothing                                               *)

LEMMA DivBounds ==
  ASSUME NEW x \in Nat, NEW d \in Nat \ {0}
  PROVE  x \div d \in Nat /\ x \div d <= x
OBVIOUS

LEMMA FiniteLater ==
  ASSUME NEW month \in Nat, NEW months
  PROVE  /\ IsFiniteSet(months \cap (month+1)..LastTick)
         /\ Cardinality(months \cap (month+1)..LastTick) \in Nat
<1>1. IsFiniteSet((month+1)..LastTick)
  BY Parameters, FS_Interval
<1>2. IsFiniteSet(months \cap (month+1)..LastTick)
  BY <1>1, FS_Subset
<1> QED  BY <1>2, FS_CardinalityType

(* More months, and a later one, do not take what is kept.                 *)
LEMMA KeptInMore ==
  ASSUME NEW month \in Nat, NEW S, NEW T, S \subseteq T, KeptIn(month, S)
  PROVE  KeptIn(month, T)
<1> DEFINE s == S \cap (month+1)..LastTick
           t == T \cap (month+1)..LastTick
<1>1. s \in SUBSET t
  OBVIOUS
<1>2. IsFiniteSet(t) /\ Cardinality(s) \in Nat /\ Cardinality(t) \in Nat
  BY FiniteLater
<1>3. Cardinality(s) <= Cardinality(t)
  BY <1>1, <1>2, FS_Subset
<1>4. month \in S \/ Cardinality(s) >= KeepMonths
  BY DEF KeptIn
<1> HIDE DEF s, t
<1>5. month \in T \/ Cardinality(t) >= KeepMonths
  BY <1>2, <1>3, <1>4, Parameters
<1> QED  BY <1>5 DEF KeptIn, t

(* Runs that have succeeded stay as they are or are forgotten, and the     *)
(* clock and the folder grow.                                              *)
LEMMA PromisesKept ==
  ASSUME BackupsInv, BackupsTypeOK', IsFiniteSet(files'), files \subseteq files',
         clock' >= clock,
         \A id \in succeeded' : id \in succeeded /\ run'[id] = run[id]
  PROVE  Promises'
<1>1. FilesFresh'
  <2>1. ASSUME NEW id \in succeeded'
        PROVE  /\ run'[id].finishedAt \in 0..clock'
               /\ \E f \in files' : f.at >= run'[id].finishedAt
    <3>1. /\ run[id].finishedAt \in 0..clock /\ run'[id] = run[id]
          /\ \E f \in files : f.at >= run[id].finishedAt
      BY <2>1 DEF BackupsInv, Promises, FilesFresh
    <3> QED  BY <3>1, Parameters DEF BackupsInv, BackupsTypeOK
  <2> QED  BY <2>1 DEF FilesFresh
<1>2. MonthsThere \subseteq MonthsThere'
  BY DEF scheduled, MonthsThere, monthWhen
<1>3. MonthsHold'
  <2>1. ASSUME NEW id \in succeeded', run'[id].kind = "scheduled"
        PROVE  KeptIn(run'[id].finishedAt \div Month, MonthsThere')
    <3>1. PICK month : month = run[id].finishedAt \div Month
      OBVIOUS
    <3>2. run'[id] = run[id] /\ run[id].finishedAt \in Nat
      BY <2>1, Parameters DEF BackupsInv, BackupsTypeOK, Promises, FilesFresh
    <3>3. month \in Nat
      BY <3>1, <3>2, Parameters, DivBounds
    <3>4. KeptIn(month, MonthsThere)
      BY <2>1, <3>1, <3>2 DEF BackupsInv, Promises, MonthsHold
    <3>5. KeptIn(month, MonthsThere')
      BY <1>2, <3>3, <3>4, KeptInMore
    <3> QED  BY <3>1, <3>2, <3>5
  <2> QED  BY <2>1 DEF MonthsHold, KeptIn
<1> QED  BY <1>1, <1>3 DEF Promises

LEMMA FilesUnchanged ==
  ASSUME BackupsInv, BackupsTypeOK', files' = files, clock' = clock,
         \A id \in succeeded' : id \in succeeded /\ run'[id] = run[id],
         RunKnows', EndingKnows'
  PROVE  BackupsInv'
<1>1. IsFiniteSet(files') /\ CopiesAreWhole'
  BY DEF BackupsInv, CopiesAreWhole
<1>2. clock' >= clock
  BY Parameters DEF BackupsInv, BackupsTypeOK
<1>3. Promises'
  BY <1>1, <1>2, PromisesKept
<1> QED  BY <1>1, <1>3 DEF BackupsInv

LEMMA CreateInv ==
  ASSUME BackupsInv, NEW id \in Copies, NEW kind \in Kinds, create(id, kind),
         process' \in {"starting", "up"}, UNCHANGED <<clock, run, files, ending>>
  PROVE  BackupsInv'
<1>1. PICK c : c = [id |-> id, kind |-> kind, at |-> clock, stage |-> "creating",
                    child |-> started]
  OBVIOUS
<1>2. copy' = c
  BY <1>1 DEF create
<1>3. c \in CopyRows /\ c.id = id /\ c.at = clock /\ c.child = started
      /\ c.stage = "creating"
  BY <1>1, ChildBegins DEF CopyRows, BackupsInv, BackupsTypeOK
<1>4. BackupsTypeOK'
  BY <1>2, <1>3 DEF BackupsInv, BackupsTypeOK
<1>5. \A f \in files : f.id <= id
  BY Parameters DEF create, BackupsInv, BackupsTypeOK, FileRows
<1>6. RunKnows'
  BY <1>2, <1>3, <1>5, ChildBegins DEF RunKnows
<1>7. EndingKnows'
  BY DEF BackupsInv, EndingKnows
<1> QED  BY <1>4, <1>6, <1>7, FilesUnchanged DEF succeeded

LEMMA CopyTypes ==
  ASSUME BackupsInv, copy # None
  PROVE  /\ copy \in CopyRows /\ copy.child \in ChildRows /\ copy.id \in Copies
         /\ copy.kind \in Kinds /\ copy.at \in 0..LastTick
         /\ process # "down" /\ copy.at = clock /\ ChildSound(copy.child)
         /\ copy.stage # "creating" => run[copy.id] # None
         /\ \A f \in files : f.id <= copy.id
         /\ copy.stage \in {"renamed", "retaining"} =>
              \E f \in files : f.id = copy.id /\ f.kind = copy.kind /\ f.at = clock
BY DEF BackupsInv, BackupsTypeOK, CopyRows, RunKnows

LEMMA CopyThere ==
  ASSUME BackupsInv, copy # None, copy.stage \in {"renamed", "retaining"}
  PROVE  \E f \in files : f.id = copy.id /\ f.kind = copy.kind /\ f.at = clock
BY DEF BackupsInv, RunKnows

LEMMA InsertInv ==
  ASSUME BackupsInv, Insert
  PROVE  BackupsInv'
<1>1. copy # None /\ copy.stage = "creating"
      /\ copy' = [copy EXCEPT !.stage = "dumping"]
      /\ run' = [run EXCEPT ![copy.id] = runRow("running", None)]
      /\ UNCHANGED <<clock, process, files, ending>>
  BY DEF Insert, At, Step
<1>2. PICK c \in CopyRows : c = copy
  BY <1>1, CopyTypes
<1>3. PICK d : d = [c EXCEPT !.stage = "dumping"]
  OBVIOUS
<1>4. d \in CopyRows /\ d.stage = "dumping" /\ d.id = c.id /\ d.kind = c.kind
      /\ d.at = c.at /\ d.child = c.child
  BY <1>3 DEF CopyRows
<1>5. copy' = d /\ d # None
  BY <1>1, <1>2, <1>3, <1>4, Parameters
<1>6. PICK r \in RunRows : r = runRow("running", None) /\ r.status = "running"
  BY <1>1, CopyTypes DEF runRow, RunRows
<1>7. run' = [run EXCEPT ![c.id] = r] /\ c.id \in Copies /\ r # None
  BY <1>1, <1>2, <1>6, CopyTypes, Parameters
<1>8. BackupsTypeOK'
  BY <1>1, <1>4, <1>5, <1>7 DEF BackupsInv, BackupsTypeOK
<1>9. \A id \in Copies : run'[id] = IF id = c.id THEN r ELSE run[id]
  BY <1>7 DEF BackupsInv, BackupsTypeOK
<1>10. RunKnows'
  BY <1>1, <1>2, <1>4, <1>5, <1>7, <1>9, CopyTypes DEF RunKnows
<1>11. EndingKnows'
  BY <1>1, <1>7, <1>9 DEF BackupsInv, BackupsTypeOK, EndingKnows
<1>12. \A id \in succeeded' : id \in succeeded /\ run'[id] = run[id]
  BY <1>6, <1>9 DEF succeeded
<1> QED  BY <1>1, <1>8, <1>10, <1>11, <1>12, FilesUnchanged

LEMMA DumpInv ==
  ASSUME BackupsInv, Dump
  PROVE  BackupsInv'
<1>1. copy # None /\ copy.stage = "dumping" /\ ~copy.child.settled
      /\ UNCHANGED <<clock, process, run, files, ending>>
  BY DEF Dump, At
<1>2. PICK c \in CopyRows : c = copy /\ ChildSound(c.child) /\ c.child \in ChildRows
  BY <1>1, CopyTypes
<1>3. PICK child \in childEvents(c.child) : copy' = [c EXCEPT !.child = child]
  BY <1>2 DEF Dump
<1>4. child \in ChildRows /\ ChildSound(child)
  BY <1>1, <1>2, ChildGoesOn
<1>5. PICK d : d = [c EXCEPT !.child = child]
  OBVIOUS
<1>6. d \in CopyRows /\ d.stage = "dumping" /\ d.id = c.id /\ d.kind = c.kind
      /\ d.at = c.at /\ d.child = child
  BY <1>1, <1>2, <1>4, <1>5 DEF CopyRows
<1>7. copy' = d /\ d # None
  BY <1>3, <1>5, <1>6, Parameters
<1>8. BackupsTypeOK'
  BY <1>1, <1>6, <1>7 DEF BackupsInv, BackupsTypeOK
<1>9. RunKnows'
  BY <1>1, <1>2, <1>4, <1>6, <1>7, CopyTypes DEF RunKnows
<1>10. EndingKnows'
  BY <1>1 DEF BackupsInv, EndingKnows
<1> QED  BY <1>1, <1>8, <1>9, <1>10, FilesUnchanged DEF succeeded

(* The request ends without its copy.                                      *)
LEMMA NoCopyInv ==
  ASSUME BackupsInv, InsertFails \/ DumpFails
  PROVE  BackupsInv'
<1>1. copy # None /\ copy' = None /\ UNCHANGED <<clock, process, run, files>>
  BY DEF InsertFails, DumpFails, At
<1>2. ending' = ending \/ (ending' = ending \cup {copy.id} /\ copy.stage # "creating")
  BY DEF InsertFails, DumpFails, At
<1>3. BackupsTypeOK'
  BY <1>1, <1>2, CopyTypes DEF BackupsInv, BackupsTypeOK
<1>4. RunKnows' /\ EndingKnows'
  BY <1>1, <1>2, CopyTypes DEF BackupsInv, RunKnows, EndingKnows
<1> QED  BY <1>1, <1>3, <1>4, FilesUnchanged DEF succeeded

LEMMA EndingInv ==
  ASSUME BackupsInv, NEW id \in Copies, FinishFailed(id) \/ FinishLost(id)
  PROVE  BackupsInv'
<1>1. id \in ending /\ ending' = ending \ {id} /\ UNCHANGED <<clock, process, files, copy>>
  BY DEF FinishFailed, FinishLost
<1>2. PICK r \in RunRows : r = run[id]
  BY <1>1 DEF BackupsInv, BackupsTypeOK, EndingKnows
<1>3. \A i \in Copies : i # id => run'[i] = run[i]
  BY DEF FinishFailed, FinishLost, BackupsInv, BackupsTypeOK
<1>4. /\ run' \in [Copies -> RunRows \cup {None}]
      /\ run'[id] = run[id] \/ (run'[id] \in RunRows /\ run'[id].status = "failed")
  <2>1. CASE FinishFailed(id)
    <3>1. PICK q : q = [r EXCEPT !.status = "failed", !.finishedAt = clock]
      OBVIOUS
    <3>2. q \in RunRows /\ q.status = "failed"
      BY <3>1 DEF RunRows, BackupsInv, BackupsTypeOK
    <3>3. run' = [run EXCEPT ![id] = q]
      BY <2>1, <1>2, <3>1 DEF FinishFailed
    <3> QED  BY <3>2, <3>3 DEF BackupsInv, BackupsTypeOK
  <2>2. CASE FinishLost(id)
    BY <2>2 DEF FinishLost, BackupsInv, BackupsTypeOK
  <2> QED  BY <2>1, <2>2
<1>5. run'[id] # None
  BY <1>2, <1>4, Parameters
<1>6. BackupsTypeOK'
  BY <1>1, <1>4 DEF BackupsInv, BackupsTypeOK
<1>7. RunKnows' /\ EndingKnows'
  BY <1>1, <1>3, <1>5, CopyTypes DEF BackupsInv, BackupsTypeOK, RunKnows, EndingKnows
<1>8. \A i \in succeeded' : i \in succeeded /\ run'[i] = run[i]
  BY <1>3, <1>4 DEF succeeded
<1> QED  BY <1>1, <1>6, <1>7, <1>8, FilesUnchanged

LEMMA StopInv ==
  ASSUME BackupsInv, Stop
  PROVE  BackupsInv'
<1>1. copy' = None /\ ending' = {} /\ process' = "down" /\ UNCHANGED <<clock, run, files>>
  BY DEF Stop
<1>2. BackupsTypeOK' /\ RunKnows' /\ EndingKnows'
  BY <1>1 DEF BackupsInv, BackupsTypeOK, RunKnows, EndingKnows
<1> QED  BY <1>1, <1>2, FilesUnchanged DEF succeeded

LEMMA StartInv ==
  ASSUME BackupsInv, onModuleInit
  PROVE  BackupsInv'
<1>1. process = "down" /\ process' = "starting" /\ UNCHANGED <<clock, files, copy, ending>>
  BY DEF onModuleInit
<1>2. copy = None /\ ending = {}
  BY <1>1, CopyTypes DEF BackupsInv, EndingKnows
<1>3. ASSUME NEW id \in Copies
      PROVE  /\ run'[id] \in RunRows \cup {None}
             /\ run'[id] = run[id]
                  \/ (run'[id] \in RunRows /\ run'[id].status = "failed")
  <2>1. CASE run[id] # None /\ run[id].status = "running"
    <3>1. PICK r \in RunRows : r = run[id]
      BY <2>1 DEF BackupsInv, BackupsTypeOK
    <3>2. run'[id] = [r EXCEPT !.status = "failed", !.finishedAt = clock]
      BY <2>1, <3>1 DEF onModuleInit
    <3> QED  BY <3>2 DEF RunRows, BackupsInv, BackupsTypeOK
  <2>2. CASE ~(run[id] # None /\ run[id].status = "running")
    BY <2>2 DEF onModuleInit, BackupsInv, BackupsTypeOK
  <2> QED  BY <2>1, <2>2
<1>4. run' \in [Copies -> RunRows \cup {None}]
  BY <1>3 DEF onModuleInit
<1>5. BackupsTypeOK' /\ RunKnows' /\ EndingKnows'
  BY <1>1, <1>2, <1>4 DEF BackupsInv, BackupsTypeOK, RunKnows, EndingKnows
<1>6. \A id \in succeeded' : id \in succeeded /\ run'[id] = run[id]
  BY <1>3, Parameters DEF succeeded
<1> QED  BY <1>1, <1>5, <1>6, FilesUnchanged

LEMMA CatchUpInv ==
  ASSUME BackupsInv, NEW id \in Copies, catchUp(id)
  PROVE  BackupsInv'
<1>1. process = "starting" /\ process' = "up" /\ UNCHANGED <<clock, run, files, ending>>
  BY DEF catchUp
<1>2. CASE create(id, "scheduled")
  BY <1>1, <1>2, CreateInv DEF Kinds
<1>3. CASE UNCHANGED copy
  <2>1. BackupsTypeOK' /\ RunKnows' /\ EndingKnows'
    BY <1>1, <1>3 DEF BackupsInv, BackupsTypeOK, RunKnows, EndingKnows
  <2> QED  BY <1>1, <2>1, FilesUnchanged DEF succeeded
<1> QED  BY <1>2, <1>3 DEF catchUp

LEMMA TickInv ==
  ASSUME BackupsInv, Tick
  PROVE  BackupsInv'
<1>1. clock' = clock + 1 /\ clock < LastTick /\ copy = None /\ ending = {}
      /\ UNCHANGED <<process, run, files, copy, ending>> /\ clock \in Nat
  BY Parameters DEF Tick, running, BackupsInv, BackupsTypeOK
<1>2. BackupsTypeOK'
  BY <1>1, Parameters DEF BackupsInv, BackupsTypeOK
<1>3. RunKnows' /\ EndingKnows' /\ IsFiniteSet(files') /\ CopiesAreWhole'
  BY <1>1 DEF BackupsInv, RunKnows, EndingKnows, CopiesAreWhole
<1>4. \A id \in succeeded' : id \in succeeded /\ run'[id] = run[id]
  BY <1>1 DEF succeeded
<1>5. Promises'
  BY <1>1, <1>2, <1>3, <1>4, PromisesKept
<1> QED  BY <1>2, <1>3, <1>5 DEF BackupsInv

LEMMA RenameInv ==
  ASSUME BackupsInv, Rename
  PROVE  BackupsInv'
<1>1. copy # None /\ copy.stage = "dumping" /\ copy.child.settled /\ exitedWell(copy.child)
      /\ UNCHANGED <<clock, process, run, ending>>
  BY DEF Rename, At
<1>2. PICK c \in CopyRows : c = copy /\ ChildSound(c.child) /\ c.child \in ChildRows
  BY <1>1, CopyTypes
<1>3. PICK f : f = [id |-> c.id, kind |-> c.kind, at |-> c.at, whole |-> isWhole(c.child)]
  OBVIOUS
<1>4. f.id = c.id /\ f.kind = c.kind /\ f.at = clock /\ f.whole = TRUE /\ f \in FileRows
  <2>1. isWhole(c.child) = TRUE
    BY <1>1, <1>2, WellIsWhole
  <2> QED  BY <1>1, <1>2, <1>3, <2>1, CopyTypes DEF FileRows
<1>5. files' = files \cup {f}
  BY <1>2, <1>3 DEF Rename
<1>6. PICK d : d = [c EXCEPT !.stage = "renamed", !.child = started]
  OBVIOUS
<1>7. d \in CopyRows /\ d.stage = "renamed" /\ d.id = c.id /\ d.kind = c.kind
      /\ d.at = c.at /\ d.child = started
  BY <1>6, ChildBegins DEF CopyRows
<1>8. copy' = d /\ d # None
  BY <1>2, <1>6, <1>7, Parameters DEF Rename
<1>9. BackupsTypeOK'
  BY <1>1, <1>4, <1>5, <1>7, <1>8 DEF BackupsInv, BackupsTypeOK
<1>10. IsFiniteSet(files') /\ CopiesAreWhole'
  BY <1>4, <1>5, FS_AddElement DEF BackupsInv, CopiesAreWhole
<1>11. \A g \in files' : g.id <= d.id
  <2>1. d.id \in Nat
    BY <1>1, <1>2, <1>7, CopyTypes, Parameters
  <2> QED  BY <1>1, <1>2, <1>4, <1>5, <1>7, <2>1, CopyTypes
<1>12. RunKnows'
  BY <1>1, <1>2, <1>4, <1>5, <1>7, <1>8, <1>11, ChildBegins, CopyTypes DEF RunKnows
<1>13. EndingKnows'
  BY <1>1 DEF BackupsInv, EndingKnows
<1>14. Promises'
  <2>1. files \subseteq files' /\ clock' >= clock
    BY <1>1, <1>5, Parameters DEF BackupsInv, BackupsTypeOK
  <2>2. \A id \in succeeded' : id \in succeeded /\ run'[id] = run[id]
    BY <1>1 DEF succeeded
  <2> QED  BY <1>9, <1>10, <2>1, <2>2, PromisesKept
<1> QED  BY <1>9, <1>10, <1>12, <1>13, <1>14 DEF BackupsInv

LEMMA SucceededInv ==
  ASSUME BackupsInv, FinishSucceeded
  PROVE  BackupsInv'
<1>1. copy # None /\ copy.stage = "renamed"
      /\ copy' = [copy EXCEPT !.stage = "retaining"]
      /\ run' = [run EXCEPT ![copy.id] = runRow("succeeded", clock)]
      /\ UNCHANGED <<clock, process, files, ending>>
  BY DEF FinishSucceeded, At, Step
<1>2. PICK c \in CopyRows : c = copy
  BY <1>1, CopyTypes
<1>3. PICK d : d = [c EXCEPT !.stage = "retaining"]
  OBVIOUS
<1>4. d \in CopyRows /\ d.stage = "retaining" /\ d.id = c.id /\ d.kind = c.kind
      /\ d.at = c.at /\ d.child = c.child
  BY <1>3 DEF CopyRows
<1>5. copy' = d /\ d # None
  BY <1>1, <1>2, <1>3, <1>4, Parameters
<1>6. PICK r : r = runRow("succeeded", clock)
  OBVIOUS
<1>7. r \in RunRows /\ r.kind = c.kind /\ r.finishedAt = clock /\ r # None
  BY <1>1, <1>2, <1>6, CopyTypes, Parameters DEF runRow, RunRows, BackupsInv, BackupsTypeOK
<1>8. \A id \in Copies : run'[id] = IF id = c.id THEN r ELSE run[id]
  BY <1>1, <1>2, <1>6 DEF BackupsInv, BackupsTypeOK
<1>9. BackupsTypeOK'
  BY <1>1, <1>2, <1>4, <1>5, <1>6, <1>7, CopyTypes DEF BackupsInv, BackupsTypeOK
<1>10. RunKnows'
  BY <1>1, <1>2, <1>4, <1>5, <1>7, <1>8, CopyTypes DEF RunKnows
<1>11. EndingKnows'
  BY <1>1, <1>7, <1>8 DEF BackupsInv, BackupsTypeOK, EndingKnows
<1>12. PICK f \in files : f.kind = c.kind /\ f.at = clock
  <2>1. PICK f \in files : f.kind = copy.kind /\ f.at = clock
    BY <1>1, CopyThere
  <2> QED  BY <1>2, <2>1
<1>13. /\ clock \in Nat
       /\ \A id \in succeeded' : id = c.id \/ (id \in succeeded /\ run'[id] = run[id])
  <2>1. clock \in Nat
    BY Parameters DEF BackupsInv, BackupsTypeOK
  <2>2. ASSUME NEW id \in succeeded', id # c.id
        PROVE  id \in succeeded /\ run'[id] = run[id]
    <3>1. id \in Copies /\ run'[id] = run[id]
      BY <1>8, <2>2 DEF succeeded
    <3> QED  BY <2>2, <3>1 DEF succeeded
  <2> QED  BY <2>1, <2>2
<1>14. FilesFresh'
  <2>1. ASSUME NEW id \in succeeded'
        PROVE  run'[id].finishedAt \in 0..clock /\ \E g \in files : g.at >= run'[id].finishedAt
    <3>1. CASE id = c.id
      <4>1. run'[id] = r
        BY <1>8, <2>1, <3>1 DEF succeeded
      <4> QED  BY <4>1, <1>7, <1>12, <1>13
    <3>2. CASE id # c.id
      <4>1. id \in succeeded /\ run'[id] = run[id]
        BY <1>13, <2>1, <3>2
      <4> QED  BY <4>1 DEF BackupsInv, Promises, FilesFresh
    <3> QED  BY <3>1, <3>2
  <2> QED  BY <1>1, <2>1 DEF FilesFresh
<1>15. MonthsThere' = MonthsThere
  BY <1>1 DEF MonthsThere, scheduled, monthWhen
<1>16. MonthsHold'
  <2>1. ASSUME NEW id \in succeeded', run'[id].kind = "scheduled"
        PROVE  KeptIn(run'[id].finishedAt \div Month, MonthsThere)
    <3>1. CASE id = c.id
      <4>1. run'[id] = r
        BY <1>8, <2>1, <3>1 DEF succeeded
      <4>2. f \in scheduled
        BY <1>7, <1>12, <2>1, <4>1 DEF scheduled
      <4>3. run'[id].finishedAt \div Month = monthWhen(f)
        BY <1>7, <1>12, <4>1 DEF monthWhen
      <4>4. monthWhen(f) \in MonthsThere
        BY <4>2 DEF MonthsThere
      <4> QED  BY <4>3, <4>4 DEF KeptIn
    <3>2. CASE id # c.id
      <4>1. id \in succeeded /\ run'[id] = run[id]
        BY <1>13, <2>1, <3>2
      <4> QED  BY <4>1, <2>1 DEF BackupsInv, Promises, MonthsHold
    <3> QED  BY <3>1, <3>2
  <2> QED  BY <1>15, <2>1 DEF MonthsHold, KeptIn
<1>17. IsFiniteSet(files') /\ CopiesAreWhole'
  BY <1>1 DEF BackupsInv, CopiesAreWhole
<1> QED  BY <1>9, <1>10, <1>11, <1>14, <1>16, <1>17 DEF BackupsInv, Promises

LEMMA RestoreInv ==
  ASSUME BackupsInv, NEW id \in Copies, restore(id)
  PROVE  BackupsInv'
<1>1. process = "down" /\ UNCHANGED <<clock, process, copy, ending>>
      /\ run' = [i \in Copies |-> None]
  BY DEF restore
<1>2. copy = None /\ ending = {}
  BY <1>1, CopyTypes DEF BackupsInv, EndingKnows
<1>3. PICK f : f = [id |-> id, kind |-> "pre_restore", at |-> clock, whole |-> TRUE]
  OBVIOUS
<1>4. files' = files \cup {f} /\ f \in FileRows /\ f.whole = TRUE
  BY <1>3 DEF restore, FileRows, Kinds, BackupsInv, BackupsTypeOK
<1>5. BackupsTypeOK'
  BY <1>1, <1>4 DEF BackupsInv, BackupsTypeOK
<1>6. IsFiniteSet(files') /\ CopiesAreWhole'
  BY <1>4, FS_AddElement DEF BackupsInv, CopiesAreWhole
<1>7. RunKnows' /\ EndingKnows'
  BY <1>1, <1>2 DEF RunKnows, EndingKnows
<1>8. Promises'
  BY <1>1 DEF Promises, FilesFresh, MonthsHold, succeeded
<1> QED  BY <1>5, <1>6, <1>7, <1>8 DEF BackupsInv

-----------------------------------------------------------------------------
(* Retention                                                               *)

(* There is a newest of some files.                                        *)
LEMMA NewestFile ==
  ASSUME BackupsInv, NEW F \in SUBSET files, F # {}
  PROVE  \E f \in F : \A g \in F : g.id <= f.id
<1> DEFINE later(f) == {g \in F : g.id > f.id}
           sizes == {Cardinality(later(f)) : f \in F}
<1>1. IsFiniteSet(F) /\ \A f \in F : f.id \in Nat
  BY FS_Subset, Parameters DEF BackupsInv, BackupsTypeOK, FileRows
<1>2. \A f \in F : IsFiniteSet(later(f)) /\ Cardinality(later(f)) \in Nat
  BY <1>1, FS_Subset, FS_CardinalityType
<1>3. PICK f \in F : \A g \in F : Cardinality(later(f)) <= Cardinality(later(g))
  <2>1. sizes \in SUBSET Nat /\ sizes # {}
    BY <1>2
  <2>2. PICK n \in sizes : \A m \in sizes : n <= m
    BY <2>1, LeastNatural
  <2>3. PICK f \in F : n = Cardinality(later(f))
    OBVIOUS
  <2>4. \A g \in F : Cardinality(later(g)) \in sizes
    OBVIOUS
  <2> HIDE DEF later, sizes
  <2> QED  BY <2>2, <2>3, <2>4
<1>4. ASSUME NEW g \in F, ~(g.id <= f.id) PROVE FALSE
  <2>1. g.id > f.id
    BY <1>1, <1>4
  <2>2. later(g) \in SUBSET later(f) /\ g \in later(f) /\ g \notin later(g)
    BY <1>1, <2>1
  <2>3. Cardinality(later(g)) <= Cardinality(later(f))
        /\ Cardinality(later(g)) # Cardinality(later(f))
    BY <1>2, <2>2, FS_Subset
  <2>4. Cardinality(later(f)) <= Cardinality(later(g))
    BY <1>3
  <2> HIDE DEF later
  <2> QED  BY <1>2, <2>3, <2>4
<1> QED  BY <1>4

(* A month whose copies are all removed has enough later ones.             *)
LEMMA LostMonth ==
  ASSUME BackupsInv, NEW removed \in SUBSET filesToDelete, files' = files \ removed,
         NEW month \in MonthsThere, month \notin MonthsThere'
  PROVE  Cardinality(MonthsThere \cap (month+1)..LastTick) >= KeepMonths
<1> DEFINE F == {f \in scheduled : monthWhen(f) = month}
<1>1. F \in SUBSET files /\ F # {}
  BY DEF MonthsThere, scheduled
<1>2. PICK f \in F : \A g \in F : g.id <= f.id
  BY <1>1, NewestFile
<1>3. f \in removed
  BY DEF MonthsThere, scheduled, monthWhen
<1>4. f \in scheduled /\ f.kind = "scheduled" /\ monthWhen(f) = month
  BY DEF scheduled
<1>5. ~kept(f)
  BY <1>3, <1>4 DEF filesToDelete
<1>6. newestOfMonth(f)
  <2>1. \A g \in scheduled : g.id \in Nat
    BY Parameters DEF scheduled, BackupsInv, BackupsTypeOK, FileRows
  <2> QED  BY <1>2, <1>4, <2>1 DEF newestOfMonth, newer
<1>7. laterMonths(f) = MonthsThere \cap (month+1)..LastTick
  BY <1>4 DEF laterMonths, MonthsThere
<1>8. month \in Nat
  BY <1>4, Parameters, DivBounds DEF monthWhen, scheduled, BackupsInv, BackupsTypeOK, FileRows
<1>9. Cardinality(laterMonths(f)) \in Nat
  BY <1>7, <1>8, FiniteLater
<1> QED  BY <1>5, <1>6, <1>7, <1>9, Parameters DEF kept

(* What retention keeps, it keeps.                                         *)
LEMMA RetentionKeeps ==
  ASSUME BackupsInv, NEW removed \in SUBSET filesToDelete, files' = files \ removed,
         NEW month \in Nat, KeptIn(month, MonthsThere)
  PROVE  KeptIn(month, MonthsThere')
<1> DEFINE lost == {m \in MonthsThere \ MonthsThere' : m >= month}
<1>1. MonthsThere' \subseteq MonthsThere
  BY DEF MonthsThere, scheduled, monthWhen
<1>2. MonthsThere \subseteq 0..LastTick
  <2>1. ASSUME NEW f \in scheduled PROVE monthWhen(f) \in 0..LastTick
    <3>1. f.at \in Nat /\ f.at <= LastTick
      BY Parameters DEF scheduled, BackupsInv, BackupsTypeOK, FileRows
    <3>2. f.at \div Month \in Nat /\ f.at \div Month <= f.at
      BY <3>1, DivBounds, Parameters
    <3> QED  BY <3>1, <3>2, Parameters DEF monthWhen
  <2> QED  BY <2>1 DEF MonthsThere
<1>3. CASE lost = {}
  <2>1. month \in MonthsThere => month \in MonthsThere'
    BY <1>3
  <2>2. MonthsThere \cap (month+1)..LastTick = MonthsThere' \cap (month+1)..LastTick
    BY <1>1, <1>3
  <2> QED  BY <2>1, <2>2 DEF KeptIn
<1>4. CASE lost # {}
  <2>1. PICK last \in lost : \A m \in lost : m <= last
    <3> DEFINE S == {LastTick - m : m \in lost}
    <3>0. \A m \in lost : m \in Int /\ LastTick - m \in Nat
      BY <1>2, Parameters
    <3>1. S \in SUBSET Nat /\ S # {}
      BY <1>4, <3>0
    <3>2. PICK n \in S : \A m \in S : n <= m
      BY <3>1, LeastNatural
    <3>3. PICK last \in lost : n = LastTick - last
      OBVIOUS
    <3>4. ASSUME NEW m \in lost PROVE m <= last
      <4>1. LastTick - last <= LastTick - m
        BY <3>2, <3>3
      <4>2. m \in Int /\ last \in Int /\ LastTick \in Int
        BY <3>0, Parameters
      <4> QED  BY <4>1, <4>2
    <3> QED  BY <3>4
  <2>2. last \in Nat /\ last >= month
    BY <1>2
  <2>3. Cardinality(MonthsThere \cap (last+1)..LastTick) >= KeepMonths
    BY LostMonth
  <2>4. MonthsThere \cap (last+1)..LastTick = MonthsThere' \cap (last+1)..LastTick
    BY <1>1, <2>1, <2>2
  <2>5. Cardinality(MonthsThere' \cap (last+1)..LastTick) >= KeepMonths
    BY <2>3, <2>4
  <2>6. MonthsThere' \cap (last+1)..LastTick
          \in SUBSET (MonthsThere' \cap (month+1)..LastTick)
    BY <2>2, Parameters
  <2>7. Cardinality(MonthsThere' \cap (last+1)..LastTick)
          <= Cardinality(MonthsThere' \cap (month+1)..LastTick)
    BY <2>6, FiniteLater, FS_Subset
  <2>8. Cardinality(MonthsThere' \cap (last+1)..LastTick) \in Nat
        /\ Cardinality(MonthsThere' \cap (month+1)..LastTick) \in Nat
    BY <2>2, FiniteLater
  <2>9. Cardinality(MonthsThere' \cap (month+1)..LastTick) >= KeepMonths
    BY <2>5, <2>7, <2>8, Parameters
  <2> QED  BY <2>9 DEF KeptIn
<1> QED  BY <1>3, <1>4

(* Retention follows a copy that has just been made, and leaves it.        *)
LEMMA RetentionInv ==
  ASSUME BackupsInv, applyRetention
  PROVE  BackupsInv'
<1>1. copy # None /\ copy.stage = "retaining" /\ copy' = None
      /\ UNCHANGED <<clock, process, run, ending>>
  BY DEF applyRetention, At
<1>2. PICK removed \in SUBSET filesToDelete : files' = files \ removed
  BY DEF applyRetention
<1>3. files' \in SUBSET files
  BY <1>2
<1>4. BackupsTypeOK' /\ RunKnows' /\ EndingKnows' /\ IsFiniteSet(files') /\ CopiesAreWhole'
  BY <1>1, <1>3, FS_Subset
     DEF BackupsInv, BackupsTypeOK, RunKnows, EndingKnows, CopiesAreWhole
<1>5. PICK f \in files : f.id = copy.id /\ f.at = clock
  BY <1>1, CopyThere
<1>6. clock \in Nat /\ \A g \in files : g.id \in Nat /\ g.id <= f.id
  <2>1. \A g \in files : g.id <= f.id
    <3>1. \A g \in files : g.id <= copy.id
      BY <1>1, CopyTypes
    <3>2. copy.id = f.id
      BY <1>5
    <3> QED  BY <3>1, <3>2
  <2>2. clock \in Nat
    BY Parameters DEF BackupsInv, BackupsTypeOK
  <2>3. \A g \in files : g.id \in Nat
    BY Parameters DEF BackupsInv, BackupsTypeOK, FileRows
  <2> QED  BY <2>1, <2>2, <2>3
<1>7. f \notin filesToDelete
  <2>1. newer(f) = {}
    BY <1>6 DEF newer, scheduled
  <2>2. Cardinality({}) = 0
    BY FS_EmptySet
  <2>3. kept(f)
    BY <2>1, <2>2, Parameters DEF kept
  <2>4. ~(clock \div Day < clock \div Day - ManualDays)
    <3>1. clock \div Day \in Nat
      BY <1>6, DivBounds, Parameters
    <3> QED  BY <3>1, Parameters
  <2> QED  BY <1>5, <2>3, <2>4 DEF filesToDelete
<1>8. f \in files'
  BY <1>2, <1>7
<1>9. FilesFresh'
  <2>1. ASSUME NEW id \in succeeded
        PROVE  run[id].finishedAt \in 0..clock /\ \E g \in files' : g.at >= run[id].finishedAt
    <3>1. run[id].finishedAt \in 0..clock
      BY DEF BackupsInv, Promises, FilesFresh
    <3>2. f.at >= run[id].finishedAt
      BY <1>5, <1>6, <3>1
    <3> QED  BY <1>8, <3>1, <3>2
  <2> QED  BY <1>1, <2>1 DEF FilesFresh, succeeded
<1>10. MonthsHold'
  <2>1. ASSUME NEW id \in succeeded, run[id].kind = "scheduled"
        PROVE  KeptIn(run[id].finishedAt \div Month, MonthsThere')
    <3>1. PICK month : month = run[id].finishedAt \div Month
      OBVIOUS
    <3>2. run[id].finishedAt \in Nat
      BY <1>6 DEF BackupsInv, Promises, FilesFresh
    <3>3. month \in Nat
      BY <3>1, <3>2, Parameters, DivBounds
    <3>4. KeptIn(month, MonthsThere)
      BY <2>1, <3>1 DEF BackupsInv, Promises, MonthsHold
    <3>5. KeptIn(month, MonthsThere')
      BY <1>2, <3>3, <3>4, RetentionKeeps
    <3> QED  BY <3>1, <3>5
  <2> QED  BY <1>1, <2>1 DEF MonthsHold, KeptIn, succeeded
<1> QED  BY <1>4, <1>9, <1>10 DEF BackupsInv, Promises

-----------------------------------------------------------------------------
LEMMA InitBackups == BackupsInit => BackupsInv
<1> SUFFICES ASSUME BackupsInit PROVE BackupsInv
  OBVIOUS
<1>1. BackupsTypeOK
  BY Parameters DEF BackupsInit, BackupsTypeOK
<1> QED  BY <1>1, FS_EmptySet
   DEF BackupsInit, BackupsInv, CopiesAreWhole, RunKnows, EndingKnows, Promises,
       FilesFresh, MonthsHold, succeeded

LEMMA NextBackups == BackupsInv /\ [BackupsNext]_backupVars => BackupsInv'
<1> SUFFICES ASSUME BackupsInv, [BackupsNext]_backupVars PROVE BackupsInv'
  OBVIOUS
<1>1. ASSUME NEW id \in Copies, NEW kind \in {"manual", "scheduled"}, create(id, kind),
             process # "down", UNCHANGED <<clock, process, run, files, ending>>
      PROVE  BackupsInv'
  <2>1. process' \in {"starting", "up"} /\ kind \in Kinds
    BY <1>1 DEF BackupsInv, BackupsTypeOK, Kinds
  <2> QED  BY <1>1, <2>1, CreateInv
<1>2. ASSUME NEW id \in Copies, Manual(id) \/ handleDailyBackup(id)
      PROVE  BackupsInv'
  BY <1>1, <1>2 DEF Manual, handleDailyBackup
<1>3. CASE UNCHANGED backupVars
  <2>1. BackupsTypeOK' /\ RunKnows' /\ EndingKnows'
    BY <1>3 DEF backupVars, BackupsInv, BackupsTypeOK, RunKnows, EndingKnows
  <2> QED  BY <1>3, <2>1, FilesUnchanged DEF backupVars, succeeded
<1> QED  BY <1>2, <1>3, CatchUpInv, EndingInv, RestoreInv, InsertInv, NoCopyInv, DumpInv,
   RenameInv, SucceededInv, RetentionInv, StopInv, StartInv, TickInv DEF BackupsNext

LEMMA KeepsPromises == BackupsInv => CopiesAreKept
<1> SUFFICES ASSUME BackupsInv PROVE CopiesAreKept
  OBVIOUS
<1>1. FreshMeansCopy
  <2>1. ASSUME ~stale PROVE \E f \in files : f.whole /\ clock - f.at <= Stale
    <3>1. PICK id \in lastSuccess : ~(clock - run[id].finishedAt > Stale)
      BY <2>1 DEF stale
    <3>2. run[id].finishedAt \in 0..clock
          /\ \E f \in files : f.at >= run[id].finishedAt
      BY DEF lastSuccess, BackupsInv, Promises, FilesFresh
    <3>3. PICK f \in files : f.at >= run[id].finishedAt
      BY <3>2
    <3>4. f.at \in Int /\ clock \in Int /\ f.whole
      BY Parameters DEF BackupsInv, BackupsTypeOK, FileRows, CopiesAreWhole
    <3> QED  BY <3>1, <3>2, <3>3, <3>4, Parameters
  <2> QED  BY <2>1 DEF FreshMeansCopy
<1>2. MonthsAreKept
  BY DEF BackupsInv, Promises, MonthsHold, KeptIn, MonthsThere, MonthsAreKept
<1> QED  BY <1>1, <1>2 DEF CopiesAreKept

(* The variables of the backups have their types.                          *)
THEOREM BackupsTypeCorrect == BackupsSpec => []BackupsTypeOK
BY InitBackups, NextBackups, PTL DEF BackupsSpec, BackupsInv

(* A file that carries the name of a copy holds all of it, in whatever     *)
(* order exit, output, errors and timers of the dump arrive and wherever   *)
(* the process stops.                                                      *)
THEOREM WholeCopies == BackupsSpec => []CopiesAreWhole
BY InitBackups, NextBackups, PTL DEF BackupsSpec, BackupsInv

(* A fresh status means a fresh copy, and retention keeps the last copy of *)
(* each of the latest months, whichever of the files it may remove it does *)
(* remove.                                                                 *)
THEOREM KeptCopies == BackupsSpec => []CopiesAreKept
BY InitBackups, NextBackups, KeepsPromises, PTL DEF BackupsSpec

=============================================================================
