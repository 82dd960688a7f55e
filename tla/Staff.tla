------------------------------- MODULE Staff -------------------------------
(***************************************************************************)
(* Users and their positions (users/users.service.ts,                      *)
(* positions/positions.service.ts), with the salary terms that keep a      *)
(* teacher a teacher (payroll/salary-terms.service.ts).                    *)
(*                                                                         *)
(* The role of a member of staff is copied from the position when the      *)
(* position is given: "teacher" when it teaches, "admin" when not.  A      *)
(* position is locked shared by those who give it and alone by those who   *)
(* change or remove it; a user is locked alone by every change.  Which     *)
(* changes an actor may ask for is left open.                              *)
(***************************************************************************)
EXTENDS Office

CONSTANTS
  Users, Positions

StaffRoles == {"admin", "teacher"}
UserRoles == {"root", "parent"} \cup StaffRoles

VARIABLES
  position,   \* position -> [teaching], or None
  user,       \* user -> [role, position, active], or None
  salaried,   \* the users who have salary terms
  work        \* request -> [op, user, position, to], or None

staffVars == <<position, user, salaried, work>>

Open(t, op) == work[t] # None /\ work[t].op = op

userFree(u) == \A t \in Txs : work[t] # None => work[t].user # u

(* Nobody else has the position alone; for alone, nobody has it at all.    *)
positionFree(p, alone) ==
  \A t \in Txs : (work[t] # None /\ work[t].position = p) =>
                   (~alone /\ work[t].op = "give")

Begin(t, row) == work[t] = None /\ work' = [work EXCEPT ![t] = row]

End(t) == work' = [work EXCEPT ![t] = None]

roleOf(p) == IF position[p].teaching THEN "teacher" ELSE "admin"

(* Mutant of holders: users who are switched off are forgotten.            *)
activeHolders(p) ==
  {u \in Users : user[u] # None /\ user[u].position = p /\ user[u].active}

(* The foreign key of User on Position, checked when a row is written.     *)
holders(p) == {u \in Users : user[u] # None /\ user[u].position = p}

-----------------------------------------------------------------------------
(* PositionsService                                                        *)

createPosition(p, teaching) ==
  /\ position[p] = None
  /\ position' = [position EXCEPT ![p] = [teaching |-> teaching]]
  /\ UNCHANGED <<user, salaried, work>>

LockPosition(t, p) ==
  /\ position[p] # None
  /\ positionFree(p, TRUE)
  /\ Begin(t, [op |-> "change", user |-> None, position |-> p])
  /\ UNCHANGED <<position, user, salaried>>

updatePosition(t, teaching) ==
  /\ Open(t, "change")
  /\ LET p == work[t].position IN
       /\ teaching # position[p].teaching => holders(p) = {}
       /\ position' = [position EXCEPT ![p].teaching = teaching]
  /\ End(t)
  /\ UNCHANGED <<user, salaried>>

removePosition(t) ==
  /\ Open(t, "change")
  /\ LET p == work[t].position IN
       /\ holders(p) = {}
       /\ position' = [position EXCEPT ![p] = None]
  /\ End(t)
  /\ UNCHANGED <<user, salaried>>

-----------------------------------------------------------------------------
(* UsersService.create: a parent (or a root, by a root) without a          *)
(* position, and staff with one.                                           *)

createUser(u, role) ==
  /\ user[u] = None /\ userFree(u)
  /\ role \notin StaffRoles
  /\ user' = [user EXCEPT ![u] =
       [role |-> role, position |-> None, active |-> TRUE]]
  /\ UNCHANGED <<position, salaried, work>>

lockPosition(t, u, p) ==
  /\ position[p] # None
  /\ positionFree(p, FALSE)
  /\ work' = [work EXCEPT ![t] = [op |-> "give", user |-> u, position |-> p]]

BeginStaff(t, u, p) ==
  /\ work[t] = None
  /\ user[u] = None /\ userFree(u)
  /\ lockPosition(t, u, p)
  /\ UNCHANGED <<position, user, salaried>>

CreateStaff(t) ==
  /\ Open(t, "give") /\ user[work[t].user] = None
  /\ user' = [user EXCEPT ![work[t].user] =
       [role |-> roleOf(work[t].position), position |-> work[t].position,
        active |-> TRUE]]
  /\ End(t)
  /\ UNCHANGED <<position, salaried>>

-----------------------------------------------------------------------------
(* UsersService.update, setAccess: the user is locked, then the position   *)
(* that is given.  update gives one to a parent too, who becomes staff;    *)
(* setAccess is for staff only.                                            *)

lockUser(t, u) ==
  /\ user[u] # None /\ userFree(u)
  /\ Begin(t, [op |-> "user", user |-> u, position |-> None])
  /\ UNCHANGED <<position, user, salaried>>

(* A teacher who is paid by terms stays a teacher.                         *)
assertNoSalaryRecords(u, nextRole) ==
  (user[u].role = "teacher" /\ nextRole # "teacher") => u \notin salaried

LockGiven(t, p) ==
  /\ Open(t, "user")
  /\ user[work[t].user].role # "root"
  /\ lockPosition(t, work[t].user, p)
  /\ UNCHANGED <<position, user, salaried>>

updateUser(t) ==
  /\ Open(t, "give")
  /\ LET u == work[t].user  p == work[t].position IN
       /\ user[u] # None
       /\ assertNoSalaryRecords(u, roleOf(p))
       /\ user' = [user EXCEPT ![u].role = roleOf(p), ![u].position = p]
  /\ End(t)
  /\ UNCHANGED <<position, salaried>>

setAccess(t) ==
  /\ Open(t, "give") /\ user[work[t].user] # None
  /\ user[work[t].user].role \in StaffRoles
  /\ updateUser(t)

becomeParent(t) ==
  /\ Open(t, "user")
  /\ LET u == work[t].user IN
       /\ user[u].role \in StaffRoles
       /\ assertNoSalaryRecords(u, "parent")
       /\ user' = [user EXCEPT ![u].role = "parent", ![u].position = None]
  /\ End(t)
  /\ UNCHANGED <<position, salaried>>

setActive(t, active) ==
  /\ Open(t, "user")
  /\ user' = [user EXCEPT ![work[t].user].active = active]
  /\ End(t)
  /\ UNCHANGED <<position, salaried>>

-----------------------------------------------------------------------------
(* UsersService.delete: what the user wrote is counted, and the row is     *)
(* deleted later; the foreign keys of what was written meanwhile refuse.   *)

BeginDelete(t, u) ==
  /\ user[u] # None /\ user[u].role # "root"
  /\ u \notin salaried
  /\ Begin(t, [op |-> "delete", user |-> None, position |-> None, of |-> u])
  /\ UNCHANGED <<position, user, salaried>>

delete(t) ==
  /\ Open(t, "delete")
  /\ LET u == work[t].of IN
       /\ userFree(u)
       /\ user[u] # None /\ u \notin salaried
       /\ user' = [user EXCEPT ![u] = None]
  /\ End(t)
  /\ UNCHANGED <<position, salaried>>

-----------------------------------------------------------------------------
(* SalaryTermsService.create reads the teacher, then locks the row and     *)
(* writes the first version; remove deletes the last one.                  *)

BeginTerms(t, u) ==
  /\ user[u] # None /\ user[u].role = "teacher" /\ user[u].active
  /\ Begin(t, [op |-> "terms", user |-> None, position |-> None, of |-> u])
  /\ UNCHANGED <<position, user, salaried>>

createTerms(t) ==
  /\ Open(t, "terms")
  /\ LET u == work[t].of IN
       /\ userFree(u) /\ user[u] # None
       /\ salaried' = salaried \cup {u}
  /\ End(t)
  /\ UNCHANGED <<position, user>>

removeTerms(u) ==
  /\ u \in salaried
  /\ salaried' = salaried \ {u}
  /\ UNCHANGED <<position, user, work>>

(* A request is refused, fails, or is broken as one side of a deadlock.    *)
Refuse(t) ==
  /\ work[t] # None
  /\ End(t)
  /\ UNCHANGED <<position, user, salaried>>

-----------------------------------------------------------------------------
StaffInit ==
  /\ position = [p \in Positions |-> None]
  /\ user = [u \in Users |-> None]
  /\ salaried = {}
  /\ work = [t \in Txs |-> None]

StaffNext ==
  \/ \E p \in Positions, teaching \in BOOLEAN : createPosition(p, teaching)
  \/ \E u \in Users, role \in UserRoles : createUser(u, role)
  \/ \E u \in Users : removeTerms(u)
  \/ \E t \in Txs, p \in Positions :
       \/ LockPosition(t, p)
       \/ LockGiven(t, p)
       \/ \E u \in Users : BeginStaff(t, u, p)
  \/ \E t \in Txs, on \in BOOLEAN :
       \/ updatePosition(t, on)
       \/ setActive(t, on)
  \/ \E t \in Txs, u \in Users :
       \/ lockUser(t, u)
       \/ BeginDelete(t, u)
       \/ BeginTerms(t, u)
  \/ \E t \in Txs :
       \/ removePosition(t) \/ CreateStaff(t) \/ updateUser(t) \/ setAccess(t)
       \/ becomeParent(t) \/ delete(t) \/ createTerms(t) \/ Refuse(t)

StaffSpec == StaffInit /\ [][StaffNext]_staffVars

-----------------------------------------------------------------------------
PositionRows == [teaching : BOOLEAN]

UserRows ==
  [role : UserRoles, position : Positions \cup {None}, active : BOOLEAN]

TxRows ==
  [op : {"change"}, user : {None}, position : Positions]
    \cup [op : {"give"}, user : Users, position : Positions]
    \cup [op : {"user"}, user : Users, position : {None}]
    \cup [op : {"delete", "terms"}, user : {None}, position : {None},
          of : Users]

(* What the proofs ask of the constants.                                   *)
ASSUME StaffAssumption == None \notin Users \cup Positions \cup UserRows \cup PositionRows

(* The variables have their types.                                         *)
StaffTypeOK ==
  /\ position \in [Positions -> PositionRows \cup {None}]
  /\ user \in [Users -> UserRows \cup {None}]
  /\ salaried \subseteq Users
  /\ work \in [Txs -> TxRows \cup {None}]

(* A member of staff has a position that exists and the role that position *)
(* gives, whoever changed the position or the user and in whatever order;  *)
(* parents and roots have none.                                            *)
RoleFollowsPosition ==
  \A u \in Users : user[u] # None =>
    IF user[u].role \in StaffRoles
    THEN /\ user[u].position # None
         /\ position[user[u].position] # None
         /\ user[u].role = roleOf(user[u].position)
    ELSE user[u].position = None

=============================================================================
