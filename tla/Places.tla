------------------------------- MODULE Places -------------------------------
(***************************************************************************)
(* Institutions, their groups, and the children in them (institutions/,    *)
(* groups/, children/), with what binds a child to an institution: an      *)
(* enrollment on one of its tariffs and the meals ordered from it.         *)
(*                                                                         *)
(* A group and a child are moved under locks taken in one order: the       *)
(* group, the institution it or the child goes to, the children.           *)
(* Enrolling and ordering lock the child.                                  *)
(***************************************************************************)
EXTENDS Nothing, Integers

CONSTANTS
  Institutions, Types, Groups, Children,
  Bookings,   \* identities of enrollments and meal orders
  LastDate,   \* the last day there is
  Movers      \* requests in flight

Dates == 1..LastDate

InstitutionRows == [type : Types, active : BOOLEAN]

GroupRows == [institution : Institutions, kind : Types]

ChildRows == [group : Groups \cup {None}]

BookingRows ==
  [kind : {"enrollment", "order"}, child : Children,
   institution : Institutions, to : Dates \cup {None}]

MoveRows ==
  [op : {"group", "moveGroup", "child", "moveChild", "book"},
   what : Groups \cup Children, alone : SUBSET Groups, shared : SUBSET Groups,
   institutions : SUBSET Institutions, children : SUBSET Children,
   at : GroupRows \cup Groups \cup Institutions \cup BookingRows \cup {None}]

ASSUME PlacesAssumption ==
  /\ LastDate \in Nat \ {0}
  /\ None \notin InstitutionRows \cup GroupRows \cup ChildRows
  /\ None \notin BookingRows \cup MoveRows
  /\ None \notin Institutions \cup Groups \cup Dates

VARIABLES
  date,
  institution,   \* institution -> [type, active], or None
  group,         \* group -> [institution, kind], or None
  child,         \* child -> [group], or None
  booking,       \* booking -> [kind, child, institution, to], or None
  moving         \* request -> what it has read and locked, or None

placeVars == <<date, institution, group, child, booking, moving>>

Moving(t, op) == moving[t] # None /\ moving[t].op = op

(* The locks of a request: a group alone or shared, an institution shared, *)
(* and children alone.                                                     *)
groupFree(t, g, alone) ==
  \A u \in Movers \ {t} : moving[u] # None =>
    /\ g \notin moving[u].alone
    /\ alone => g \notin moving[u].shared

institutionFree(i) == \A u \in Movers : moving[u] # None => i \notin moving[u].institutions

childrenFree(t, some) ==
  \A u \in Movers \ {t} : moving[u] # None => moving[u].children \cap some = {}

asking(op, what, at, alone, shared, institutions) ==
  [op |-> op, what |-> what, at |-> at, alone |-> alone, shared |-> shared,
   institutions |-> institutions, children |-> {}]

StartMove(t, r) == moving[t] = None /\ moving' = [moving EXCEPT ![t] = r]

EndMove(t) == moving' = [moving EXCEPT ![t] = None]

institutionOf(c) ==
  IF child[c].group = None THEN None ELSE group[child[c].group].institution

childrenOf(g) == {c \in Children : child[c] # None /\ child[c].group = g}

binds(b) == booking[b].to = None \/ booking[b].to >= date

-----------------------------------------------------------------------------
(* InstitutionsService.create, update, delete.  What an institution is     *)
(* locked alone for is done in one step.                                   *)

createInstitution(i, type) ==
  /\ institution[i] = None
  /\ institution' = [institution EXCEPT ![i] = [type |-> type, active |-> TRUE]]
  /\ UNCHANGED <<date, group, child, booking, moving>>

groupsOf(i) == {g \in Groups : group[g] # None /\ group[g].institution = i}

updateInstitution(i, type, active) ==
  /\ institution[i] # None /\ institutionFree(i)
  /\ type # institution[i].type => groupsOf(i) = {}
  /\ institution' = [institution EXCEPT ![i] = [type |-> type, active |-> active]]
  /\ UNCHANGED <<date, group, child, booking, moving>>

(* A tariff and a menu keep it too, so what was booked there does.         *)
deleteInstitution(i) ==
  /\ institution[i] # None /\ institutionFree(i)
  /\ groupsOf(i) = {}
  /\ \A b \in Bookings : booking[b] # None => booking[b].institution # i
  /\ institution' = [institution EXCEPT ![i] = None]
  /\ UNCHANGED <<date, group, child, booking, moving>>

-----------------------------------------------------------------------------
(* GroupsService.create                                                    *)

BeginGroup(t, g, i) ==
  /\ group[g] = None
  /\ institution[i] # None /\ institution[i].active
  /\ StartMove(t, asking("group", g,
       [institution |-> i, kind |-> institution[i].type], {}, {}, {i}))
  /\ UNCHANGED <<date, institution, group, child, booking>>

InsertGroup(t) ==
  /\ Moving(t, "group") /\ group[moving[t].what] = None
  /\ group' = [group EXCEPT ![moving[t].what] = moving[t].at]
  /\ EndMove(t)
  /\ UNCHANGED <<date, institution, child, booking>>

(* GroupsService.update, of the institution                                *)
BeginMoveGroup(t, g, i) ==
  /\ group[g] # None /\ groupFree(t, g, TRUE)
  /\ i # group[g].institution
  /\ institution[i] # None /\ institution[i].active
  /\ institution[i].type = group[g].kind
  /\ StartMove(t, asking("moveGroup", g, i, {g}, {}, {i}))
  /\ UNCHANGED <<date, institution, group, child, booking>>

(* assertChildrenCanMove                                                   *)
canMove(some, from) ==
  \A b \in Bookings :
    booking[b] # None /\ booking[b].child \in some
      /\ booking[b].institution = from => ~binds(b)

LockChildren(t) ==
  /\ Moving(t, "moveGroup") /\ moving[t].children = {}
  /\ LET g == moving[t].what IN
     /\ childrenOf(g) # {} /\ childrenFree(t, childrenOf(g))
     /\ canMove(childrenOf(g), group[g].institution)
     /\ moving' = [moving EXCEPT ![t].children = childrenOf(g)]
  /\ UNCHANGED <<date, institution, group, child, booking>>

MoveGroup(t) ==
  /\ Moving(t, "moveGroup")
  /\ moving[t].children = {} => childrenOf(moving[t].what) = {}
  /\ group' = [group EXCEPT ![moving[t].what].institution = moving[t].at]
  /\ EndMove(t)
  /\ UNCHANGED <<date, institution, child, booking>>

(* GroupsService.delete.  Records of the group refuse it, children do not: *)
(* they stay without a group.  It waits for whoever has locked a child.    *)
deleteGroup(g) ==
  /\ group[g] # None
  /\ \A t \in Movers : moving[t] # None =>
       /\ g \notin moving[t].alone \cup moving[t].shared
       /\ moving[t].children \cap childrenOf(g) = {}
  /\ group' = [group EXCEPT ![g] = None]
  /\ child' = [c \in Children |->
       IF c \in childrenOf(g) THEN [group |-> None] ELSE child[c]]
  /\ UNCHANGED <<date, institution, booking, moving>>

-----------------------------------------------------------------------------
(* ChildrenService.create.  Nothing is locked; the group must still be     *)
(* there, and not be on its way, when the child is inserted.               *)

BeginChild(t, c, g) ==
  /\ child[c] = None /\ group[g] # None
  /\ institution[group[g].institution].active
  /\ StartMove(t, asking("child", c, g, {}, {}, {}))
  /\ UNCHANGED <<date, institution, group, child, booking>>

InsertChild(t) ==
  /\ Moving(t, "child") /\ child[moving[t].what] = None
  /\ group[moving[t].at] # None /\ groupFree(t, moving[t].at, FALSE)
  /\ child' = [child EXCEPT ![moving[t].what] = [group |-> moving[t].at]]
  /\ EndMove(t)
  /\ UNCHANGED <<date, institution, group, booking>>

(* ChildrenService.update, of the group                                    *)
BeginMoveChild(t, c, g) ==
  /\ child[c] # None /\ child[c].group # g
  /\ group[g] # None /\ groupFree(t, g, FALSE)
  /\ StartMove(t, asking("moveChild", c, institutionOf(c), {}, {g},
                         {group[g].institution}))
  /\ UNCHANGED <<date, institution, group, child, booking>>

LockChild(t) ==
  /\ Moving(t, "moveChild") /\ moving[t].children = {}
  /\ LET c == moving[t].what
         to == CHOOSE i \in moving[t].institutions : TRUE
         from == institutionOf(c)
     IN /\ child[c] # None /\ childrenFree(t, {c})
        /\ to # moving[t].at => institution[to].active
        /\ from # None /\ from # to =>
             institution[to].active /\ canMove({c}, from)
        /\ moving' = [moving EXCEPT ![t].children = {c}]
  /\ UNCHANGED <<date, institution, group, child, booking>>

MoveChild(t) ==
  /\ Moving(t, "moveChild") /\ moving[t].children # {}
  /\ child' = [child EXCEPT ![moving[t].what].group =
                              CHOOSE g \in moving[t].shared : TRUE]
  /\ EndMove(t)
  /\ UNCHANGED <<date, institution, group, booking>>

-----------------------------------------------------------------------------
(* EnrollmentsService.create on a tariff of institution i, and             *)
(* MealOrdersService.create, from the menus of the child's institution.    *)

BeginBooking(t, kind, c, i, to) ==
  /\ child[c] # None
  /\ kind = "enrollment" => i = institutionOf(c)
  /\ kind = "order" => to # None
  /\ StartMove(t, asking("book", c,
       [kind |-> kind, child |-> c, institution |-> i, to |-> to], {}, {}, {}))
  /\ UNCHANGED <<date, institution, group, child, booking>>

(* Mutant of LockBooked: the institution is not looked up again.           *)
lockBookedAsRead(t) ==
  /\ Moving(t, "book") /\ moving[t].children = {}
  /\ LET c == moving[t].what IN
     /\ child[c] # None /\ childrenFree(t, {c})
     /\ moving' = [moving EXCEPT ![t].children = {c}]
  /\ UNCHANGED <<date, institution, group, child, booking>>

(* The child is locked, and the institution looked up again.               *)
LockBooked(t) ==
  /\ Moving(t, "book") /\ moving[t].children = {}
  /\ LET c == moving[t].what IN
     /\ child[c] # None /\ childrenFree(t, {c})
     /\ institutionOf(c) # None /\ institutionOf(c) = moving[t].at.institution
     /\ moving' = [moving EXCEPT ![t].children = {c}]
  /\ UNCHANGED <<date, institution, group, child, booking>>

Book(t, b) ==
  /\ Moving(t, "book") /\ moving[t].children # {}
  /\ booking[b] = None
  /\ booking' = [booking EXCEPT ![b] = moving[t].at]
  /\ EndMove(t)
  /\ UNCHANGED <<date, institution, group, child>>

(* EnrollmentsService.end: any day from its start on, later ones too, and  *)
(* nothing is looked up or locked.                                         *)
end(b, to) ==
  /\ booking[b] # None /\ booking[b].kind = "enrollment"
  /\ booking' = [booking EXCEPT ![b].to = to]
  /\ UNCHANGED <<date, institution, group, child, moving>>

(* MealOrdersService.cancel                                                *)
cancelOrder(b) ==
  /\ booking[b] # None /\ booking[b].kind = "order"
  /\ childrenFree(None, {booking[b].child})
  /\ booking' = [booking EXCEPT ![b] = None]
  /\ UNCHANGED <<date, institution, group, child, moving>>

(* A request is refused or its connection lost before it commits.          *)
AbandonMove(t) ==
  /\ moving[t] # None
  /\ EndMove(t)
  /\ UNCHANGED <<date, institution, group, child, booking>>

NextDate ==
  /\ date < LastDate
  /\ date' = date + 1
  /\ UNCHANGED <<institution, group, child, booking, moving>>

-----------------------------------------------------------------------------
PlacesInit ==
  /\ date = 1
  /\ institution = [i \in Institutions |-> None]
  /\ group = [g \in Groups |-> None]
  /\ child = [c \in Children |-> None]
  /\ booking = [b \in Bookings |-> None]
  /\ moving = [t \in Movers |-> None]

Administration ==
  \/ \E i \in Institutions :
       \/ \E y \in Types : createInstitution(i, y)
       \/ \E y \in Types : \E active \in BOOLEAN : updateInstitution(i, y, active)
       \/ deleteInstitution(i)
  \/ \E g \in Groups : deleteGroup(g)
  \/ \E b \in Bookings : cancelOrder(b) \/ \E to \in Dates : end(b, to)

Step(t) ==
  \/ \E g \in Groups : \E i \in Institutions :
       BeginGroup(t, g, i) \/ BeginMoveGroup(t, g, i)
  \/ \E c \in Children : \E g \in Groups :
       BeginChild(t, c, g) \/ BeginMoveChild(t, c, g)
  \/ \E c \in Children : \E i \in Institutions : \E to \in Dates \cup {None} :
       \E kind \in {"enrollment", "order"} : BeginBooking(t, kind, c, i, to)
  \/ InsertGroup(t) \/ LockChildren(t) \/ MoveGroup(t)
  \/ InsertChild(t) \/ LockChild(t) \/ MoveChild(t)
  \/ LockBooked(t) \/ \E b \in Bookings : Book(t, b)
  \/ AbandonMove(t)

PlacesNext == Administration \/ (\E t \in Movers : Step(t)) \/ NextDate

PlacesSpec == PlacesInit /\ [][PlacesNext]_placeVars

-----------------------------------------------------------------------------
(* The variables have their types.                                         *)
PlacesTypeOK ==
  /\ date \in Dates
  /\ institution \in [Institutions -> InstitutionRows \cup {None}]
  /\ group \in [Groups -> GroupRows \cup {None}]
  /\ child \in [Children -> ChildRows \cup {None}]
  /\ booking \in [Bookings -> BookingRows \cup {None}]
  /\ moving \in [Movers -> MoveRows \cup {None}]

(* Every group is of the kind of its institution, which exists: the type   *)
(* changes only while there is no group, and none is on its way in.        *)
KindsMatch ==
  \A g \in Groups : group[g] # None =>
    LET i == group[g].institution IN
    institution[i] # None /\ institution[i].type = group[g].kind

(* What binds a child to an institution is of the institution it is in:    *)
(* neither the child nor its group moves away from an enrollment or a meal *)
(* that is still to come, nor is one booked while they move.               *)
BoundWhereTheyAre ==
  \A b \in Bookings : booking[b] # None /\ binds(b) =>
    institutionOf(booking[b].child) = booking[b].institution

(* Groups and children are where they fit: in an institution of their kind *)
(* that exists, and in the one they are enrolled at and fed by.            *)
BookedWhereTheyAre == KindsMatch /\ BoundWhereTheyAre

=============================================================================
