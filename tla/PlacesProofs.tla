---------------------------- MODULE PlacesProofs ----------------------------
(***************************************************************************)
(* What holds of institutions, groups and children, of tariffs and visits, *)
(* and of routines, for any number of them and of requests in flight.      *)
(*                                                                         *)
(* Places.  That children are where they are booked needs what each        *)
(* request relies on from the lock to the write: the children of a group   *)
(* that moves are all locked and none of them is bound, and nobody books a *)
(* locked child or puts another into the group.  It holds as long as what  *)
(* is over stays over and no group is deleted around a bound child; the    *)
(* code looks after neither.                                               *)
(*                                                                         *)
(* Tariffs.  A request that voids a visit has found its charge, or it has  *)
(* none; the visit and the charge are voided in one step.                  *)
(*                                                                         *)
(* Routine.  A version ends on the day before the next one starts, so the  *)
(* day of a version is that of the last start on or before it.             *)
(***************************************************************************)
EXTENDS Places, Tariffs, Routine, NaturalsInduction, WellFoundedInduction, TLAPS

-----------------------------------------------------------------------------
(* Institutions, groups and children                                       *)

(* What a request that has read and locked may rely on until it writes.    *)
KnowsNewGroup(r) ==
  /\ r.what \in Groups /\ r.at \in GroupRows
  /\ r.at.institution \in r.institutions
  /\ institution[r.at.institution] # None
  /\ institution[r.at.institution].type = r.at.kind
  /\ r.children = {}

KnowsMovedGroup(r) ==
  /\ r.what \in Groups /\ r.alone = {r.what}
  /\ r.at \in Institutions /\ r.at \in r.institutions
  /\ institution[r.at] # None
  /\ institution[r.at].type = group[r.what].kind
  /\ r.children # {} => r.children = childrenOf(r.what)

KnowsNewChild(r) ==
  r.what \in Children /\ r.at \in Groups /\ r.children = {}

KnowsMovedChild(r) ==
  /\ r.what \in Children /\ r.children \subseteq {r.what}
  /\ child[r.what] # None
  /\ \E g \in Groups : r.shared = {g} /\ r.institutions = {group[g].institution}

KnowsBooked(r) ==
  /\ r.what \in Children /\ r.children \subseteq {r.what}
  /\ child[r.what] # None
  /\ r.at \in BookingRows /\ r.at.child = r.what
  /\ r.children # {} => institutionOf(r.what) = r.at.institution

Knows(r) ==
  /\ r.op = "group" => KnowsNewGroup(r)
  /\ r.op = "moveGroup" => KnowsMovedGroup(r)
  /\ r.op = "child" => KnowsNewChild(r)
  /\ r.op = "moveChild" => KnowsMovedChild(r)
  /\ r.op = "book" => KnowsBooked(r)
  /\ r.op # "moveGroup" => r.alone = {}
  /\ \A i \in r.institutions : institution[i] # None
  /\ \A g \in r.alone \cup r.shared : group[g] # None

MoversKnow == \A t \in Movers : moving[t] # None => Knows(moving[t])

Apart(r, q) ==
  /\ r.alone \cap (q.alone \cup q.shared) = {}
  /\ q.alone \cap r.shared = {}
  /\ r.children \cap q.children = {}

LocksApart ==
  \A t \in Movers : \A u \in Movers \ {t} :
    moving[t] # None /\ moving[u] # None => Apart(moving[t], moving[u])

(* Groups of children and children of bookings exist.                      *)
RowsExist ==
  /\ \A c \in Children :
       child[c] # None /\ child[c].group # None => group[child[c].group] # None
  /\ \A b \in Bookings : booking[b] # None => child[booking[b].child] # None

PlacesInv ==
  PlacesTypeOK /\ KindsMatch /\ RowsExist /\ LocksApart /\ MoversKnow

LEMMA MoveTypes ==
  ASSUME NEW r \in MoveRows
  PROVE  /\ r # None
         /\ r.alone \in SUBSET Groups /\ r.shared \in SUBSET Groups
         /\ r.institutions \in SUBSET Institutions
         /\ r.children \in SUBSET Children
BY PlacesAssumption DEF MoveRows

LEMMA InitPlaces == PlacesInit => PlacesInv
BY PlacesAssumption
   DEF PlacesInit, PlacesInv, PlacesTypeOK, KindsMatch, RowsExist, LocksApart,
       MoversKnow, Dates

-----------------------------------------------------------------------------
(* What others do leaves what a request knows as it is.                    *)
LEMMA KnowsKept ==
  ASSUME NEW r \in MoveRows, Knows(r),
         \A i \in r.institutions : institution'[i] = institution[i],
         \A g \in r.alone \cup r.shared : group'[g] = group[g],
         r.children # {} => \A g \in r.alone : childrenOf(g)' = childrenOf(g),
         \A c \in Children : child[c] # None => child'[c] # None,
         \A c \in r.children : institutionOf(c)' = institutionOf(c)
  PROVE  Knows(r)'
<1>0. r.institutions \in SUBSET Institutions /\ r.alone \in SUBSET Groups
      /\ r.shared \in SUBSET Groups /\ r.children \in SUBSET Children
  BY MoveTypes
<1>1. /\ \A g \in r.alone \cup r.shared : group'[g] # None
      /\ \A i \in r.institutions : institution'[i] # None
  BY DEF Knows
<1>2. ASSUME r.op = "group" PROVE KnowsNewGroup(r)'
  <2>1. KnowsNewGroup(r)
    BY <1>2 DEF Knows
  <2>2. institution'[r.at.institution] = institution[r.at.institution]
    BY <2>1 DEF KnowsNewGroup
  <2> QED  BY <2>1, <2>2 DEF KnowsNewGroup
<1>3. ASSUME r.op = "moveGroup" PROVE KnowsMovedGroup(r)'
  <2>1. KnowsMovedGroup(r)
    BY <1>3 DEF Knows
  <2>2. /\ institution'[r.at] = institution[r.at]
        /\ group'[r.what] = group[r.what]
    BY <2>1 DEF KnowsMovedGroup
  <2>3. r.children # {} => childrenOf(r.what)' = childrenOf(r.what)
    BY <2>1 DEF KnowsMovedGroup
  <2>4. /\ r.what \in Groups /\ r.alone = {r.what}
        /\ r.at \in Institutions /\ r.at \in r.institutions
        /\ institution'[r.at] # None
        /\ institution'[r.at].type = group'[r.what].kind
    BY <2>1, <2>2 DEF KnowsMovedGroup
  <2>5. r.children # {} => r.children = childrenOf(r.what)'
    BY <2>1, <2>3 DEF KnowsMovedGroup
  <2> QED  BY <2>4, <2>5 DEF KnowsMovedGroup
<1>4. ASSUME r.op = "child" PROVE KnowsNewChild(r)'
  BY <1>4 DEF Knows, KnowsNewChild
<1>5. ASSUME r.op = "moveChild" PROVE KnowsMovedChild(r)'
  BY <1>5 DEF Knows, KnowsMovedChild
<1>6. ASSUME r.op = "book" PROVE KnowsBooked(r)'
  <2>1. KnowsBooked(r)
    BY <1>6 DEF Knows
  <2>2. r.children # {} => r.what \in r.children
    BY <2>1 DEF KnowsBooked
  <2>3. r.children # {} => institutionOf(r.what)' = institutionOf(r.what)
    BY <2>2
  <2>4. r.children # {} => institutionOf(r.what)' = r.at.institution
    BY <2>1, <2>3 DEF KnowsBooked
  <2> QED  BY <2>1, <2>4 DEF KnowsBooked
<1> QED  BY <1>1, <1>2, <1>3, <1>4, <1>5, <1>6 DEF Knows

(* A request begins, or locks more.                                        *)
LEMMA MoverAsks ==
  ASSUME PlacesInv, NEW t \in Movers, NEW r \in MoveRows, Knows(r),
         \A u \in Movers \ {t} : moving[u] # None => Apart(r, moving[u]),
         moving' = [moving EXCEPT ![t] = r],
         UNCHANGED <<date, institution, group, child, booking>>
  PROVE  PlacesInv'
<1>1. \A u \in Movers : moving'[u] = IF u = t THEN r ELSE moving[u]
  BY DEF PlacesInv, PlacesTypeOK
<1>2. PlacesTypeOK' /\ KindsMatch' /\ RowsExist'
  BY DEF PlacesInv, PlacesTypeOK, KindsMatch, RowsExist
<1>3. LocksApart'
  <2>1. ASSUME NEW u \in Movers, NEW v \in Movers \ {u},
               moving'[u] # None, moving'[v] # None
        PROVE  Apart(moving'[u], moving'[v])
    BY <1>1, <2>1 DEF PlacesInv, LocksApart, Apart
  <2> QED  BY <2>1 DEF LocksApart, Apart
<1>4. ASSUME NEW q, Knows(q) PROVE Knows(q)'
  BY <1>4 DEF Knows, KnowsNewGroup, KnowsMovedGroup, KnowsNewChild, KnowsMovedChild,
              KnowsBooked, childrenOf, institutionOf
<1>5. MoversKnow'
  <2>1. ASSUME NEW u \in Movers, moving'[u] # None PROVE Knows(moving[u])' 
    <3>1. PICK q : q = moving'[u]
      OBVIOUS
    <3>2. Knows(q)
      BY <1>1, <2>1, <3>1 DEF PlacesInv, MoversKnow
    <3>3. Knows(q)'
      BY <3>2, <1>4
    <3> QED  BY <3>1, <3>3
  <2> QED  BY <2>1 DEF MoversKnow
<1> QED  BY <1>2, <1>3, <1>5 DEF PlacesInv

(* A request writes and ends, or something else is written.                *)
LEMMA MoverEnds ==
  ASSUME PlacesInv, PlacesTypeOK', KindsMatch', RowsExist',
         \A t \in Movers : moving'[t] = moving[t] \/ moving'[t] = None,
         \A t \in Movers, r \in MoveRows :
           r = moving[t] /\ moving'[t] # None /\ Knows(r) => Knows(r)'
  PROVE  PlacesInv'
<1>1. LocksApart'
  BY DEF PlacesInv, LocksApart, Apart
<1>2. MoversKnow'
  <2>1. ASSUME NEW u \in Movers, moving'[u] # None PROVE Knows(moving[u])'
    <3>1. PICK q \in MoveRows : q = moving[u] /\ q = moving'[u]
      BY <2>1 DEF PlacesInv, PlacesTypeOK
    <3>2. Knows(q)'
      BY <2>1, <3>1 DEF PlacesInv, MoversKnow
    <3> QED  BY <3>1, <3>2
  <2> QED  BY <2>1 DEF MoversKnow
<1> QED  BY <1>1, <1>2 DEF PlacesInv

-----------------------------------------------------------------------------
(* Requests begin.                                                         *)

LEMMA Asking ==
  ASSUME NEW op \in {"group", "moveGroup", "child", "moveChild", "book"},
         NEW what \in Groups \cup Children,
         NEW at \in GroupRows \cup Groups \cup Institutions \cup BookingRows \cup {None},
         NEW alone \in SUBSET Groups, NEW shared \in SUBSET Groups,
         NEW some \in SUBSET Institutions
  PROVE  asking(op, what, at, alone, shared, some) \in MoveRows
BY DEF asking, MoveRows

LEMMA AskingFields ==
  ASSUME NEW op, NEW what, NEW at, NEW alone, NEW shared, NEW some,
         NEW r, r = asking(op, what, at, alone, shared, some)
  PROVE  /\ r.op = op /\ r.what = what /\ r.alone = alone /\ r.shared = shared
         /\ r.institutions = some /\ r.children = {} /\ r.at = at
BY DEF asking

LEMMA OthersTypes ==
  ASSUME PlacesInv, NEW u \in Movers, moving[u] # None
  PROVE  /\ moving[u] \in MoveRows /\ Knows(moving[u])
         /\ moving[u].alone \in SUBSET Groups /\ moving[u].shared \in SUBSET Groups
         /\ moving[u].institutions \in SUBSET Institutions
         /\ moving[u].children \in SUBSET Children
<1>1. moving[u] \in MoveRows
  BY DEF PlacesInv, PlacesTypeOK
<1> QED  BY <1>1, MoveTypes DEF PlacesInv, MoversKnow

LEMMA BeginGroupPlaces ==
  ASSUME PlacesInv, NEW t \in Movers, NEW g \in Groups, NEW i \in Institutions,
         BeginGroup(t, g, i)
  PROVE  PlacesInv'
<1>1. institution[i] \in InstitutionRows
  BY DEF BeginGroup, PlacesInv, PlacesTypeOK
<1>2. PICK at : at = [institution |-> i, kind |-> institution[i].type]
  OBVIOUS
<1>3. at \in GroupRows /\ at.institution = i /\ at.kind = institution[i].type
  BY <1>1, <1>2 DEF GroupRows, InstitutionRows
<1>3a. {} \in SUBSET Groups /\ {i} \in SUBSET Institutions
  OBVIOUS
<1>4. PICK r : r = asking("group", g, at, {}, {}, {i})
  OBVIOUS
<1>5. /\ r \in MoveRows
      /\ r.op = "group" /\ r.what = g /\ r.alone = {} /\ r.shared = {}
      /\ r.institutions = {i} /\ r.children = {} /\ r.at = at
  <2>1. r \in MoveRows
    BY <1>3, <1>3a, <1>4, Asking
  <2> QED  BY <1>4, <2>1, AskingFields
<1>6. Knows(r)
  BY <1>3, <1>5 DEF Knows, KnowsNewGroup, BeginGroup
<1>7. \A u \in Movers \ {t} : moving[u] # None => Apart(r, moving[u])
  BY <1>5 DEF Apart
<1>8. moving' = [moving EXCEPT ![t] = r]
  BY <1>2, <1>4 DEF BeginGroup, StartMove
<1> QED  BY <1>5, <1>6, <1>7, <1>8, MoverAsks DEF BeginGroup

LEMMA BeginMoveGroupPlaces ==
  ASSUME PlacesInv, NEW t \in Movers, NEW g \in Groups, NEW i \in Institutions,
         BeginMoveGroup(t, g, i)
  PROVE  PlacesInv'
<1>3a. {} \in SUBSET Groups /\ {g} \in SUBSET Groups
      /\ {i} \in SUBSET Institutions
  OBVIOUS
<1>4. PICK r : r = asking("moveGroup", g, i, {g}, {}, {i})
  OBVIOUS
<1>5. /\ r \in MoveRows
      /\ r.op = "moveGroup" /\ r.what = g /\ r.alone = {g} /\ r.shared = {}
      /\ r.institutions = {i} /\ r.children = {} /\ r.at = i
  <2>1. r \in MoveRows
    BY <1>3a, <1>4, Asking
  <2>2. r.op = "moveGroup" /\ r.what = g /\ r.at = i
    BY <1>4, AskingFields
  <2>3. r.alone = {g}
    BY <1>4, AskingFields
  <2>4. r.shared = {}
    BY <1>4, AskingFields
  <2>5. r.institutions = {i} /\ r.children = {}
    BY <1>4, AskingFields
  <2> QED  BY <2>1, <2>2, <2>3, <2>4, <2>5, Zenon
<1>6. Knows(r)
  BY <1>5 DEF Knows, KnowsMovedGroup, BeginMoveGroup
<1>7. \A u \in Movers \ {t} : moving[u] # None => Apart(r, moving[u])
  BY <1>5 DEF Apart, BeginMoveGroup, groupFree
<1>8. moving' = [moving EXCEPT ![t] = r]
  BY <1>4 DEF BeginMoveGroup, StartMove
<1> QED  BY <1>5, <1>6, <1>7, <1>8, MoverAsks DEF BeginMoveGroup

LEMMA BeginChildPlaces ==
  ASSUME PlacesInv, NEW t \in Movers, NEW c \in Children, NEW g \in Groups,
         BeginChild(t, c, g)
  PROVE  PlacesInv'
<1>3a. {} \in SUBSET Groups /\ {} \in SUBSET Institutions
  OBVIOUS
<1>4. PICK r : r = asking("child", c, g, {}, {}, {})
  OBVIOUS
<1>5. /\ r \in MoveRows
      /\ r.op = "child" /\ r.what = c /\ r.alone = {} /\ r.shared = {}
      /\ r.institutions = {} /\ r.children = {} /\ r.at = g
  <2>1. r \in MoveRows
    BY <1>3a, <1>4, Asking
  <2> QED  BY <1>4, <2>1, AskingFields
<1>6. Knows(r)
  BY <1>5 DEF Knows, KnowsNewChild
<1>7. \A u \in Movers \ {t} : moving[u] # None => Apart(r, moving[u])
  BY <1>5 DEF Apart
<1>8. moving' = [moving EXCEPT ![t] = r]
  BY <1>4 DEF BeginChild, StartMove
<1> QED  BY <1>5, <1>6, <1>7, <1>8, MoverAsks DEF BeginChild

(* The institution a child is in, and its children, have their types.      *)
LEMMA ChildIn ==
  ASSUME PlacesInv, NEW c \in Children, child[c] # None
  PROVE  /\ child[c] \in ChildRows
         /\ child[c].group = None => institutionOf(c) = None
         /\ child[c].group # None =>
              /\ child[c].group \in Groups /\ group[child[c].group] # None
              /\ institutionOf(c) = group[child[c].group].institution
              /\ institutionOf(c) \in Institutions /\ institutionOf(c) # None
              /\ c \in childrenOf(child[c].group)
<1>1. child[c] \in ChildRows
  BY DEF PlacesInv, PlacesTypeOK
<1>2. child[c].group # None =>
        child[c].group \in Groups /\ group[child[c].group] # None
  BY <1>1 DEF ChildRows, PlacesInv, RowsExist
<1>3. child[c].group # None => group[child[c].group] \in GroupRows
  BY <1>2 DEF PlacesInv, PlacesTypeOK
<1> QED
  BY <1>1, <1>2, <1>3, PlacesAssumption DEF institutionOf, GroupRows, childrenOf

LEMMA BeginMoveChildPlaces ==
  ASSUME PlacesInv, NEW t \in Movers, NEW c \in Children, NEW g \in Groups,
         BeginMoveChild(t, c, g)
  PROVE  PlacesInv'
<1>1. group[g] \in GroupRows /\ group[g].institution \in Institutions
  BY DEF BeginMoveChild, PlacesInv, PlacesTypeOK, GroupRows
<1>2. institutionOf(c) \in Institutions \cup {None}
  BY ChildIn, PlacesAssumption DEF BeginMoveChild
<1>3. PICK i \in Institutions : i = group[g].institution
  BY <1>1
<1>3a. {} \in SUBSET Groups /\ {g} \in SUBSET Groups
      /\ {i} \in SUBSET Institutions
  OBVIOUS
<1>4. PICK r : r = asking("moveChild", c, institutionOf(c), {}, {g}, {i})
  OBVIOUS
<1>5. /\ r \in MoveRows
      /\ r.op = "moveChild" /\ r.what = c /\ r.alone = {} /\ r.shared = {g}
      /\ r.institutions = {i} /\ r.children = {}
  <2>1. r \in MoveRows
    BY <1>1, <1>2, <1>3a, <1>4, Asking
  <2>2. r.op = "moveChild" /\ r.what = c
    BY <1>4, AskingFields
  <2>3. r.shared = {g}
    BY <1>4, AskingFields
  <2>4. r.alone = {}
    BY <1>4, AskingFields
  <2>5. r.institutions = {i} /\ r.children = {}
    BY <1>4, AskingFields
  <2> QED  BY <2>1, <2>2, <2>3, <2>4, <2>5, Zenon
<1>5a. institution[i] # None
  BY <1>3 DEF BeginMoveChild, PlacesInv, KindsMatch
<1>6. Knows(r)
  BY <1>3, <1>5, <1>5a DEF Knows, KnowsMovedChild, BeginMoveChild
<1>7. \A u \in Movers \ {t} : moving[u] # None => Apart(r, moving[u])
  BY <1>5 DEF Apart, BeginMoveChild, groupFree
<1>8. moving' = [moving EXCEPT ![t] = r]
  BY <1>3, <1>4 DEF BeginMoveChild, StartMove
<1> QED  BY <1>5, <1>6, <1>7, <1>8, MoverAsks DEF BeginMoveChild

LEMMA BeginBookingPlaces ==
  ASSUME PlacesInv, NEW t \in Movers, NEW kind \in {"enrollment", "order"},
         NEW c \in Children, NEW i \in Institutions, NEW to \in Dates \cup {None},
         BeginBooking(t, kind, c, i, to)
  PROVE  PlacesInv'
<1>1. PICK at : at = [kind |-> kind, child |-> c, institution |-> i, to |-> to]
  OBVIOUS
<1>2. at \in BookingRows /\ at.child = c
  BY <1>1 DEF BookingRows
<1>3a. {} \in SUBSET Groups /\ {} \in SUBSET Institutions
  OBVIOUS
<1>4. PICK r : r = asking("book", c, at, {}, {}, {})
  OBVIOUS
<1>5. /\ r \in MoveRows
      /\ r.op = "book" /\ r.what = c /\ r.alone = {} /\ r.shared = {}
      /\ r.institutions = {} /\ r.children = {} /\ r.at = at
  <2>1. r \in MoveRows
    BY <1>2, <1>4, Asking
  <2> QED  BY <1>4, <2>1, AskingFields
<1>6. Knows(r)
  BY <1>2, <1>5 DEF Knows, KnowsBooked, BeginBooking
<1>7. \A u \in Movers \ {t} : moving[u] # None => Apart(r, moving[u])
  BY <1>5 DEF Apart
<1>8. moving' = [moving EXCEPT ![t] = r]
  BY <1>1, <1>4 DEF BeginBooking, StartMove
<1> QED  BY <1>5, <1>6, <1>7, <1>8, MoverAsks DEF BeginBooking

-----------------------------------------------------------------------------
(* Requests lock children.                                                 *)

LEMMA Locking ==
  ASSUME PlacesInv, NEW t \in Movers, moving[t] # None,
         NEW some \in SUBSET Children, childrenFree(t, some),
         moving[t].op \in {"moveGroup", "moveChild", "book"},
         moving[t].op = "moveGroup" => some = childrenOf(moving[t].what),
         moving[t].op \in {"moveChild", "book"} => some \subseteq {moving[t].what},
         moving[t].op = "book" => institutionOf(moving[t].what) = moving[t].at.institution,
         moving' = [moving EXCEPT ![t].children = some],
         UNCHANGED <<date, institution, group, child, booking>>
  PROVE  PlacesInv'
<1>1. PICK q : q = moving[t]
  OBVIOUS
<1>2. q \in MoveRows /\ Knows(q)
  BY <1>1, OthersTypes
<1>3. PICK r : r = [q EXCEPT !.children = some]
  OBVIOUS
<1>4. /\ r \in MoveRows
      /\ r.op = q.op /\ r.what = q.what /\ r.alone = q.alone /\ r.shared = q.shared
      /\ r.institutions = q.institutions /\ r.children = some /\ r.at = q.at
  BY <1>2, <1>3 DEF MoveRows
<1>5. Knows(r)
  <2>1. q.op = "moveGroup" => KnowsMovedGroup(r)
    BY <1>1, <1>2, <1>4 DEF Knows, KnowsMovedGroup
  <2>2. q.op = "moveChild" => KnowsMovedChild(r)
    BY <1>1, <1>2, <1>4 DEF Knows, KnowsMovedChild
  <2>3. q.op = "book" => KnowsBooked(r)
    BY <1>1, <1>2, <1>4 DEF Knows, KnowsBooked
  <2> QED  BY <1>1, <1>2, <1>4, <2>1, <2>2, <2>3 DEF Knows
<1>6. \A u \in Movers \ {t} : moving[u] # None => Apart(r, moving[u])
  <2> SUFFICES ASSUME NEW u \in Movers \ {t}, moving[u] # None
               PROVE  Apart(r, moving[u])
    OBVIOUS
  <2>1. Apart(q, moving[u])
    BY <1>1 DEF PlacesInv, LocksApart
  <2>2. moving[u].children \cap some = {}
    BY DEF childrenFree
  <2> QED  BY <2>1, <2>2, <1>4 DEF Apart
<1>7. moving' = [moving EXCEPT ![t] = r]
  BY <1>1, <1>3
<1> QED  BY <1>4, <1>5, <1>6, <1>7, MoverAsks

LEMMA LockChildrenPlaces ==
  ASSUME PlacesInv, NEW t \in Movers, LockChildren(t)
  PROVE  PlacesInv'
<1>1. childrenOf(moving[t].what) \in SUBSET Children
  BY DEF childrenOf
<1> QED  BY <1>1, Locking DEF LockChildren, Moving

LEMMA LockChildPlaces ==
  ASSUME PlacesInv, NEW t \in Movers, LockChild(t)
  PROVE  PlacesInv'
<1>1. moving[t].what \in Children
  BY OthersTypes DEF LockChild, Moving, Knows, KnowsMovedChild
<1> QED  BY <1>1, Locking DEF LockChild, Moving

LEMMA LockBookedPlaces ==
  ASSUME PlacesInv, NEW t \in Movers, LockBooked(t)
  PROVE  PlacesInv'
<1>1. moving[t].what \in Children
  BY OthersTypes DEF LockBooked, Moving, Knows, KnowsBooked
<1> QED  BY <1>1, Locking DEF LockBooked, Moving

-----------------------------------------------------------------------------
(* Requests write.                                                         *)

LEMMA LockedExist ==
  ASSUME NEW r \in MoveRows, Knows(r), NEW c \in r.children
  PROVE  c \in Children /\ child[c] # None
<1>1. r.op \in {"group", "moveGroup", "child", "moveChild", "book"}
      /\ r.children \in SUBSET Children
  BY MoveTypes DEF MoveRows
<1> QED
  BY <1>1 DEF Knows, KnowsNewGroup, KnowsMovedGroup, KnowsNewChild, KnowsMovedChild,
              KnowsBooked, childrenOf

LEMMA Ended ==
  ASSUME PlacesInv, NEW t \in Movers, EndMove(t)
  PROVE  /\ moving' \in [Movers -> MoveRows \cup {None}]
         /\ \A u \in Movers : moving'[u] = IF u = t THEN None ELSE moving[u]
BY DEF PlacesInv, PlacesTypeOK, EndMove

(* The requests other than t that have locks.                              *)
LEMMA OtherMover ==
  ASSUME PlacesInv, NEW t \in Movers, moving[t] # None, EndMove(t), NEW u \in Movers,
         NEW r \in MoveRows, r = moving[u], moving'[u] # None
  PROVE  Apart(moving[t], r) /\ u # t
BY Ended, MoveTypes DEF PlacesInv, LocksApart

LEMMA InsertGroupPlaces ==
  ASSUME PlacesInv, NEW t \in Movers, InsertGroup(t)
  PROVE  PlacesInv'
<1>1. PICK g \in Groups, at \in GroupRows :
        /\ g = moving[t].what /\ at = moving[t].at /\ group[g] = None
        /\ institution[at.institution] # None
        /\ institution[at.institution].type = at.kind
  BY OthersTypes DEF InsertGroup, Moving, Knows, KnowsNewGroup
<1>2. group' = [group EXCEPT ![g] = at] /\ EndMove(t)
      /\ UNCHANGED <<date, institution, child, booking>>
  BY <1>1 DEF InsertGroup
<1>3. /\ at # None
      /\ \A h \in Groups : group'[h] = IF h = g THEN at ELSE group[h]
  BY <1>2, PlacesAssumption DEF PlacesInv, PlacesTypeOK
<1>4. PlacesTypeOK'
  BY <1>2, Ended DEF PlacesInv, PlacesTypeOK
<1>5. KindsMatch'
  BY <1>1, <1>2, <1>3 DEF PlacesInv, KindsMatch
<1>6. RowsExist'
  BY <1>2, <1>3 DEF PlacesInv, PlacesTypeOK, ChildRows, RowsExist
<1>7. ASSUME NEW u \in Movers, NEW r \in MoveRows, r = moving[u], moving'[u] # None, Knows(r)
      PROVE  Knows(r)'
  <2>1. \A h \in r.alone \cup r.shared : group'[h] = group[h]
    BY <1>1, <1>3, <1>7, MoveTypes DEF Knows
  <2>2. \A h \in Groups : childrenOf(h)' = childrenOf(h)
    BY <1>2 DEF childrenOf
  <2>3. ASSUME NEW c \in r.children PROVE institutionOf(c)' = institutionOf(c)
    <3>1. c \in Children /\ child[c] # None
      BY <1>7, LockedExist
    <3>2. child[c].group = None \/ (child[c].group \in Groups /\ child[c].group # g)
      BY <3>1, <1>1, ChildIn
    <3> QED  BY <3>2, <1>2, <1>3 DEF institutionOf
  <2> QED  BY <1>2, <1>7, <2>1, <2>2, <2>3, KnowsKept, MoveTypes
<1>8. \A u \in Movers : moving'[u] = moving[u] \/ moving'[u] = None
  BY <1>2, Ended
<1> QED  BY <1>4, <1>5, <1>6, <1>7, <1>8, MoverEnds

(* The children that move with their group are the locked ones.            *)
LEMMA MovedGroup ==
  ASSUME PlacesInv, NEW t \in Movers, MoveGroup(t)
  PROVE  \E g \in Groups, i \in Institutions :
           /\ g = moving[t].what /\ i = moving[t].at /\ moving[t].alone = {g}
           /\ group[g] \in GroupRows
           /\ institution[i] # None /\ institution[i].type = group[g].kind
           /\ childrenOf(g) = moving[t].children
           /\ group' = [group EXCEPT ![g] = [group[g] EXCEPT !.institution = i]]
<1>1. moving[t] # None /\ moving[t].op = "moveGroup"
  BY DEF MoveGroup, Moving
<1>2. Knows(moving[t]) /\ KnowsMovedGroup(moving[t])
  BY <1>1, OthersTypes DEF Knows
<1>3. PICK g \in Groups, i \in Institutions :
        /\ g = moving[t].what /\ i = moving[t].at /\ moving[t].alone = {g}
        /\ institution[i] # None /\ institution[i].type = group[g].kind
        /\ moving[t].children # {} => moving[t].children = childrenOf(g)
  BY <1>2 DEF KnowsMovedGroup
<1>4. group[g] # None
  BY <1>2, <1>3 DEF Knows
<1>5. group[g] \in GroupRows
  BY <1>4 DEF PlacesInv, PlacesTypeOK
<1>6. group' = [group EXCEPT ![g] = [group[g] EXCEPT !.institution = i]]
  BY <1>3 DEF MoveGroup
<1>7. childrenOf(g) = moving[t].children
  BY <1>3 DEF MoveGroup
<1> QED  BY <1>3, <1>5, <1>6, <1>7

LEMMA MoveGroupPlaces ==
  ASSUME PlacesInv, NEW t \in Movers, MoveGroup(t)
  PROVE  PlacesInv'
<1>1. PICK g \in Groups, i \in Institutions :
           /\ g = moving[t].what /\ i = moving[t].at /\ moving[t].alone = {g}
           /\ group[g] \in GroupRows
           /\ institution[i] # None /\ institution[i].type = group[g].kind
           /\ childrenOf(g) = moving[t].children
           /\ group' = [group EXCEPT ![g] = [group[g] EXCEPT !.institution = i]]
  BY MovedGroup
<1>2. EndMove(t) /\ UNCHANGED <<date, institution, child, booking>> /\ moving[t] # None
  BY DEF MoveGroup, Moving
<1>3. PICK row : row = [group[g] EXCEPT !.institution = i]
  OBVIOUS
<1>4. row \in GroupRows /\ row # None /\ row.institution = i /\ row.kind = group[g].kind
  BY <1>1, <1>3, PlacesAssumption DEF GroupRows
<1>5. \A h \in Groups : group'[h] = IF h = g THEN row ELSE group[h]
  BY <1>1, <1>3 DEF PlacesInv, PlacesTypeOK
<1>6. PlacesTypeOK'
  <2>1. group' = [group EXCEPT ![g] = row]
    BY <1>1, <1>3
  <2> QED  BY <1>2, <1>4, <2>1, Ended DEF PlacesInv, PlacesTypeOK
<1>7. KindsMatch'
  BY <1>1, <1>2, <1>4, <1>5 DEF PlacesInv, KindsMatch
<1>8. RowsExist'
  BY <1>2, <1>4, <1>5 DEF PlacesInv, PlacesTypeOK, ChildRows, RowsExist
<1>9. ASSUME NEW u \in Movers, NEW r \in MoveRows, r = moving[u], moving'[u] # None, Knows(r)
      PROVE  Knows(r)'
  <2>1. Apart(moving[t], r)
    BY <1>2, <1>9, OtherMover
  <2>2. g \notin r.alone \cup r.shared /\ childrenOf(g) \cap r.children = {}
    BY <1>1, <2>1 DEF Apart
  <2>3. \A h \in r.alone \cup r.shared : group'[h] = group[h]
    BY <1>5, <2>2, MoveTypes
  <2>4. \A h \in Groups : childrenOf(h)' = childrenOf(h)
    BY <1>2 DEF childrenOf
  <2>5. ASSUME NEW c \in r.children PROVE institutionOf(c)' = institutionOf(c)
    <3>1. c \in Children /\ child[c] # None /\ c \notin childrenOf(g)
      BY <1>9, <2>2, LockedExist
    <3>2. child[c].group = None \/ (child[c].group \in Groups /\ child[c].group # g)
      BY <3>1, ChildIn
    <3> QED  BY <3>2, <1>2, <1>5 DEF institutionOf
  <2> QED  BY <1>2, <1>9, <2>3, <2>4, <2>5, KnowsKept, MoveTypes
<1>10. \A u \in Movers : moving'[u] = moving[u] \/ moving'[u] = None
  BY <1>2, Ended
<1> QED  BY <1>6, <1>7, <1>8, <1>9, <1>10, MoverEnds

(* A child comes into a group that nobody moves, from none or another.     *)
LEMMA ChildComes ==
  ASSUME PlacesInv, NEW t \in Movers, moving[t] # None, EndMove(t),
         NEW c \in Children, NEW g \in Groups, group[g] # None,
         child' = [child EXCEPT ![c] = [group |-> g]],
         \A u \in Movers \ {t} : moving[u] # None => g \notin moving[u].alone,
         child[c] # None => moving[t].children = {c},
         UNCHANGED <<date, institution, group, booking>>
  PROVE  PlacesInv'
<1>1. PICK row : row = [group |-> g]
  OBVIOUS
<1>2. row \in ChildRows /\ row # None /\ row.group = g
  BY <1>1, PlacesAssumption DEF ChildRows
<1>3. \A d \in Children : child'[d] = IF d = c THEN row ELSE child[d]
  BY <1>1 DEF PlacesInv, PlacesTypeOK
<1>4. PlacesTypeOK'
  BY <1>1, <1>2, Ended DEF PlacesInv, PlacesTypeOK
<1>5. KindsMatch'
  BY DEF PlacesInv, KindsMatch
<1>6. RowsExist'
  BY <1>2, <1>3 DEF PlacesInv, PlacesTypeOK, BookingRows, RowsExist
<1>7. ASSUME NEW u \in Movers, NEW r \in MoveRows, r = moving[u], moving'[u] # None, Knows(r)
      PROVE  Knows(r)'
  <2>1. Apart(moving[t], r) /\ u # t
    BY <1>7, OtherMover
  <2>2. c \notin r.children
    BY <1>7, <2>1, LockedExist DEF Apart
  <2>3. ASSUME r.children # {}, NEW h \in r.alone PROVE childrenOf(h)' = childrenOf(h)
    <3>1. h # g /\ h \in Groups /\ moving[u] # None
      BY <1>7, <2>1, MoveTypes
    <3>2. c \notin childrenOf(h)
      <4>1. r.op = "moveGroup"
        BY <1>7, <2>3 DEF Knows
      <4>2. r.alone = {r.what} /\ r.children = childrenOf(r.what)
        BY <4>1, <1>7, <2>3 DEF Knows, KnowsMovedGroup
      <4> QED  BY <4>2, <2>2, <2>3
    <3> QED  BY <1>2, <1>3, <3>1, <3>2 DEF childrenOf
  <2>4. ASSUME NEW d \in r.children PROVE institutionOf(d)' = institutionOf(d)
    <3>1. d \in Children /\ d # c
      BY <1>7, <2>2, LockedExist
    <3> QED  BY <3>1, <1>3 DEF institutionOf
  <2> QED  BY <1>2, <1>3, <1>7, <2>3, <2>4, KnowsKept
<1>8. \A u \in Movers : moving'[u] = moving[u] \/ moving'[u] = None
  BY Ended
<1> QED  BY <1>4, <1>5, <1>6, <1>7, <1>8, MoverEnds

LEMMA InsertChildPlaces ==
  ASSUME PlacesInv, NEW t \in Movers, InsertChild(t)
  PROVE  PlacesInv'
<1>1. moving[t] # None /\ moving[t].op = "child" /\ KnowsNewChild(moving[t])
  BY OthersTypes DEF InsertChild, Moving, Knows
<1>2. PICK c \in Children, g \in Groups : c = moving[t].what /\ g = moving[t].at
  BY <1>1 DEF KnowsNewChild
<1>3. /\ group[g] # None /\ child[c] = None /\ EndMove(t)
      /\ child' = [child EXCEPT ![c] = [group |-> g]]
      /\ UNCHANGED <<date, institution, group, booking>>
      /\ \A u \in Movers \ {t} : moving[u] # None => g \notin moving[u].alone
  BY <1>2 DEF InsertChild, groupFree
<1> QED  BY <1>1, <1>3, ChildComes

(* The child that moves to another group is locked, and the group too.     *)
LEMMA MovedChild ==
  ASSUME PlacesInv, NEW t \in Movers, MoveChild(t)
  PROVE  \E c \in Children, g \in Groups :
           /\ moving[t] # None /\ moving[t].op = "moveChild"
           /\ moving[t].what = c /\ moving[t].children = {c}
           /\ moving[t].shared = {g} /\ moving[t].institutions = {group[g].institution}
           /\ child[c] # None /\ group[g] # None
           /\ child' = [child EXCEPT ![c] = [group |-> g]]
<1>1. /\ moving[t] # None /\ moving[t].op = "moveChild"
      /\ Knows(moving[t]) /\ KnowsMovedChild(moving[t])
  BY OthersTypes DEF MoveChild, Moving, Knows
<1>2. PICK c \in Children, g \in Groups :
           /\ moving[t].what = c /\ moving[t].children \subseteq {c}
           /\ moving[t].shared = {g} /\ moving[t].institutions = {group[g].institution}
           /\ child[c] # None
  BY <1>1 DEF KnowsMovedChild
<1>3. moving[t].children = {c}
  BY <1>2 DEF MoveChild
<1>4. group[g] # None
  BY <1>1, <1>2 DEF Knows
<1>5. g = CHOOSE h \in moving[t].shared : TRUE
  BY <1>2
<1>6. child' = [child EXCEPT ![c] = [child[c] EXCEPT !.group = g]]
  BY <1>2, <1>5 DEF MoveChild
<1>7. child[c] \in ChildRows
  BY <1>2 DEF PlacesInv, PlacesTypeOK
<1>8. [child[c] EXCEPT !.group = g] = [group |-> g]
  BY <1>7 DEF ChildRows
<1> QED  BY <1>1, <1>2, <1>3, <1>4, <1>6, <1>8

LEMMA MoveChildPlaces ==
  ASSUME PlacesInv, NEW t \in Movers, MoveChild(t)
  PROVE  PlacesInv'
<1>1. PICK c \in Children, g \in Groups :
           /\ moving[t] # None
           /\ moving[t].children = {c} /\ moving[t].shared = {g}
           /\ child[c] # None /\ group[g] # None
           /\ child' = [child EXCEPT ![c] = [group |-> g]]
  BY MovedChild
<1>2. \A u \in Movers \ {t} : moving[u] # None => g \notin moving[u].alone
  BY <1>1 DEF PlacesInv, LocksApart, Apart
<1>3. EndMove(t) /\ UNCHANGED <<date, institution, group, booking>>
  BY DEF MoveChild
<1> QED  BY <1>1, <1>2, <1>3, ChildComes

(* What is known does not change as long as nothing moves.                 *)
LEMMA NothingMoves ==
  ASSUME PlacesInv, PlacesTypeOK', KindsMatch', RowsExist',
         \A t \in Movers : moving'[t] = moving[t] \/ moving'[t] = None,
         UNCHANGED <<group, child>>,
         \A t \in Movers : moving'[t] # None =>
           \A i \in moving[t].institutions : institution'[i] = institution[i]
  PROVE  PlacesInv'
<1>1. ASSUME NEW u \in Movers, NEW r \in MoveRows, r = moving[u], moving'[u] # None, Knows(r)
      PROVE  Knows(r)'
  BY <1>1, KnowsKept DEF childrenOf, institutionOf
<1> QED  BY <1>1, MoverEnds

LEMMA BookPlaces ==
  ASSUME PlacesInv, NEW t \in Movers, NEW b \in Bookings, Book(t, b)
  PROVE  PlacesInv'
<1>1. PICK at \in BookingRows : at = moving[t].at /\ child[at.child] # None
  BY OthersTypes DEF Book, Moving, Knows, KnowsBooked
<1>2. booking' = [booking EXCEPT ![b] = at]
  BY <1>1 DEF Book
<1>3. PlacesTypeOK'
  BY <1>2, Ended DEF PlacesInv, PlacesTypeOK, Book
<1>4. KindsMatch' /\ RowsExist'
  BY <1>1, <1>2 DEF Book, PlacesInv, PlacesTypeOK, KindsMatch, RowsExist
<1>5. \A u \in Movers : moving'[u] = moving[u] \/ moving'[u] = None
  BY Ended DEF Book
<1> QED  BY <1>3, <1>4, <1>5, NothingMoves DEF Book

LEMMA BookingPlaces ==
  ASSUME PlacesInv, NEW b \in Bookings,
         cancelOrder(b) \/ (\E to \in Dates : end(b, to))
  PROVE  PlacesInv'
<1>1. booking[b] \in BookingRows
  BY DEF cancelOrder, end, PlacesInv, PlacesTypeOK
<1>2. \E row \in BookingRows \cup {None} :
         /\ booking' = [booking EXCEPT ![b] = row]
         /\ row # None => row.child = booking[b].child
  <2>1. CASE cancelOrder(b)
    BY <2>1 DEF cancelOrder
  <2>2. ASSUME NEW to \in Dates, end(b, to)
        PROVE  \E row \in BookingRows \cup {None} :
                 /\ booking' = [booking EXCEPT ![b] = row]
                 /\ row # None => row.child = booking[b].child
    <3>1. PICK row : row = [booking[b] EXCEPT !.to = to]
      OBVIOUS
    <3>2. row \in BookingRows /\ row.child = booking[b].child
      BY <1>1, <3>1 DEF BookingRows
    <3>3. booking' = [booking EXCEPT ![b] = row]
      BY <2>2, <3>1 DEF end
    <3> QED  BY <3>2, <3>3
  <2> QED  BY <2>1, <2>2
<1>3. UNCHANGED <<date, institution, group, child, moving>>
  BY DEF cancelOrder, end
<1>4. booking[b] # None
  BY DEF cancelOrder, end
<1>5. PlacesTypeOK'
  BY <1>2, <1>3 DEF PlacesInv, PlacesTypeOK
<1>6. KindsMatch' /\ RowsExist'
  BY <1>2, <1>3, <1>4 DEF PlacesInv, PlacesTypeOK, KindsMatch, RowsExist
<1> QED  BY <1>3, <1>5, <1>6, NothingMoves

LEMMA InstitutionPlaces ==
  ASSUME PlacesInv, NEW i \in Institutions,
         \/ \E y \in Types : createInstitution(i, y)
         \/ \E y \in Types : \E active \in BOOLEAN : updateInstitution(i, y, active)
         \/ deleteInstitution(i)
  PROVE  PlacesInv'
<1>1. PICK row \in InstitutionRows \cup {None} :
        /\ institution' = [institution EXCEPT ![i] = row]
        /\ groupsOf(i) # {} => row # None /\ row.type = institution[i].type
  <2>1. ASSUME NEW y \in Types, createInstitution(i, y)
        PROVE  \E row \in InstitutionRows \cup {None} :
                /\ institution' = [institution EXCEPT ![i] = row]
                /\ groupsOf(i) # {} => row # None /\ row.type = institution[i].type
    <3>1. PICK row : row = [type |-> y, active |-> TRUE]
      OBVIOUS
    <3>2. row \in InstitutionRows
      BY <3>1 DEF InstitutionRows
    <3>3. groupsOf(i) = {}
      BY <2>1 DEF groupsOf, createInstitution, PlacesInv, KindsMatch
    <3> QED  BY <2>1, <3>1, <3>2, <3>3 DEF createInstitution
  <2>2. ASSUME NEW y \in Types, NEW active \in BOOLEAN, updateInstitution(i, y, active)
        PROVE  \E row \in InstitutionRows \cup {None} :
                /\ institution' = [institution EXCEPT ![i] = row]
                /\ groupsOf(i) # {} => row # None /\ row.type = institution[i].type
    <3>1. PICK row : row = [type |-> y, active |-> active]
      OBVIOUS
    <3>2. row \in InstitutionRows /\ row # None
      BY <3>1, PlacesAssumption DEF InstitutionRows
    <3>3. groupsOf(i) # {} => row.type = institution[i].type
      BY <2>2, <3>1 DEF updateInstitution
    <3> QED  BY <2>2, <3>1, <3>2, <3>3 DEF updateInstitution
  <2>3. CASE deleteInstitution(i)
    BY <2>3 DEF deleteInstitution
  <2> QED  BY <2>1, <2>2, <2>3
<1>2. UNCHANGED <<date, group, child, booking, moving>>
  BY DEF createInstitution, updateInstitution, deleteInstitution
<1>3. \A j \in Institutions : institution'[j] = IF j = i THEN row ELSE institution[j]
  BY <1>1 DEF PlacesInv, PlacesTypeOK
<1>4. PlacesTypeOK'
  BY <1>1, <1>2 DEF PlacesInv, PlacesTypeOK
<1>5. KindsMatch'
  <2> SUFFICES ASSUME NEW g \in Groups, group[g] # None
               PROVE  /\ institution'[group[g].institution] # None
                      /\ institution'[group[g].institution].type = group[g].kind
    BY <1>2 DEF KindsMatch
  <2>1. /\ group[g].institution \in Institutions
        /\ institution[group[g].institution] # None
        /\ institution[group[g].institution].type = group[g].kind
    BY DEF PlacesInv, PlacesTypeOK, GroupRows, KindsMatch
  <2>2. group[g].institution = i => groupsOf(i) # {}
    BY DEF groupsOf
  <2> QED  BY <1>1, <1>3, <2>1, <2>2
<1>6. RowsExist'
  BY <1>2 DEF PlacesInv, RowsExist
<1>7. ASSUME NEW u \in Movers, moving'[u] # None, NEW j \in moving[u].institutions
      PROVE  institution'[j] = institution[j]
  <2>1. j \in Institutions /\ moving[u] # None
    BY <1>2, <1>7, OthersTypes
  <2>2. CASE institution[i] = None
    <3>1. institution[j] # None
      BY <1>7, <2>1, OthersTypes DEF Knows
    <3> QED  BY <3>1, <2>2, <1>3, <2>1
  <2>3. CASE institution[i] # None
    BY <1>3, <1>7, <2>1, <2>3 DEF createInstitution, updateInstitution,
                                  deleteInstitution, institutionFree
  <2> QED  BY <2>2, <2>3
<1> QED  BY <1>2, <1>4, <1>5, <1>6, <1>7, NothingMoves

LEMMA DeleteGroupPlaces ==
  ASSUME PlacesInv, NEW g \in Groups, deleteGroup(g)
  PROVE  PlacesInv'
<1>1. PICK row : row = [group |-> None]
  OBVIOUS
<1>2. row \in ChildRows /\ row # None /\ row.group = None
  BY <1>1, PlacesAssumption DEF ChildRows
<1>3. /\ child' = [c \in Children |-> IF c \in childrenOf(g) THEN row ELSE child[c]]
      /\ \A c \in Children : child'[c] = IF c \in childrenOf(g) THEN row ELSE child[c]
  BY <1>1 DEF deleteGroup
<1>4. \A h \in Groups : group'[h] = IF h = g THEN None ELSE group[h]
  BY DEF deleteGroup, PlacesInv, PlacesTypeOK
<1>5. UNCHANGED <<date, institution, booking, moving>>
  BY DEF deleteGroup
<1>6. PlacesTypeOK'
  <2>1. group' \in [Groups -> GroupRows \cup {None}]
    BY DEF deleteGroup, PlacesInv, PlacesTypeOK
  <2>2. child' \in [Children -> ChildRows \cup {None}]
    BY <1>2, <1>3 DEF PlacesInv, PlacesTypeOK
  <2> QED  BY <1>5, <2>1, <2>2 DEF PlacesInv, PlacesTypeOK
<1>7. KindsMatch'
  BY <1>4, <1>5 DEF PlacesInv, KindsMatch
<1>8. RowsExist'
  <2>1. ASSUME NEW c \in Children, child'[c] # None, child'[c].group # None
        PROVE  group'[child'[c].group] # None
    <3>1. child'[c] = child[c] /\ c \notin childrenOf(g)
      BY <1>2, <1>3, <2>1
    <3>2. child[c].group \in Groups /\ child[c].group # g /\ group[child[c].group] # None
      BY <2>1, <3>1, ChildIn
    <3> QED  BY <1>4, <3>1, <3>2
  <2>2. \A b \in Bookings : booking'[b] # None => child'[booking'[b].child] # None
    BY <1>2, <1>3, <1>5 DEF PlacesInv, PlacesTypeOK, BookingRows, RowsExist
  <2> QED  BY <2>1, <2>2 DEF RowsExist
<1>9. ASSUME NEW u \in Movers, NEW r \in MoveRows, r = moving[u], moving'[u] # None, Knows(r)
      PROVE  Knows(r)'
  <2>1. g \notin r.alone \cup r.shared /\ r.children \cap childrenOf(g) = {}
    BY <1>5, <1>9 DEF deleteGroup
  <2>2. \A h \in r.alone \cup r.shared : group'[h] = group[h]
    BY <1>4, <2>1, MoveTypes
  <2>3. \A h \in r.alone : childrenOf(h)' = childrenOf(h)
    <3> SUFFICES ASSUME NEW h \in r.alone PROVE childrenOf(h)' = childrenOf(h)
      OBVIOUS
    <3>1. h \in Groups /\ h # g /\ h # None
      BY <2>1, MoveTypes, PlacesAssumption
    <3> QED  BY <1>2, <1>3, <3>1 DEF childrenOf
  <2>4. ASSUME NEW c \in r.children PROVE institutionOf(c)' = institutionOf(c)
    <3>1. c \in Children /\ child[c] # None /\ c \notin childrenOf(g)
      BY <1>9, <2>1, LockedExist
    <3>2. child[c].group = None \/ (child[c].group \in Groups /\ child[c].group # g)
      BY <3>1, ChildIn
    <3>3. child'[c] = child[c]
      BY <1>3, <3>1
    <3> QED  BY <3>2, <3>3, <1>4 DEF institutionOf
  <2> QED  BY <1>2, <1>3, <1>5, <1>9, <2>2, <2>3, <2>4, KnowsKept
<1> QED  BY <1>5, <1>6, <1>7, <1>8, <1>9, MoverEnds

LEMMA NextPlaces == PlacesInv /\ [PlacesNext]_placeVars => PlacesInv'
<1> SUFFICES ASSUME PlacesInv, [PlacesNext]_placeVars PROVE PlacesInv'
  OBVIOUS
<1>1. CASE Administration
  BY <1>1, InstitutionPlaces, DeleteGroupPlaces, BookingPlaces DEF Administration
<1>2. ASSUME NEW t \in Movers, AbandonMove(t) PROVE PlacesInv'
  <2>1. PlacesTypeOK' /\ KindsMatch' /\ RowsExist'
    BY <1>2, Ended DEF AbandonMove, PlacesInv, PlacesTypeOK, KindsMatch, RowsExist
  <2>2. \A u \in Movers : moving'[u] = moving[u] \/ moving'[u] = None
    BY <1>2, Ended DEF AbandonMove
  <2> QED  BY <1>2, <2>1, <2>2, NothingMoves DEF AbandonMove
<1>3. ASSUME NEW t \in Movers, Step(t) PROVE PlacesInv'
  BY <1>2, <1>3, BeginGroupPlaces, BeginMoveGroupPlaces, BeginChildPlaces,
     BeginMoveChildPlaces, BeginBookingPlaces, InsertGroupPlaces, LockChildrenPlaces,
     MoveGroupPlaces, InsertChildPlaces, LockChildPlaces, MoveChildPlaces,
     LockBookedPlaces, BookPlaces DEF Step
<1>4. CASE NextDate
  <2>1. date' \in Dates
    BY <1>4, PlacesAssumption DEF NextDate, PlacesInv, PlacesTypeOK, Dates
  <2>2. PlacesTypeOK' /\ KindsMatch' /\ RowsExist'
    BY <1>4, <2>1 DEF NextDate, PlacesInv, PlacesTypeOK, KindsMatch, RowsExist
  <2> QED  BY <1>4, <2>2, NothingMoves DEF NextDate
<1>5. CASE UNCHANGED placeVars
  <2>1. PlacesTypeOK' /\ KindsMatch' /\ RowsExist'
    BY <1>5 DEF placeVars, PlacesInv, PlacesTypeOK, KindsMatch, RowsExist
  <2> QED  BY <1>5, <2>1, NothingMoves DEF placeVars
<1> QED  BY <1>1, <1>3, <1>4, <1>5 DEF PlacesNext

(* The variables of the places have their types.                           *)
THEOREM PlacesTypeCorrect == PlacesSpec => []PlacesTypeOK
BY InitPlaces, NextPlaces, PTL DEF PlacesSpec, PlacesInv

-----------------------------------------------------------------------------
(* What children are bound to                                              *)

(* The children a request has locked to move are free to go: nothing binds *)
(* them, or only what is of the institution they move to.                  *)
Free(r) ==
  /\ r.op = "moveGroup" =>
       \A b \in Bookings : booking[b] # None /\ booking[b].child \in r.children =>
         ~binds(b)
  /\ r.op = "moveChild" =>
       \A b \in Bookings :
         booking[b] # None /\ booking[b].child \in r.children /\ binds(b) =>
           \A g \in r.shared : booking[b].institution = group[g].institution

MoversFree == \A t \in Movers : moving[t] # None => Free(moving[t])

PlacesBound == PlacesInv /\ BoundWhereTheyAre /\ MoversFree

(* What is over stays over.                                                *)
EndsStand ==
  \A b \in Bookings : booking[b] # None /\ ~binds(b) =>
    booking'[b] = None \/ ~binds(b)'

(* No group is deleted while a child in it is bound to the institution.    *)
GroupsStand ==
  \A b \in Bookings : booking[b] # None /\ binds(b) =>
    child'[booking[b].child].group # None

(* A booking that binds did before.                                        *)
Stays(b) ==
  booking'[b] # None /\ binds(b)' =>
    /\ booking[b] # None /\ binds(b)
    /\ booking'[b].child = booking[b].child
    /\ booking'[b].institution = booking[b].institution

LEMMA BookingTypes ==
  ASSUME PlacesInv, NEW b \in Bookings, booking[b] # None
  PROVE  /\ booking[b] \in BookingRows
         /\ booking[b].child \in Children /\ child[booking[b].child] # None
         /\ booking[b].institution \in Institutions /\ booking[b].institution # None
BY PlacesAssumption DEF PlacesInv, PlacesTypeOK, BookingRows, RowsExist

LEMMA FreeKept ==
  ASSUME NEW r \in MoveRows, Free(r), \A b \in Bookings : Stays(b),
         \A g \in r.shared : group'[g] = group[g]
  PROVE  Free(r)'
<1>1. r.op = "moveGroup" =>
        \A b \in Bookings : booking'[b] # None /\ booking'[b].child \in r.children =>
          ~binds(b)'
  BY DEF Free, Stays
<1>2. r.op = "moveChild" =>
       \A b \in Bookings :
         booking'[b] # None /\ booking'[b].child \in r.children /\ binds(b)' =>
           \A g \in r.shared : booking'[b].institution = group'[g].institution
  BY DEF Free, Stays
<1> QED  BY <1>1, <1>2 DEF Free

(* Children stay, and requests end.                                        *)
LEMMA ChildrenStay ==
  ASSUME PlacesBound, PlacesInv', \A b \in Bookings : Stays(b),
         \A b \in Bookings : booking'[b] # None /\ binds(b)' /\ booking[b] # None /\ binds(b) =>
           institutionOf(booking[b].child)' = booking[b].institution,
         \A t \in Movers : moving'[t] = moving[t] \/ moving'[t] = None,
         \A t \in Movers : moving[t] # None /\ moving'[t] # None =>
           \A g \in moving[t].shared : group'[g] = group[g]
  PROVE  PlacesBound'
<1>1. BoundWhereTheyAre'
  <2>1. ASSUME NEW b \in Bookings, booking'[b] # None, binds(b)'
        PROVE  institutionOf(booking[b].child)' = booking'[b].institution
               /\ booking'[b].child = booking[b].child
    BY <2>1 DEF Stays
  <2> QED  BY <2>1 DEF BoundWhereTheyAre, institutionOf
<1>2. MoversFree'
  <2>1. ASSUME NEW t \in Movers, moving'[t] # None PROVE Free(moving[t])'
    <3>1. PICK r \in MoveRows : r = moving[t] /\ r = moving'[t] /\ Free(r)
      BY <2>1 DEF PlacesBound, PlacesInv, PlacesTypeOK, MoversFree
    <3>2. Free(r)'
      BY <2>1, <3>1, FreeKept
    <3> QED  BY <3>1, <3>2
  <2> QED  BY <2>1 DEF MoversFree
<1> QED  BY <1>1, <1>2 DEF PlacesBound

(* A request asks, and its children are free.                              *)
LEMMA FreeAsks ==
  ASSUME PlacesBound, PlacesInv', NEW t \in Movers, NEW r, Free(r),
         \A u \in Movers : moving'[u] = IF u = t THEN r ELSE moving[u],
         UNCHANGED <<date, institution, group, child, booking>>
  PROVE  PlacesBound'
<1>1. BoundWhereTheyAre'
  BY DEF PlacesBound, BoundWhereTheyAre, binds, institutionOf
<1>2. ASSUME NEW q, Free(q) PROVE Free(q)'
  BY <1>2 DEF Free, binds
<1>3. MoversFree'
  <2>1. ASSUME NEW u \in Movers, moving'[u] # None PROVE Free(moving[u])'
    <3>1. PICK q : q = moving'[u]
      OBVIOUS
    <3>2. Free(q)
      BY <2>1, <3>1 DEF PlacesBound, MoversFree
    <3> QED  BY <3>1, <3>2, <1>2
  <2> QED  BY <2>1 DEF MoversFree
<1> QED  BY <1>1, <1>3 DEF PlacesBound

LEMMA BeginBound ==
  ASSUME PlacesBound, PlacesInv', NEW t \in Movers, NEW r, r.children = {},
         StartMove(t, r), UNCHANGED <<date, institution, group, child, booking>>
  PROVE  PlacesBound'
<1>1. Free(r)
  BY DEF Free
<1>2. \A u \in Movers : moving'[u] = IF u = t THEN r ELSE moving[u]
  BY DEF StartMove, PlacesBound, PlacesInv, PlacesTypeOK
<1> QED  BY <1>1, <1>2, FreeAsks

LEMMA BeginsBound ==
  ASSUME PlacesBound, PlacesInv', NEW t \in Movers,
         \/ \E g \in Groups : \E i \in Institutions :
              BeginGroup(t, g, i) \/ BeginMoveGroup(t, g, i)
         \/ \E c \in Children : \E g \in Groups :
              BeginChild(t, c, g) \/ BeginMoveChild(t, c, g)
         \/ \E c \in Children : \E i \in Institutions : \E to \in Dates \cup {None} :
              \E kind \in {"enrollment", "order"} : BeginBooking(t, kind, c, i, to)
  PROVE  PlacesBound'
<1>1. \E op, what, at, alone, shared, some :
         StartMove(t, asking(op, what, at, alone, shared, some))
  BY DEF BeginGroup, BeginMoveGroup, BeginChild, BeginMoveChild, BeginBooking
<1>2. PICK r : StartMove(t, r) /\ r.children = {}
  BY <1>1 DEF asking
<1>3. UNCHANGED <<date, institution, group, child, booking>>
  BY DEF BeginGroup, BeginMoveGroup, BeginChild, BeginMoveChild, BeginBooking
<1> QED  BY <1>2, <1>3, BeginBound

(* The locked children are those of the request.                           *)
LEMMA LockBound ==
  ASSUME PlacesBound, PlacesInv', NEW t \in Movers, moving[t] # None,
         NEW some \in SUBSET Children,
         moving[t].op = "moveGroup" =>
           \A b \in Bookings : booking[b] # None /\ booking[b].child \in some => ~binds(b),
         moving[t].op = "moveChild" =>
           \A b \in Bookings : booking[b] # None /\ booking[b].child \in some /\ binds(b) =>
             \A g \in moving[t].shared : booking[b].institution = group[g].institution,
         moving' = [moving EXCEPT ![t].children = some],
         UNCHANGED <<date, institution, group, child, booking>>
  PROVE  PlacesBound'
<1>1. PICK q \in MoveRows : q = moving[t]
  BY OthersTypes DEF PlacesBound
<1>2. PICK r : r = [q EXCEPT !.children = some]
  OBVIOUS
<1>3. r.op = q.op /\ r.children = some /\ r.shared = q.shared
  BY <1>2 DEF MoveRows
<1>4. Free(r)
  BY <1>1, <1>3 DEF Free
<1>5. \A u \in Movers : moving'[u] = IF u = t THEN r ELSE moving[u]
  BY <1>1, <1>2 DEF PlacesBound, PlacesInv, PlacesTypeOK
<1> QED  BY <1>4, <1>5, FreeAsks

LEMMA LockChildrenBound ==
  ASSUME PlacesBound, PlacesInv', NEW t \in Movers, LockChildren(t)
  PROVE  PlacesBound'
<1>1. moving[t] # None /\ moving[t].op = "moveGroup"
  BY DEF LockChildren, Moving
<1>2. PICK g \in Groups : g = moving[t].what
  BY <1>1, OthersTypes DEF PlacesBound, Knows, KnowsMovedGroup
<1>3. canMove(childrenOf(g), group[g].institution)
      /\ moving' = [moving EXCEPT ![t].children = childrenOf(g)]
      /\ UNCHANGED <<date, institution, group, child, booking>>
  BY <1>2 DEF LockChildren
<1>4. ASSUME NEW b \in Bookings, booking[b] # None, booking[b].child \in childrenOf(g),
             binds(b)
      PROVE  FALSE
  <2>1. institutionOf(booking[b].child) = booking[b].institution
    BY <1>4 DEF PlacesBound, BoundWhereTheyAre
  <2>2. child[booking[b].child].group = g /\ g # None
    BY <1>4, PlacesAssumption DEF childrenOf
  <2>3. booking[b].institution = group[g].institution
    BY <2>1, <2>2 DEF institutionOf
  <2> QED  BY <1>3, <1>4, <2>3 DEF canMove
<1>5. childrenOf(g) \in SUBSET Children
  BY DEF childrenOf
<1> QED  BY <1>1, <1>3, <1>4, <1>5, LockBound

LEMMA LockChildBound ==
  ASSUME PlacesBound, PlacesInv', NEW t \in Movers, LockChild(t)
  PROVE  PlacesBound'
<1>1. moving[t] # None /\ moving[t].op = "moveChild" /\ KnowsMovedChild(moving[t])
  BY OthersTypes DEF LockChild, Moving, PlacesBound, Knows
<1>2. PICK c \in Children, g \in Groups :
        /\ c = moving[t].what /\ child[c] # None
        /\ moving[t].shared = {g} /\ moving[t].institutions = {group[g].institution}
  BY <1>1 DEF KnowsMovedChild
<1>3. group[g].institution = CHOOSE i \in moving[t].institutions : TRUE
  BY <1>2
<1>4. /\ institutionOf(c) # None /\ institutionOf(c) # group[g].institution =>
           canMove({c}, institutionOf(c))
      /\ moving' = [moving EXCEPT ![t].children = {c}]
      /\ UNCHANGED <<date, institution, group, child, booking>>
  BY <1>2, <1>3 DEF LockChild
<1>5. ASSUME NEW b \in Bookings, booking[b] # None, booking[b].child = c, binds(b)
      PROVE  booking[b].institution = group[g].institution
  <2>1. institutionOf(c) = booking[b].institution /\ institutionOf(c) # None
    BY <1>5, BookingTypes DEF PlacesBound, BoundWhereTheyAre
  <2> QED  BY <1>4, <1>5, <2>1 DEF canMove
<1>6. PICK some \in SUBSET Children : some = {c}
  OBVIOUS
<1>7. moving' = [moving EXCEPT ![t].children = some]
  BY <1>4, <1>6
<1>8. \A b \in Bookings : booking[b] # None /\ booking[b].child \in some /\ binds(b) =>
        \A h \in moving[t].shared : booking[b].institution = group[h].institution
  BY <1>2, <1>5, <1>6
<1> QED  BY <1>1, <1>4, <1>7, <1>8, LockBound

LEMMA LockBookedBound ==
  ASSUME PlacesBound, PlacesInv', NEW t \in Movers, LockBooked(t)
  PROVE  PlacesBound'
<1>1. moving[t] # None /\ moving[t].op = "book" /\ moving[t].what \in Children
  BY OthersTypes DEF LockBooked, Moving, PlacesBound, Knows, KnowsBooked
<1>2. PICK some \in SUBSET Children : some = {moving[t].what}
  BY <1>1
<1>3. moving' = [moving EXCEPT ![t].children = some]
      /\ UNCHANGED <<date, institution, group, child, booking>>
  BY <1>2 DEF LockBooked
<1> QED  BY <1>1, <1>3, LockBound

-----------------------------------------------------------------------------
(* Nothing is booked, and children move only where they may.               *)

LEMMA SameBookings ==
  ASSUME UNCHANGED <<date, booking>>
  PROVE  \A b \in Bookings : Stays(b)
BY DEF Stays, binds

LEMMA InsertGroupBound ==
  ASSUME PlacesBound, PlacesInv', NEW t \in Movers, InsertGroup(t)
  PROVE  PlacesBound'
<1>1. PICK g : g = moving[t].what /\ g \in Groups /\ group[g] = None
  BY OthersTypes DEF InsertGroup, Moving, PlacesBound, Knows, KnowsNewGroup
<1>2. \A h \in Groups : h # g => group'[h] = group[h]
  BY <1>1 DEF InsertGroup, PlacesBound, PlacesInv, PlacesTypeOK
<1>3. ASSUME NEW b \in Bookings, booking[b] # None, binds(b)
      PROVE  institutionOf(booking[b].child)' = booking[b].institution
  <2>1. PICK c \in Children : c = booking[b].child /\ child[c] # None
    BY <1>3, BookingTypes DEF PlacesBound
  <2>2. institutionOf(c) = booking[b].institution /\ institutionOf(c) # None
    BY <1>3, <2>1, BookingTypes DEF PlacesBound, BoundWhereTheyAre
  <2>3. child[c].group \in Groups /\ child[c].group # g
    BY <2>1, <2>2, <1>1, ChildIn DEF PlacesBound
  <2>4. institutionOf(c)' = institutionOf(c)
    BY <2>3, <1>2 DEF InsertGroup, institutionOf
  <2> QED  BY <2>1, <2>2, <2>4 DEF InsertGroup
<1>4. ASSUME NEW u \in Movers, moving[u] # None, NEW h \in moving[u].shared
      PROVE  group'[h] = group[h]
  BY <1>1, <1>2, <1>4, OthersTypes DEF PlacesBound, Knows
<1>5. \A u \in Movers : moving'[u] = moving[u] \/ moving'[u] = None
  BY Ended DEF InsertGroup, PlacesBound
<1>6. \A b \in Bookings : Stays(b)
  BY SameBookings DEF InsertGroup
<1> QED  BY <1>3, <1>4, <1>5, <1>6, ChildrenStay

LEMMA MoveGroupBound ==
  ASSUME PlacesBound, PlacesInv', NEW t \in Movers, MoveGroup(t)
  PROVE  PlacesBound'
<1>0. moving[t] # None /\ moving[t].op = "moveGroup" /\ EndMove(t)
      /\ UNCHANGED <<date, institution, child, booking>> /\ PlacesInv
  BY DEF MoveGroup, Moving, PlacesBound
<1>1. PICK g \in Groups :
        /\ moving[t].alone = {g} /\ childrenOf(g) = moving[t].children
        /\ \A h \in Groups : h # g => group'[h] = group[h]
  BY <1>0, MovedGroup DEF PlacesInv, PlacesTypeOK
<1>2. \A b \in Bookings :
        booking[b] # None /\ booking[b].child \in childrenOf(g) => ~binds(b)
  BY <1>0, <1>1 DEF PlacesBound, MoversFree, Free
<1>3. ASSUME NEW b \in Bookings, booking[b] # None, binds(b)
      PROVE  institutionOf(booking[b].child)' = booking[b].institution
  <2>1. PICK c \in Children : c = booking[b].child /\ child[c] # None
    BY <1>0, <1>3, BookingTypes
  <2>2. institutionOf(c) = booking[b].institution /\ institutionOf(c) # None
    BY <1>0, <1>3, <2>1, BookingTypes DEF PlacesBound, BoundWhereTheyAre
  <2>3. child[c].group \in Groups /\ child[c].group # g
    BY <1>0, <1>2, <1>3, <2>1, <2>2, ChildIn
  <2>4. institutionOf(c)' = institutionOf(c)
    BY <2>3, <1>0, <1>1 DEF institutionOf
  <2> QED  BY <2>1, <2>2, <2>4, <1>0
<1>4. ASSUME NEW u \in Movers, moving[u] # None, moving'[u] # None, NEW h \in moving[u].shared
      PROVE  group'[h] = group[h]
  <2>1. u # t /\ h \in Groups
    BY <1>0, <1>4, Ended, OthersTypes
  <2>2. Apart(moving[t], moving[u])
    BY <1>0, <1>4, <2>1 DEF PlacesInv, LocksApart
  <2> QED  BY <1>1, <1>4, <2>1, <2>2 DEF Apart
<1>5. \A u \in Movers : moving'[u] = moving[u] \/ moving'[u] = None
  BY <1>0, Ended
<1>6. \A b \in Bookings : Stays(b)
  BY <1>0, SameBookings
<1> QED  BY <1>3, <1>4, <1>5, <1>6, ChildrenStay

LEMMA InsertChildBound ==
  ASSUME PlacesBound, PlacesInv', NEW t \in Movers, InsertChild(t)
  PROVE  PlacesBound'
<1>0. moving[t] # None /\ moving[t].op = "child" /\ EndMove(t)
      /\ UNCHANGED <<date, institution, group, booking>> /\ PlacesInv
  BY DEF InsertChild, Moving, PlacesBound
<1>1. PICK c \in Children :
        child[c] = None /\ \A d \in Children : d # c => child'[d] = child[d]
  BY <1>0, OthersTypes DEF InsertChild, Knows, KnowsNewChild, PlacesInv, PlacesTypeOK
<1>2. ASSUME NEW b \in Bookings, booking[b] # None, binds(b)
      PROVE  institutionOf(booking[b].child)' = booking[b].institution
  <2>1. PICK d \in Children : d = booking[b].child /\ child[d] # None
    BY <1>0, <1>2, BookingTypes
  <2>2. institutionOf(d)' = institutionOf(d)
    BY <1>0, <1>1, <2>1 DEF institutionOf
  <2>3. institutionOf(d) = booking[b].institution
    BY <1>2, <2>1 DEF PlacesBound, BoundWhereTheyAre
  <2> QED  BY <2>1, <2>2, <2>3, <1>0
<1>3. \A u \in Movers : moving'[u] = moving[u] \/ moving'[u] = None
  BY <1>0, Ended
<1>4. \A b \in Bookings : Stays(b)
  BY <1>0, SameBookings
<1> QED  BY <1>0, <1>2, <1>3, <1>4, ChildrenStay

LEMMA MoveChildBound ==
  ASSUME PlacesBound, PlacesInv', NEW t \in Movers, MoveChild(t)
  PROVE  PlacesBound'
<1>0. EndMove(t) /\ UNCHANGED <<date, institution, group, booking>> /\ PlacesInv
  BY DEF MoveChild, PlacesBound
<1>1. PICK c \in Children, g \in Groups :
           /\ moving[t] # None /\ moving[t].op = "moveChild"
           /\ moving[t].children = {c} /\ moving[t].shared = {g}
           /\ child' = [child EXCEPT ![c] = [group |-> g]]
  BY <1>0, MovedChild
<1>2. \A d \in Children : child'[d] = IF d = c THEN [group |-> g] ELSE child[d]
  BY <1>0, <1>1 DEF PlacesInv, PlacesTypeOK
<1>3. ASSUME NEW b \in Bookings, booking[b] # None, binds(b)
      PROVE  institutionOf(booking[b].child)' = booking[b].institution
  <2>1. PICK d \in Children : d = booking[b].child
    BY <1>0, <1>3, BookingTypes
  <2>2. CASE d = c
    <3>1. booking[b].institution = group[g].institution
      BY <1>1, <1>3, <2>1, <2>2 DEF PlacesBound, MoversFree, Free
    <3>2. institutionOf(c)' = group[g].institution
      BY <1>0, <1>2, PlacesAssumption DEF institutionOf
    <3> QED  BY <3>1, <3>2, <2>1, <2>2, <1>0
  <2>3. CASE d # c
    <3>1. institutionOf(d)' = institutionOf(d)
      BY <1>0, <1>2, <2>3 DEF institutionOf
    <3>2. institutionOf(d) = booking[b].institution
      BY <1>3, <2>1 DEF PlacesBound, BoundWhereTheyAre
    <3> QED  BY <3>1, <3>2, <2>1, <1>0
  <2> QED  BY <2>2, <2>3
<1>4. \A u \in Movers : moving'[u] = moving[u] \/ moving'[u] = None
  BY <1>0, Ended
<1>5. \A b \in Bookings : Stays(b)
  BY <1>0, SameBookings
<1> QED  BY <1>0, <1>3, <1>4, <1>5, ChildrenStay

LEMMA DeleteGroupBound ==
  ASSUME PlacesBound, PlacesInv', NEW g \in Groups, deleteGroup(g), GroupsStand
  PROVE  PlacesBound'
<1>0. UNCHANGED <<date, institution, booking, moving>> /\ PlacesInv
  BY DEF deleteGroup, PlacesBound
<1>1. \A h \in Groups : h # g => group'[h] = group[h]
  BY DEF deleteGroup, PlacesBound, PlacesInv, PlacesTypeOK
<1>2. \A c \in Children :
        child'[c] = IF c \in childrenOf(g) THEN [group |-> None] ELSE child[c]
  BY DEF deleteGroup
<1>3. ASSUME NEW b \in Bookings, booking[b] # None, binds(b)
      PROVE  institutionOf(booking[b].child)' = booking[b].institution
  <2>1. PICK c \in Children : c = booking[b].child /\ child[c] # None
    BY <1>0, <1>3, BookingTypes
  <2>2. child'[c].group # None
    BY <1>3, <2>1 DEF GroupsStand
  <2>3. child'[c] = child[c] /\ c \notin childrenOf(g)
    BY <1>2, <2>1, <2>2
  <2>4. child[c].group \in Groups /\ child[c].group # g
    BY <1>0, <2>1, <2>2, <2>3, ChildIn
  <2>5. institutionOf(c)' = institutionOf(c)
    BY <2>3, <2>4, <1>1 DEF institutionOf
  <2>6. institutionOf(c) = booking[b].institution
    BY <1>3, <2>1 DEF PlacesBound, BoundWhereTheyAre
  <2> QED  BY <2>1, <2>5, <2>6, <1>0
<1>4. ASSUME NEW u \in Movers, moving[u] # None, NEW h \in moving[u].shared
      PROVE  group'[h] = group[h]
  BY <1>0, <1>1, <1>4, OthersTypes DEF deleteGroup
<1>5. \A b \in Bookings : Stays(b)
  BY <1>0, SameBookings
<1> QED  BY <1>0, <1>3, <1>4, <1>5, ChildrenStay

(* Nobody moves.                                                           *)
LEMMA NobodyMoves ==
  ASSUME PlacesBound, PlacesInv', \A b \in Bookings : Stays(b),
         UNCHANGED <<group, child>>,
         \A t \in Movers : moving'[t] = moving[t] \/ moving'[t] = None
  PROVE  PlacesBound'
<1>1. \A c \in Children : institutionOf(c)' = institutionOf(c)
  BY DEF institutionOf
<1>2. ASSUME NEW b \in Bookings, booking'[b] # None, binds(b)', booking[b] # None, binds(b)
      PROVE  institutionOf(booking[b].child)' = booking[b].institution
  <2>1. PICK c \in Children : c = booking[b].child
    BY <1>2, BookingTypes DEF PlacesBound
  <2>2. institutionOf(c) = booking[b].institution
    BY <1>2, <2>1 DEF PlacesBound, BoundWhereTheyAre
  <2>3. booking'[b].child = c /\ institutionOf(c)' = booking[b].institution
    BY <1>1, <1>2, <2>1, <2>2 DEF Stays
  <2> QED  BY <2>3 DEF institutionOf
<1> QED  BY <1>2, ChildrenStay

-----------------------------------------------------------------------------
(* A child is booked while its lock is held, where the request found it    *)
(* once it had the lock; nobody else has locked it to move it.             *)

LEMMA BookBound ==
  ASSUME PlacesBound, PlacesInv', NEW t \in Movers, NEW b \in Bookings, Book(t, b)
  PROVE  PlacesBound'
<1>0. moving[t] # None /\ moving[t].op = "book" /\ moving[t].children # {}
      /\ EndMove(t) /\ UNCHANGED <<date, institution, group, child>>
      /\ booking' = [booking EXCEPT ![b] = moving[t].at] /\ PlacesInv
  BY DEF Book, Moving, PlacesBound
<1>1. KnowsBooked(moving[t])
  BY <1>0, OthersTypes DEF Knows
<1>2. PICK c \in Children, at \in BookingRows :
        /\ at = moving[t].at /\ at.child = c /\ moving[t].children = {c}
        /\ institutionOf(c) = at.institution
  BY <1>0, <1>1 DEF KnowsBooked
<1>3. \A d \in Bookings : booking'[d] = IF d = b THEN at ELSE booking[d]
  BY <1>0, <1>2 DEF PlacesInv, PlacesTypeOK
<1>4. \A d \in Children : institutionOf(d)' = institutionOf(d)
  BY <1>0 DEF institutionOf
<1>5. BoundWhereTheyAre'
  <2>1. ASSUME NEW d \in Bookings, booking'[d] # None, binds(d)'
        PROVE  institutionOf(booking[d].child)' = booking'[d].institution
    <3>1. CASE d = b
      <4>1. booking'[d] = at
        BY <1>3, <3>1
      <4>2. institutionOf(c)' = at.institution
        BY <1>2, <1>4
      <4> QED  BY <1>2, <4>1, <4>2 DEF institutionOf
    <3>2. CASE d # b
      <4>1. booking'[d] = booking[d] /\ booking[d] # None /\ binds(d)
        BY <1>0, <1>3, <2>1, <3>2 DEF binds
      <4>2. PICK e \in Children : e = booking[d].child
        BY <1>0, <4>1, BookingTypes
      <4>3. institutionOf(e) = booking[d].institution
        BY <4>1, <4>2 DEF PlacesBound, BoundWhereTheyAre
      <4>4. institutionOf(e)' = booking[d].institution
        BY <1>4, <4>3
      <4> QED  BY <4>1, <4>2, <4>4 DEF institutionOf
    <3> QED  BY <3>1, <3>2
  <2> QED  BY <2>1 DEF BoundWhereTheyAre
<1>6. MoversFree'
  <2>1. ASSUME NEW u \in Movers, moving'[u] # None PROVE Free(moving[u])'
    <3>1. PICK r : r = moving[u]
      OBVIOUS
    <3>2. r = moving'[u] /\ u # t /\ moving[u] # None
      BY <1>0, <2>1, <3>1, Ended
    <3>3. Free(r) /\ c \notin r.children
      BY <1>0, <1>2, <3>1, <3>2 DEF PlacesBound, MoversFree, PlacesInv, LocksApart, Apart
    <3>4. \A d \in Bookings : booking'[d] # None /\ booking'[d].child \in r.children =>
            booking'[d] = booking[d]
      BY <1>2, <1>3, <3>3
    <3>5. r.op = "moveGroup" =>
            \A d \in Bookings : booking'[d] # None /\ booking'[d].child \in r.children =>
              ~binds(d)'
      BY <1>0, <3>3, <3>4 DEF Free, binds
    <3>6. r.op = "moveChild" =>
            \A d \in Bookings :
              booking'[d] # None /\ booking'[d].child \in r.children /\ binds(d)' =>
                \A g \in r.shared : booking'[d].institution = group'[g].institution
      BY <1>0, <3>3, <3>4 DEF Free, binds
    <3>7. Free(r)'
      BY <3>5, <3>6 DEF Free
    <3> QED  BY <3>2, <3>7
  <2> QED  BY <2>1 DEF MoversFree
<1> QED  BY <1>5, <1>6 DEF PlacesBound

LEMMA BookingBound ==
  ASSUME PlacesBound, PlacesInv', NEW b \in Bookings,
         cancelOrder(b) \/ (\E to \in Dates : end(b, to)), EndsStand
  PROVE  PlacesBound'
<1>1. UNCHANGED <<date, institution, group, child, moving>>
  BY DEF cancelOrder, end
<1>2. \A d \in Bookings : d # b => booking'[d] = booking[d]
  BY DEF cancelOrder, end, PlacesBound, PlacesInv, PlacesTypeOK
<1>3. booking'[b] # None =>
        /\ booking[b] # None
        /\ booking'[b].child = booking[b].child
        /\ booking'[b].institution = booking[b].institution
  <2>1. CASE cancelOrder(b)
    BY <2>1 DEF cancelOrder, PlacesBound, PlacesInv, PlacesTypeOK
  <2>2. ASSUME NEW to \in Dates, end(b, to)
        PROVE  /\ booking[b] # None
               /\ booking'[b].child = booking[b].child
               /\ booking'[b].institution = booking[b].institution
    <3>1. PICK row \in BookingRows : row = booking[b]
      BY <2>2 DEF end, PlacesBound, PlacesInv, PlacesTypeOK
    <3>2. booking'[b] = [row EXCEPT !.to = to]
      BY <2>2, <3>1 DEF end, PlacesBound, PlacesInv, PlacesTypeOK
    <3> QED  BY <2>2, <3>1, <3>2 DEF BookingRows, end
  <2> QED  BY <2>1, <2>2
<1>4. \A d \in Bookings : Stays(d)
  BY <1>1, <1>2, <1>3 DEF Stays, EndsStand, binds
<1>5. \A t \in Movers : moving'[t] = moving[t] \/ moving'[t] = None
  BY <1>1
<1> QED  BY <1>1, <1>4, <1>5, NobodyMoves

LEMMA AdministrationBound ==
  ASSUME PlacesBound, PlacesInv', Administration, EndsStand, GroupsStand
  PROVE  PlacesBound'
<1>1. ASSUME NEW i \in Institutions,
             \/ \E y \in Types : createInstitution(i, y)
             \/ \E y \in Types : \E active \in BOOLEAN : updateInstitution(i, y, active)
             \/ deleteInstitution(i)
      PROVE  PlacesBound'
  <2>1. UNCHANGED <<date, group, child, booking, moving>>
    BY <1>1 DEF createInstitution, updateInstitution, deleteInstitution
  <2>2. \A b \in Bookings : Stays(b)
    BY <2>1, SameBookings
  <2>3. \A t \in Movers : moving'[t] = moving[t] \/ moving'[t] = None
    BY <2>1
  <2> QED  BY <2>1, <2>2, <2>3, NobodyMoves
<1> QED  BY <1>1, DeleteGroupBound, BookingBound DEF Administration

LEMMA AbandonBound ==
  ASSUME PlacesBound, PlacesInv', NEW t \in Movers, AbandonMove(t)
  PROVE  PlacesBound'
<1>1. EndMove(t) /\ UNCHANGED <<date, institution, group, child, booking>>
  BY DEF AbandonMove
<1>2. \A u \in Movers : moving'[u] = moving[u] \/ moving'[u] = None
  BY <1>1, Ended DEF PlacesBound
<1>3. \A b \in Bookings : Stays(b)
  BY <1>1, SameBookings
<1> QED  BY <1>1, <1>2, <1>3, NobodyMoves

LEMMA StepBound ==
  ASSUME PlacesBound, PlacesInv', NEW t \in Movers, Step(t)
  PROVE  PlacesBound'
BY BeginsBound, InsertGroupBound, LockChildrenBound, MoveGroupBound, InsertChildBound,
   LockChildBound, MoveChildBound, LockBookedBound, BookBound, AbandonBound DEF Step

LEMMA NextDateBound ==
  ASSUME PlacesBound, PlacesInv', NextDate
  PROVE  PlacesBound'
<1>1. date \in Int /\ date' = date + 1 /\ UNCHANGED <<group, child, booking, moving>>
  BY PlacesAssumption DEF NextDate, PlacesBound, PlacesInv, PlacesTypeOK, Dates
<1>2. ASSUME NEW b \in Bookings PROVE Stays(b)
  <2>1. ASSUME booking[b] # None, binds(b)' PROVE binds(b)
    <3>1. booking[b].to = None \/ booking[b].to \in Int
      BY <2>1, PlacesAssumption
         DEF PlacesBound, PlacesInv, PlacesTypeOK, BookingRows, Dates
    <3> QED  BY <1>1, <2>1, <3>1 DEF binds
  <2> QED  BY <1>1, <2>1 DEF Stays
<1>3. \A t \in Movers : moving'[t] = moving[t] \/ moving'[t] = None
  BY <1>1
<1> QED  BY <1>1, <1>2, <1>3, NobodyMoves

LEMMA NextBound ==
  ASSUME PlacesBound, [PlacesNext]_placeVars, [EndsStand /\ GroupsStand]_placeVars
  PROVE  PlacesBound'
<1>1. PlacesInv'
  BY NextPlaces DEF PlacesBound
<1>2. CASE UNCHANGED placeVars
  <2>1. UNCHANGED <<date, group, child, booking, moving>>
    BY <1>2 DEF placeVars
  <2>2. \A b \in Bookings : Stays(b)
    BY <2>1, SameBookings
  <2>3. \A t \in Movers : moving'[t] = moving[t] \/ moving'[t] = None
    BY <2>1
  <2> QED  BY <1>1, <2>1, <2>2, <2>3, NobodyMoves
<1>3. CASE PlacesNext /\ EndsStand /\ GroupsStand
  BY <1>1, <1>3, AdministrationBound, StepBound, NextDateBound DEF PlacesNext
<1> QED  BY <1>2, <1>3

LEMMA InitBound == PlacesInit => PlacesBound
<1> SUFFICES ASSUME PlacesInit PROVE PlacesBound
  OBVIOUS
<1>1. PlacesInv
  BY InitPlaces
<1> QED  BY <1>1 DEF PlacesInit, PlacesBound, BoundWhereTheyAre, MoversFree

(* A group is always of the kind of its institution, which exists: the     *)
(* institution is locked from the reading of its type to the writing of    *)
(* the group, and is neither deleted nor changed with groups in it.        *)
THEOREM KindsAlwaysMatch == PlacesSpec => []KindsMatch
BY InitPlaces, NextPlaces, PTL DEF PlacesSpec, PlacesInv

(* Every child is in the institution it is enrolled at and fed by, however *)
(* moves and bookings interleave, as long as what is over stays over and   *)
(* no group is deleted around a child that is bound: the two things that   *)
(* EnrollmentsService.end and GroupsService.delete do not look at.         *)
THEOREM ChildrenWhereTheyAre ==
  PlacesSpec /\ [][EndsStand /\ GroupsStand]_placeVars => []BookedWhereTheyAre
<1>1. PlacesBound => BookedWhereTheyAre
  BY DEF PlacesBound, PlacesInv, BookedWhereTheyAre
<1>2. PlacesBound /\ [PlacesNext]_placeVars /\ [EndsStand /\ GroupsStand]_placeVars
        => PlacesBound'
  BY NextBound
<1> QED  BY <1>1, <1>2, InitBound, PTL DEF PlacesSpec

-----------------------------------------------------------------------------
(* Tariffs, their enrollments and adaptation visits                        *)

(* A request that voids a visit has found it, and its charge if it does    *)
(* not void that one too was voided then, and stays so.                    *)
VoidersKnow ==
  \A t \in Savers : Saving(t, "void") =>
    LET v == saving[t].visit IN
    /\ visit[v] # None
    /\ ~saving[t].charge => visitCharge[v].voided

TariffsInv == TariffsTypeOK /\ VoidedVisitsCostNothing /\ VoidersKnow

LEMMA SavingTypes ==
  ASSUME TariffsTypeOK, NEW t \in Savers, saving[t] # None
  PROVE  /\ saving[t] \in SavingRows
         /\ saving[t].op \in {"delete", "link", "visit"} => saving[t].tariff \in TariffIds
         /\ saving[t].op = "update" =>
              /\ saving[t].tariff \in TariffIds /\ saving[t].moves \in BOOLEAN
              /\ saving[t].to \in [institution : Owners \cup {None}, active : BOOLEAN,
                                   mode : BillingModes]
         /\ saving[t].op = "void" =>
              saving[t].visit \in Visits /\ saving[t].charge \in BOOLEAN
<1>1. saving[t] \in SavingRows
  BY DEF TariffsTypeOK
<1> QED  BY <1>1 DEF SavingRows

LEMMA InitTariffs == TariffsInit => TariffsInv
BY TariffsAssumption
   DEF TariffsInit, TariffsInv, TariffsTypeOK, VoidedVisitsCostNothing, VoidersKnow, Saving

(* Requests come, and go without writing a visit.                          *)
LEMMA StartTariffs ==
  ASSUME TariffsInv, NEW t \in Savers, NEW r \in SavingRows, StartSave(t, r),
         r.op # "void", UNCHANGED <<tariff, link, visit, visitCharge>>
  PROVE  TariffsInv'
<1>1. saving' \in [Savers -> SavingRows \cup {None}]
  BY DEF TariffsInv, TariffsTypeOK, StartSave
<1>2. \A u \in Savers : saving'[u] = IF u = t THEN r ELSE saving[u]
  BY DEF TariffsInv, TariffsTypeOK, StartSave
<1>3. VoidersKnow'
  BY <1>2 DEF TariffsInv, VoidersKnow, Saving
<1> QED  BY <1>1, <1>3 DEF TariffsInv, TariffsTypeOK, VoidedVisitsCostNothing

LEMMA EndSaving ==
  ASSUME TariffsTypeOK, NEW t \in Savers, EndSave(t)
  PROVE  /\ saving' \in [Savers -> SavingRows \cup {None}]
         /\ \A u \in Savers : saving'[u] = IF u = t THEN None ELSE saving[u]
BY DEF TariffsTypeOK, EndSave

(* Tariffs change or go, and no visit does.                                *)
LEMMA TariffChanges ==
  ASSUME TariffsInv, tariff' \in [TariffIds -> TariffRows \cup {None}],
         link' \in [Links -> TariffIds \cup {None}],
         \A k \in TariffIds : tariff[k] # None /\ visitsOf(k) # {} => tariff'[k] # None,
         saving' \in [Savers -> SavingRows \cup {None}],
         \A t \in Savers : saving'[t] = saving[t] \/ saving'[t] = None,
         UNCHANGED <<visit, visitCharge>>
  PROVE  TariffsInv'
<1>1. TariffsTypeOK'
  BY DEF TariffsInv, TariffsTypeOK
<1>2. VoidersKnow'
  BY DEF TariffsInv, VoidersKnow, Saving
<1>3. \A v \in Visits : visit[v] # None => tariff'[visit[v].tariff] # None
  <2> SUFFICES ASSUME NEW v \in Visits, visit[v] # None
               PROVE  tariff'[visit[v].tariff] # None
    OBVIOUS
  <2>1. visit[v].tariff \in TariffIds /\ tariff[visit[v].tariff] # None
    BY DEF TariffsInv, TariffsTypeOK, VisitRows, VoidedVisitsCostNothing
  <2>2. v \in visitsOf(visit[v].tariff)
    BY DEF visitsOf
  <2> QED  BY <2>1, <2>2
<1>4. VoidedVisitsCostNothing'
  BY <1>3 DEF TariffsInv, VoidedVisitsCostNothing
<1> QED  BY <1>1, <1>2, <1>4 DEF TariffsInv

(* One visit and its charge change.                                        *)
LEMMA VisitChanges ==
  ASSUME TariffsInv, NEW v \in Visits, NEW row \in VisitRows, NEW paid \in VisitCharges,
         tariff[row.tariff] # None,
         row.voided => paid.voided,
         paid.voided => ~paid.allocated,
         visitCharge[v] # None /\ visitCharge[v].voided => paid.voided,
         visit' = [visit EXCEPT ![v] = row],
         visitCharge' = [visitCharge EXCEPT ![v] = paid],
         saving' \in [Savers -> SavingRows \cup {None}],
         \A t \in Savers : saving'[t] = saving[t] \/ saving'[t] = None,
         UNCHANGED <<tariff, link>>
  PROVE  TariffsInv'
<1>0. row # None /\ paid # None
  BY TariffsAssumption
<1>1. TariffsTypeOK'
  BY DEF TariffsInv, TariffsTypeOK
<1>2. \A w \in Visits : /\ visit'[w] = IF w = v THEN row ELSE visit[w]
                        /\ visitCharge'[w] = IF w = v THEN paid ELSE visitCharge[w]
  BY DEF TariffsInv, TariffsTypeOK
<1>3. VoidedVisitsCostNothing'
  BY <1>0, <1>2 DEF TariffsInv, VoidedVisitsCostNothing
<1>4. VoidersKnow'
  <2> SUFFICES ASSUME NEW t \in Savers, saving'[t] # None, saving'[t].op = "void"
               PROVE  /\ visit'[saving'[t].visit] # None
                      /\ ~saving'[t].charge => visitCharge'[saving'[t].visit].voided
    BY DEF VoidersKnow, Saving
  <2>1. saving'[t] = saving[t]
    OBVIOUS
  <2>2. saving[t].visit \in Visits
    BY <2>1, SavingTypes DEF TariffsInv
  <2>3. /\ visit[saving[t].visit] # None
        /\ ~saving[t].charge => visitCharge[saving[t].visit].voided
    BY <2>1 DEF TariffsInv, VoidersKnow, Saving
  <2>4. visitCharge[saving[t].visit] # None
    BY <2>2, <2>3 DEF TariffsInv, VoidedVisitsCostNothing
  <2> QED  BY <1>0, <1>2, <2>1, <2>2, <2>3, <2>4
<1> QED  BY <1>1, <1>3, <1>4 DEF TariffsInv

LEMMA BeginVoidTariffs ==
  ASSUME TariffsInv, NEW t \in Savers, NEW v \in Visits, BeginVoid(t, v)
  PROVE  TariffsInv'
<1>1. PICK r : r = [op |-> "void", visit |-> v, charge |-> ~visitCharge[v].voided]
  OBVIOUS
<1>2. r \in SavingRows /\ r.visit = v /\ (~r.charge => visitCharge[v].voided)
  <2>1. visitCharge[v] \in VisitCharges
    BY DEF TariffsInv, TariffsTypeOK, VoidedVisitsCostNothing, BeginVoid
  <2> QED  BY <1>1, <2>1 DEF VisitCharges, SavingRows
<1>3. /\ saving' \in [Savers -> SavingRows \cup {None}]
      /\ \A u \in Savers : saving'[u] = IF u = t THEN r ELSE saving[u]
  BY <1>1, <1>2 DEF TariffsInv, TariffsTypeOK, BeginVoid, StartSave
<1>4. VoidersKnow'
  BY <1>2, <1>3 DEF TariffsInv, VoidersKnow, Saving, BeginVoid
<1> QED
  BY <1>3, <1>4 DEF TariffsInv, TariffsTypeOK, VoidedVisitsCostNothing, BeginVoid

LEMMA VisitTariffs ==
  ASSUME TariffsInv, NEW t \in Savers, NEW v \in Visits, Visit(t, v)
  PROVE  TariffsInv'
<1>1. PICK row, paid : /\ row = [tariff |-> saving[t].tariff, voided |-> FALSE]
                       /\ paid = [voided |-> FALSE, allocated |-> FALSE]
  OBVIOUS
<1>2. saving[t].tariff \in TariffIds
  BY SavingTypes DEF TariffsInv, Visit, Saving
<1>3. row \in VisitRows /\ paid \in VisitCharges
  BY <1>1, <1>2 DEF VisitRows, VisitCharges
<1>4. visitCharge[v] = None
  BY DEF TariffsInv, VoidedVisitsCostNothing, Visit
<1>5. /\ saving' \in [Savers -> SavingRows \cup {None}]
      /\ \A u \in Savers : saving'[u] = saving[u] \/ saving'[u] = None
  BY EndSaving DEF TariffsInv, Visit
<1> QED  BY <1>1, <1>3, <1>4, <1>5, VisitChanges DEF Visit

LEMMA VoidTariffs ==
  ASSUME TariffsInv, NEW t \in Savers, Void(t)
  PROVE  TariffsInv'
<1>1. PICK v \in Visits : v = saving[t].visit
  BY SavingTypes DEF TariffsInv, Void, Saving
<1>2. visit[v] # None /\ (~saving[t].charge => visitCharge[v].voided)
  BY <1>1 DEF TariffsInv, VoidersKnow, Void
<1>3. visit[v] \in VisitRows /\ visitCharge[v] \in VisitCharges
      /\ tariff[visit[v].tariff] # None
      /\ (visitCharge[v].voided => ~visitCharge[v].allocated)
  BY <1>2 DEF TariffsInv, TariffsTypeOK, VoidedVisitsCostNothing
<1>4. PICK row : row = [visit[v] EXCEPT !.voided = TRUE]
  OBVIOUS
<1>5. PICK paid : paid = IF saving[t].charge THEN [voided |-> TRUE, allocated |-> FALSE]
                         ELSE visitCharge[v]
  OBVIOUS
<1>6. row \in VisitRows /\ row.tariff = visit[v].tariff
  BY <1>3, <1>4 DEF VisitRows
<1>7. paid \in VisitCharges /\ paid.voided /\ ~paid.allocated
  BY <1>2, <1>3, <1>5 DEF VisitCharges
<1>8. visit' = [visit EXCEPT ![v] = row]
  BY <1>1, <1>4 DEF Void
<1>9. visitCharge' = [visitCharge EXCEPT ![v] = paid]
  BY <1>1, <1>5 DEF Void, voidCharge, TariffsInv, TariffsTypeOK
<1>10. /\ saving' \in [Savers -> SavingRows \cup {None}]
       /\ \A u \in Savers : saving'[u] = saving[u] \/ saving'[u] = None
  BY EndSaving DEF TariffsInv, Void
<1>11. UNCHANGED <<tariff, link>>
  BY DEF Void
<1> QED  BY <1>3, <1>6, <1>7, <1>8, <1>9, <1>10, <1>11, VisitChanges

(* A charge is voided, or paid, on its own.                                *)
LEMMA ChargeTariffs ==
  ASSUME TariffsInv, NEW v \in Visits, VoidVisitCharge(v) \/ Allocate(v)
  PROVE  TariffsInv'
<1>1. visitCharge[v] # None /\ ~visitCharge[v].voided
  BY DEF VoidVisitCharge, voidCharge, Allocate
<1>2. /\ visit[v] \in VisitRows /\ visitCharge[v] \in VisitCharges
      /\ tariff[visit[v].tariff] # None /\ ~visit[v].voided
  BY <1>1 DEF TariffsInv, TariffsTypeOK, VoidedVisitsCostNothing
<1>3. PICK row : row = visit[v]
  OBVIOUS
<1>4. visit' = [visit EXCEPT ![v] = row]
  BY <1>3 DEF VoidVisitCharge, Allocate, TariffsInv, TariffsTypeOK
<1>5. /\ saving' \in [Savers -> SavingRows \cup {None}]
      /\ \A u \in Savers : saving'[u] = saving[u] \/ saving'[u] = None
  BY DEF VoidVisitCharge, Allocate, TariffsInv, TariffsTypeOK
<1>6. UNCHANGED <<tariff, link>>
  BY DEF VoidVisitCharge, Allocate
<1>7. CASE VoidVisitCharge(v)
  <2>1. PICK paid : paid = [voided |-> TRUE, allocated |-> FALSE]
    OBVIOUS
  <2>2. paid \in VisitCharges /\ paid.voided /\ ~paid.allocated
    BY <2>1 DEF VisitCharges
  <2>3. visitCharge' = [visitCharge EXCEPT ![v] = paid]
    BY <1>7, <2>1 DEF VoidVisitCharge, voidCharge
  <2> QED  BY <1>2, <1>3, <1>4, <1>5, <1>6, <2>2, <2>3, VisitChanges
<1>8. CASE Allocate(v)
  <2>1. PICK paid : paid = [visitCharge[v] EXCEPT !.allocated = TRUE]
    OBVIOUS
  <2>2. paid \in VisitCharges /\ ~paid.voided
    BY <2>1, <1>1, <1>2 DEF VisitCharges
  <2>3. visitCharge' = [visitCharge EXCEPT ![v] = paid]
    BY <1>8, <2>1 DEF Allocate
  <2> QED  BY <1>1, <1>2, <1>3, <1>4, <1>5, <1>6, <2>2, <2>3, VisitChanges
<1> QED  BY <1>7, <1>8

LEMMA CatalogueTariffs ==
  ASSUME TariffsInv, NEW k \in TariffIds, Catalogue(k)
  PROVE  TariffsInv'
<1>0. TariffsTypeOK
  BY DEF TariffsInv
<1>1. ASSUME NEW day \in PriceDays, addPrice(k, day) PROVE TariffsInv'
  <2>1. PICK row : row = [tariff[k] EXCEPT !.prices = @ \cup {day}]
    OBVIOUS
  <2>2. row \in TariffRows /\ row # None
    BY <1>0, <1>1, <2>1, TariffsAssumption DEF addPrice, TariffsTypeOK, TariffRows
  <2>3. tariff' = [tariff EXCEPT ![k] = row]
    BY <1>1, <2>1 DEF addPrice
  <2> QED  BY <1>0, <1>1, <2>2, <2>3, TariffChanges DEF addPrice, TariffsTypeOK
<1>2. ASSUME NEW day \in PriceDays, NEW i \in Owners \cup {None}, NEW mode \in BillingModes,
             create(k, i, mode, day)
      PROVE  TariffsInv'
  <2>1. PICK row : row = [institution |-> i, active |-> TRUE, mode |-> mode, prices |-> {day}]
    OBVIOUS
  <2>2. {day} \in SUBSET PriceDays
    OBVIOUS
  <2>2a. row \in TariffRows
    BY <2>1, <2>2 DEF TariffRows
  <2>2b. row # None
    BY <2>2a, TariffsAssumption
  <2>3. tariff' = [tariff EXCEPT ![k] = row]
    BY <1>2, <2>1 DEF create
  <2> QED  BY <1>0, <1>2, <2>2a, <2>2b, <2>3, TariffChanges DEF create, TariffsTypeOK
<1>3. ASSUME NEW t \in Savers, BeginDelete(t, k) PROVE TariffsInv'
  <2>1. PICK r : r = [op |-> "delete", tariff |-> k]
    OBVIOUS
  <2>2. r \in SavingRows /\ r.op # "void"
    BY <2>1 DEF SavingRows
  <2> QED  BY <1>3, <2>1, <2>2, StartTariffs DEF BeginDelete
<1>4. ASSUME NEW t \in Savers, NEW i \in Owners \cup {None}, NEW active \in BOOLEAN,
             NEW mode \in BillingModes, BeginUpdate(t, k, i, active, mode)
      PROVE  TariffsInv'
  <2>1. PICK r : r = [op |-> "update", tariff |-> k, to |->
                        [institution |-> i, active |-> active, mode |-> mode],
                      moves |-> i # tariff[k].institution]
    OBVIOUS
  <2>2. r \in SavingRows /\ r.op # "void"
    BY <2>1 DEF SavingRows
  <2> QED  BY <1>4, <2>1, <2>2, StartTariffs DEF BeginUpdate
<1> QED  BY <1>1, <1>2, <1>3, <1>4 DEF Catalogue

LEMMA UseTariffs ==
  ASSUME TariffsInv, NEW t \in Savers, Use(t)
  PROVE  TariffsInv'
<1>0. TariffsTypeOK
  BY DEF TariffsInv
<1>1. ASSUME NEW k \in TariffIds, NEW i \in Owners, BeginLink(t, k, i) PROVE TariffsInv'
  <2>1. PICK r : r = [op |-> "link", tariff |-> k]
    OBVIOUS
  <2>2. r \in SavingRows /\ r.op # "void"
    BY <2>1 DEF SavingRows
  <2> QED  BY <1>1, <2>1, <2>2, StartTariffs DEF BeginLink
<1>2. ASSUME NEW k \in TariffIds, NEW i \in Owners, NEW day \in PriceDays,
             NEW ownRate \in BOOLEAN, BeginVisit(t, k, i, day, ownRate)
      PROVE  TariffsInv'
  <2>1. PICK r : r = [op |-> "visit", tariff |-> k]
    OBVIOUS
  <2>2. r \in SavingRows /\ r.op # "void"
    BY <2>1 DEF SavingRows
  <2> QED  BY <1>2, <2>1, <2>2, StartTariffs DEF BeginVisit
<1>3. ASSUME NEW l \in Links, Link(t, l) PROVE TariffsInv'
  <2>1. saving[t].tariff \in TariffIds
    BY <1>0, <1>3, SavingTypes DEF Link, Saving
  <2>2. link' \in [Links -> TariffIds \cup {None}]
    BY <1>0, <1>3, <2>1 DEF Link, TariffsTypeOK
  <2>3. /\ saving' \in [Savers -> SavingRows \cup {None}]
        /\ \A u \in Savers : saving'[u] = saving[u] \/ saving'[u] = None
    BY <1>0, <1>3, EndSaving DEF Link
  <2> QED  BY <1>0, <1>3, <2>2, <2>3, TariffChanges DEF Link, TariffsTypeOK
<1> QED  BY <1>1, <1>2, <1>3, VisitTariffs, BeginVoidTariffs DEF Use

LEMMA UpdateTariffs ==
  ASSUME TariffsInv, NEW t \in Savers, Update(t)
  PROVE  TariffsInv'
<1>0. TariffsTypeOK
  BY DEF TariffsInv
<1>1. PICK s : s = saving[t]
  OBVIOUS
<1>2. s.tariff \in TariffIds
      /\ s.to \in [institution : Owners \cup {None}, active : BOOLEAN, mode : BillingModes]
  BY <1>0, <1>1, SavingTypes DEF Update, Saving
<1>3. PICK old \in TariffRows : old = tariff[s.tariff]
  BY <1>0, <1>1, <1>2 DEF Update, TariffsTypeOK
<1>4. PICK row : row = [old EXCEPT !.active = s.to.active, !.mode = s.to.mode,
                        !.institution = IF s.moves THEN s.to.institution ELSE @]
  OBVIOUS
<1>5. row \in TariffRows /\ row # None
  <2>1. PICK to : to = s.to
    OBVIOUS
  <2>2. PICK i \in Owners \cup {None} :
          i = IF s.moves THEN to.institution ELSE old.institution
    BY <1>2, <1>3, <2>1 DEF TariffRows
  <2>3. row = [institution |-> i, active |-> to.active, mode |-> to.mode,
               prices |-> old.prices]
    BY <1>3, <1>4, <2>1, <2>2 DEF TariffRows
  <2>4. to.active \in BOOLEAN /\ to.mode \in BillingModes
        /\ old.prices \in SUBSET PriceDays
    BY <1>2, <1>3, <2>1 DEF TariffRows
  <2>5. row \in TariffRows
    BY <2>2, <2>3, <2>4 DEF TariffRows
  <2> QED  BY <2>5, TariffsAssumption
<1>6. tariff' = [tariff EXCEPT ![s.tariff] = row]
  BY <1>1, <1>3, <1>4 DEF Update
<1>7. /\ saving' \in [Savers -> SavingRows \cup {None}]
      /\ \A u \in Savers : saving'[u] = saving[u] \/ saving'[u] = None
  BY <1>0, EndSaving DEF Update
<1>8. \A k \in TariffIds : tariff'[k] = IF k = s.tariff THEN row ELSE tariff[k]
  BY <1>0, <1>6 DEF TariffsTypeOK
<1>9. tariff' \in [TariffIds -> TariffRows \cup {None}]
  BY <1>0, <1>5, <1>6 DEF TariffsTypeOK
<1>10. \A k \in TariffIds : tariff[k] # None => tariff'[k] # None
  BY <1>5, <1>8
<1>11. UNCHANGED <<link, visit, visitCharge>>
  BY DEF Update
<1>12. link' \in [Links -> TariffIds \cup {None}]
  BY <1>0, <1>11 DEF TariffsTypeOK
<1> QED  BY <1>7, <1>9, <1>10, <1>11, <1>12, TariffChanges

LEMMA DeleteTariffs ==
  ASSUME TariffsInv, NEW t \in Savers, Delete(t)
  PROVE  TariffsInv'
<1>0. TariffsTypeOK
  BY DEF TariffsInv
<1>1. saving[t].tariff \in TariffIds
  BY <1>0, SavingTypes DEF Delete, Saving
<1>2. visitsOf(saving[t].tariff) = {}
  BY DEF Delete, inUse
<1>3. /\ saving' \in [Savers -> SavingRows \cup {None}]
      /\ \A u \in Savers : saving'[u] = saving[u] \/ saving'[u] = None
  BY <1>0, EndSaving DEF Delete
<1>4. /\ tariff' = [tariff EXCEPT ![saving[t].tariff] = None]
      /\ UNCHANGED <<link, visit, visitCharge>>
  BY DEF Delete
<1>5. \A k \in TariffIds : tariff[k] # None /\ visitsOf(k) # {} => tariff'[k] # None
  BY <1>0, <1>1, <1>2, <1>4 DEF TariffsTypeOK
<1> QED  BY <1>0, <1>1, <1>3, <1>4, <1>5, TariffChanges DEF TariffsTypeOK

LEMMA NextTariffs == TariffsInv /\ [TariffsNext]_tariffVars => TariffsInv'
<1> SUFFICES ASSUME TariffsInv, [TariffsNext]_tariffVars PROVE TariffsInv'
  OBVIOUS
<1>0. TariffsTypeOK
  BY DEF TariffsInv
<1>1. ASSUME NEW t \in Savers, AbandonSave(t) PROVE TariffsInv'
  <2>1. /\ saving' \in [Savers -> SavingRows \cup {None}]
        /\ \A u \in Savers : saving'[u] = saving[u] \/ saving'[u] = None
    BY <1>0, <1>1, EndSaving DEF AbandonSave
  <2> QED  BY <1>0, <1>1, <2>1, TariffChanges DEF AbandonSave, TariffsTypeOK
<1>2. ASSUME NEW l \in Links, unlink(l) PROVE TariffsInv'
  BY <1>0, <1>2, TariffChanges DEF unlink, TariffsTypeOK
<1>3. ASSUME UNCHANGED tariffVars PROVE TariffsInv'
  BY <1>0, <1>3, TariffChanges DEF tariffVars, TariffsTypeOK
<1> QED
  BY <1>1, <1>2, <1>3, CatalogueTariffs, UseTariffs, UpdateTariffs, DeleteTariffs,
     VoidTariffs, ChargeTariffs DEF TariffsNext

(* The variables of the tariffs have their types.                          *)
THEOREM TariffsTypeCorrect == TariffsSpec => []TariffsTypeOK
BY InitTariffs, NextTariffs, PTL DEF TariffsSpec, TariffsInv

(***************************************************************************)
(* A visit that is voided has a voided charge and nothing paid for it,     *)
(* although AdaptationService.void reads both before it locks either and   *)
(* the charge may be voided or paid meanwhile, and the tariff of a visit   *)
(* is never deleted between its check and its insert.                      *)
(***************************************************************************)
THEOREM VisitsCostNothing == TariffsSpec => []VoidedVisitsCostNothing
BY InitTariffs, NextTariffs, PTL DEF TariffsSpec, TariffsInv

-----------------------------------------------------------------------------
(* Routines                                                                *)

LEMMA LeastNatural ==
  ASSUME NEW S \in SUBSET Nat, S # {}
  PROVE  \E n \in S : \A m \in S : n <= m
<1> DEFINE R == OpToRel(<, Nat)
<1>1. \A m, n \in Nat : m < n => <<m, n>> \in R
  BY DEF OpToRel
<1>2. IsWellFoundedOn(R, Nat)
  BY NatLessThanWellFounded
<1> HIDE DEF R
<1>3. PICK n \in S : \A m \in S : <<m, n>> \notin R
  BY <1>2, WFMin
<1>4. \A m \in S : ~(m < n)
  BY <1>1, <1>3
<1> QED
  BY <1>4

-----------------------------------------------------------------------------
(* The versions of one group                                               *)

VersionLists == [RoutineDays -> VersionRows \cup {None}]

(* VersionsTile, of one group                                              *)
Tile(versions) ==
  \A s \in starts(versions) :
    LET to == versions[s].to IN
    IF to = None THEN \A r \in starts(versions) : r <= s
    ELSE /\ s <= to
         /\ to + 1 \in starts(versions)
         /\ \A r \in starts(versions) : r <= s \/ r > to

Tiled(versions) == versions \in VersionLists /\ Tile(versions)

LEMMA Rows ==
  ASSUME NEW versions \in VersionLists, NEW s \in starts(versions)
  PROVE  /\ s \in Int /\ s \in RoutineDays
         /\ versions[s] \in VersionRows
         /\ versions[s].to = None \/ versions[s].to \in Int
         /\ versions[s].items \in Contents
BY RoutineAssumption DEF starts, VersionLists, VersionRows, RoutineDays

(* There is one next version where a version starts later.                 *)
LEMMA NextOne ==
  ASSUME NEW versions \in VersionLists, NEW day \in RoutineDays,
         NEW s \in starts(versions), s > day
  PROVE  \E n \in starts(versions) :
           /\ next(versions, day) = {n}
           /\ n > day /\ \A r \in starts(versions) : r > day => n <= r
<1> DEFINE Later == {r \in starts(versions) : r > day}
<1>1. Later \in SUBSET Nat /\ Later # {} /\ day \in Int
  BY RoutineAssumption DEF starts, RoutineDays
<1>2. PICK n \in Later : \A r \in Later : n <= r
  BY <1>1, LeastNatural
<1>3. \A r \in starts(versions) : r > day => n <= r
  BY <1>2
<1>4. next(versions, day) \subseteq {n}
  <2> SUFFICES ASSUME NEW r \in next(versions, day) PROVE r = n
    OBVIOUS
  <2>1. r \in Later /\ r <= n /\ n <= r
    BY <1>2 DEF next
  <2> QED  BY <2>1, <1>1
<1>5. n \in next(versions, day)
  BY <1>2 DEF next
<1> QED  BY <1>2, <1>3, <1>4, <1>5

(* What the new version and the one before it look like.                   *)
LEMMA Inserted ==
  ASSUME NEW versions \in VersionLists, NEW from \in RoutineDays,
         NEW items \in Contents, versions[from] = None,
         NEW new, new = insertVersion(versions, from, items)
  PROVE  /\ new \in VersionLists
         /\ starts(new) = starts(versions) \cup {from}
         /\ from \notin starts(versions)
         /\ new[from].items = items
         /\ next(versions, from) = {} =>
              /\ new[from].to = None
              /\ \A r \in starts(versions) : r < from
         /\ next(versions, from) # {} =>
              \E n \in starts(versions) :
                /\ new[from].to = n - 1 /\ next(versions, from) = {n}
                /\ n > from /\ \A r \in starts(versions) : r > from => n <= r
         /\ \A d \in RoutineDays \ {from} :
              new[d] = IF d \in versionOn(versions, from)
                       THEN [versions[d] EXCEPT !.to = from - 1]
                       ELSE versions[d]
         /\ \A d \in versionOn(versions, from) :
              /\ d \in starts(versions) /\ d < from
              /\ new[d].to = from - 1 /\ new[d].items = versions[d].items
<1> DEFINE Last == IF next(versions, from) = {} THEN None
                   ELSE (CHOOSE s \in next(versions, from) : TRUE) - 1
           Row == [to |-> Last, items |-> items]
           Closed(d) == [versions[d] EXCEPT !.to = from - 1]
<1>0. from \in Int /\ from - 1 \in 0..LastRoutineDay /\ from \notin starts(versions)
  BY RoutineAssumption DEF starts, RoutineDays
<1>1. ASSUME next(versions, from) # {}
      PROVE  \E n \in starts(versions) :
                /\ Last = n - 1 /\ next(versions, from) = {n}
                /\ n > from /\ \A r \in starts(versions) : r > from => n <= r
  <2>1. PICK s \in next(versions, from) : s \in starts(versions) /\ s > from
    BY <1>1 DEF next
  <2>2. PICK n \in starts(versions) :
           /\ next(versions, from) = {n}
           /\ n > from /\ \A r \in starts(versions) : r > from => n <= r
    BY <2>1, NextOne
  <2> QED  BY <2>2
<1>2. Last \in 0..LastRoutineDay \cup {None}
  <2>1. CASE next(versions, from) = {}
    BY <2>1
  <2>2. CASE next(versions, from) # {}
    <3>1. PICK n \in starts(versions) : Last = n - 1 /\ n > from
      BY <2>2, <1>1
    <3>2. n \in RoutineDays /\ from \in RoutineDays /\ LastRoutineDay \in Nat
      BY <3>1, RoutineAssumption DEF starts
    <3>3. n - 1 \in 0..LastRoutineDay
      BY <3>1, <3>2 DEF RoutineDays
    <3> QED  BY <3>1, <3>3
  <2> QED  BY <2>1, <2>2
<1>3. Row \in VersionRows /\ Row.to = Last /\ Row.items = items
  BY <1>2 DEF VersionRows
<1>4. ASSUME NEW d \in versionOn(versions, from)
      PROVE  /\ d \in starts(versions) /\ d < from /\ d \in RoutineDays
             /\ Closed(d) \in VersionRows
             /\ Closed(d).to = from - 1 /\ Closed(d).items = versions[d].items
  <2>1. d \in starts(versions) /\ d <= from
    BY DEF versionOn
  <2>2. d \in RoutineDays /\ versions[d] \in VersionRows /\ d \in Int
    BY <2>1, Rows
  <2>3. d # from
    BY <2>1, <1>0
  <2> QED  BY <2>1, <2>2, <2>3, <1>0 DEF VersionRows
<1> HIDE DEF Last, Row, Closed
<1>5. new = [d \in RoutineDays |->
               IF d = from THEN Row
               ELSE IF d \in versionOn(versions, from) THEN Closed(d)
               ELSE versions[d]]
  BY DEF insertVersion, Row, Last, Closed
<1>6. new \in VersionLists
  BY <1>5, <1>3, <1>4 DEF VersionLists
<1>7. starts(new) = starts(versions) \cup {from}
  BY <1>5, <1>3, <1>4, RoutineAssumption DEF starts, VersionLists
<1>8. new[from] = Row
  BY <1>5
<1>9. ASSUME next(versions, from) = {}
      PROVE  Last = None /\ \A r \in starts(versions) : r < from
  <2>1. \A r \in starts(versions) : ~(r > from)
    BY <1>9, NextOne
  <2> QED  BY <2>1, <1>9, <1>0, Rows DEF Last
<1>10. \A d \in RoutineDays \ {from} :
         new[d] = IF d \in versionOn(versions, from) THEN Closed(d) ELSE versions[d]
  BY <1>5
<1>11. \A d \in versionOn(versions, from) :
              /\ d \in starts(versions) /\ d < from
              /\ new[d].to = from - 1 /\ new[d].items = versions[d].items
  <2> SUFFICES ASSUME NEW d \in versionOn(versions, from)
               PROVE  /\ d \in starts(versions) /\ d < from
                      /\ new[d].to = from - 1 /\ new[d].items = versions[d].items
    OBVIOUS
  <2>1. d \in RoutineDays \ {from}
    BY <1>4, <1>0
  <2> QED  BY <2>1, <1>4, <1>10
<1> QED
  BY <1>0, <1>1, <1>3, <1>6, <1>7, <1>8, <1>9, <1>10, <1>11 DEF Closed

(* A version starts and ends where the others leave off.                   *)
LEMMA InsertTiles ==
  ASSUME NEW versions, Tiled(versions), NEW from \in RoutineDays,
         NEW items \in Contents, versions[from] = None
  PROVE  Tiled(insertVersion(versions, from, items))
<1> DEFINE on == versionOn(versions, from)
<1>1. PICK new : new = insertVersion(versions, from, items)
  OBVIOUS
<1>2. versions \in VersionLists
  BY DEF Tiled
<1>3. /\ new \in VersionLists
      /\ starts(new) = starts(versions) \cup {from}
      /\ from \in Int /\ from \notin starts(versions)
  BY <1>1, <1>2, Inserted DEF RoutineDays
<1>4. from \in starts(new)
  BY <1>3
<1>5. SUFFICES ASSUME NEW s \in starts(new)
               PROVE  IF new[s].to = None THEN \A r \in starts(new) : r <= s
                      ELSE /\ s <= new[s].to
                           /\ new[s].to + 1 \in starts(new)
                           /\ \A r \in starts(new) : r <= s \/ r > new[s].to
  BY <1>1, <1>3 DEF Tiled, Tile
<1>6. \A r \in starts(versions) : r \in Int
  BY <1>2, Rows
<1>7. CASE s = from
  <2>1. CASE next(versions, from) = {}
    <3>1. new[from].to = None /\ \A r \in starts(versions) : r < from
      BY <2>1, <1>1, <1>2, Inserted
    <3> QED  BY <3>1, <1>3, <1>6, <1>7
  <2>2. CASE next(versions, from) # {}
    <3>1. PICK n \in starts(versions) :
             /\ new[from].to = n - 1
             /\ n > from /\ \A r \in starts(versions) : r > from => n <= r
      BY <2>2, <1>1, <1>2, Inserted
    <3>2. n \in Int /\ n \in RoutineDays /\ n - 1 # None
      BY <3>1, <1>2, Rows, RoutineAssumption DEF RoutineDays
    <3>3. new[from].to + 1 = n
      BY <3>1, <3>2
    <3> QED  BY <3>1, <3>2, <3>3, <1>3, <1>6, <1>7
  <2> QED  BY <2>1, <2>2
<1>8. CASE s \in on
  <2>1. s < from /\ new[s].to = from - 1 /\ s \in starts(versions)
    BY <1>8, <1>1, <1>2, Inserted
  <2>2. from - 1 # None /\ (from - 1) + 1 = from
    BY <1>3, RoutineAssumption DEF RoutineDays
  <2>3. versions[s].to = None \/ from <= versions[s].to
    BY <1>8 DEF versionOn
  <2>4. \A r \in starts(versions) : r <= s \/ r > from - 1
    BY <2>1, <2>3, <1>2, <1>3, <1>6, Rows DEF Tiled, Tile
  <2> QED  BY <2>1, <2>2, <2>4, <1>3, <1>6
<1>9. CASE s # from /\ s \notin on
  <2>1. s \in starts(versions) /\ s \in RoutineDays \ {from}
    BY <1>9, <1>3, <1>2, Rows
  <2>2. new[s] = versions[s]
    <3>1. \A d \in RoutineDays \ {from} :
            new[d] = IF d \in on THEN [versions[d] EXCEPT !.to = from - 1]
                     ELSE versions[d]
      BY <1>1, <1>2, Inserted
    <3> HIDE DEF on
    <3> QED  BY <3>1, <2>1, <1>9
  <2>3. s > from \/ (versions[s].to # None /\ versions[s].to < from)
    BY <2>1, <1>9, <1>2, <1>3, Rows DEF versionOn
  <2>4. IF versions[s].to = None THEN \A r \in starts(versions) : r <= s
        ELSE /\ s <= versions[s].to
             /\ versions[s].to + 1 \in starts(versions)
             /\ \A r \in starts(versions) : r <= s \/ r > versions[s].to
    BY <2>1 DEF Tiled, Tile
  <2>5. versions[s].to = None \/ versions[s].to \in Int
    BY <2>1, <1>2, Rows
  <2>6. CASE versions[s].to = None
    <3>1. \A r \in starts(versions) : r <= s
      BY <2>4, <2>6
    <3> QED  BY <2>1, <2>2, <2>3, <2>6, <3>1, <1>3, <1>6
  <2>7. CASE versions[s].to # None
    <3>1. /\ s <= versions[s].to
          /\ versions[s].to + 1 \in starts(versions)
          /\ \A r \in starts(versions) : r <= s \/ r > versions[s].to
      BY <2>4, <2>7
    <3> QED  BY <2>1, <2>2, <2>3, <2>5, <2>7, <3>1, <1>3, <1>6
  <2> QED  BY <2>6, <2>7
<1> QED  BY <1>7, <1>8, <1>9

(* What is left after a version is deleted.                                *)
LEMMA RemoveTiles ==
  ASSUME NEW versions, Tiled(versions), NEW from \in starts(versions)
  PROVE  Tiled(removeVersion(versions, from))
<1> DEFINE Before == previous(versions, from)
           Longer(d) == [versions[d] EXCEPT !.to = versions[from].to]
<1>1. PICK new : new = removeVersion(versions, from)
  OBVIOUS
<1>2. versions \in VersionLists
  BY DEF Tiled
<1>3. \A r \in starts(versions) :
        /\ r \in Int /\ r \in RoutineDays
        /\ versions[r] \in VersionRows
        /\ versions[r].to = None \/ versions[r].to \in Int
  BY <1>2, Rows
<1>4. ASSUME NEW p \in Before
      PROVE  /\ p \in starts(versions) /\ p < from
             /\ \A r \in starts(versions) : r < from => r <= p
             /\ Longer(p) \in VersionRows /\ Longer(p).to = versions[from].to
  BY <1>3 DEF previous, VersionRows
<1> HIDE DEF Longer
<1>5. new = [d \in RoutineDays |->
               IF d = from THEN None
               ELSE IF d \in Before THEN Longer(d) ELSE versions[d]]
  BY <1>1 DEF removeVersion, Longer
<1>6. new \in VersionLists
  BY <1>2, <1>4, <1>5 DEF VersionLists
<1>7. starts(new) = starts(versions) \ {from}
  BY <1>4, <1>5, RoutineAssumption DEF starts
<1>8. SUFFICES ASSUME NEW s \in starts(new)
               PROVE  IF new[s].to = None THEN \A r \in starts(new) : r <= s
                      ELSE /\ s <= new[s].to
                           /\ new[s].to + 1 \in starts(new)
                           /\ \A r \in starts(new) : r <= s \/ r > new[s].to
  BY <1>1, <1>6 DEF Tiled, Tile
<1>9. s \in starts(versions) /\ s # from /\ s \in RoutineDays /\ s \in Int
  BY <1>7, <1>3
<1>10. \A t \in starts(versions) :
        IF versions[t].to = None THEN \A r \in starts(versions) : r <= t
        ELSE /\ t <= versions[t].to
             /\ versions[t].to + 1 \in starts(versions)
             /\ \A r \in starts(versions) : r <= t \/ r > versions[t].to
  BY DEF Tiled, Tile
<1>11. CASE s \in Before
  <2>1. new[s].to = versions[from].to
    BY <1>11, <1>4, <1>5, <1>9
  <2>2. s < from /\ \A r \in starts(versions) : r < from => r <= s
    BY <1>11, <1>4
  <2> QED  BY <2>1, <2>2, <1>3, <1>7, <1>10
<1>12. CASE s \notin Before
  <2>1. new[s] = versions[s]
    BY <1>12, <1>5, <1>9
  <2>2. versions[s].to # None => versions[s].to + 1 # from
    <3> SUFFICES ASSUME versions[s].to # None, versions[s].to + 1 = from PROVE FALSE
      OBVIOUS
    <3>1. s <= versions[s].to /\ \A r \in starts(versions) : r <= s \/ r > versions[s].to
      BY <1>9, <1>10
    <3>2. versions[s].to \in Int /\ versions[s].to = from - 1 /\ from \in Int
      BY <1>3, <1>9
    <3>3. s < from /\ \A r \in starts(versions) : r < from => r <= s
      BY <3>1, <3>2, <1>3, <1>9
    <3> QED  BY <3>3, <1>9, <1>12 DEF previous
  <2> QED  BY <2>1, <2>2, <1>3, <1>7, <1>9, <1>10
<1> QED  BY <1>11, <1>12

(* The version of a day is the last one that starts by then.               *)
LEMMA OnPrevious ==
  ASSUME NEW versions, Tiled(versions), NEW day \in RoutineDays,
         day \notin starts(versions)
  PROVE  /\ versionOn(versions, day) = previous(versions, day)
         /\ \A s \in previous(versions, day) :
              IF next(versions, day) = {} THEN versions[s].to = None
              ELSE \A n \in next(versions, day) : versions[s].to = n - 1
<1>1. \A r \in starts(versions) :
        r \in Int /\ (versions[r].to = None \/ versions[r].to \in Int)
  BY Rows DEF Tiled
<1>2. \A t \in starts(versions) :
        IF versions[t].to = None THEN \A r \in starts(versions) : r <= t
        ELSE /\ t <= versions[t].to
             /\ versions[t].to + 1 \in starts(versions)
             /\ \A r \in starts(versions) : r <= t \/ r > versions[t].to
  BY DEF Tiled, Tile
<1>3. day \in Int
  BY DEF RoutineDays
<1>4. ASSUME NEW s \in versionOn(versions, day) PROVE s \in previous(versions, day)
  <2>1. s \in starts(versions) /\ s <= day
        /\ (versions[s].to = None \/ day <= versions[s].to)
    BY DEF versionOn
  <2>2. s < day
    BY <2>1, <1>1, <1>3
  <2>3. \A r \in starts(versions) : r < day => r <= s
    BY <2>1, <1>1, <1>2, <1>3
  <2> QED  BY <2>1, <2>2, <2>3 DEF previous
<1>5. ASSUME NEW s \in previous(versions, day)
      PROVE  /\ s \in versionOn(versions, day)
             /\ IF next(versions, day) = {} THEN versions[s].to = None
                ELSE \A n \in next(versions, day) : versions[s].to = n - 1
  <2>1. s \in starts(versions) /\ s < day
        /\ \A r \in starts(versions) : r < day => r <= s
    BY DEF previous
  <2>2. ASSUME versions[s].to # None
        PROVE  /\ versions[s].to >= day
               /\ versions[s].to + 1 \in starts(versions)
               /\ versions[s].to + 1 > day
    BY <2>1, <2>2, <1>1, <1>2, <1>3
  <2>2a. s \in versionOn(versions, day)
    BY <2>1, <2>2, <1>1, <1>3 DEF versionOn
  <2>3. CASE next(versions, day) = {}
    <3>1. \A r \in starts(versions) : ~(r > day)
      BY <2>3, NextOne DEF Tiled
    <3> QED  BY <3>1, <2>2, <2>2a, <2>3
  <2>4. CASE next(versions, day) # {}
    <3> SUFFICES ASSUME NEW n \in next(versions, day) PROVE versions[s].to = n - 1
      BY <2>2a, <2>4
    <3>1. n \in starts(versions) /\ n > day
          /\ \A r \in starts(versions) : r > day => n <= r
      BY DEF next
    <3>2. versions[s].to # None
      BY <3>1, <2>1, <1>1, <1>2, <1>3
    <3>3. n <= versions[s].to + 1
      BY <3>1, <3>2, <2>2
    <3>4. n > versions[s].to
      BY <3>1, <3>2, <2>1, <1>1, <1>2, <1>3
    <3> QED  BY <3>1, <3>2, <3>3, <3>4, <1>1, <2>1
  <2> QED  BY <2>3, <2>4
<1> QED  BY <1>4, <1>5

(* Days before the new version and from the one after it stay as they are. *)
LEMMA InsertKeepsDays ==
  ASSUME NEW versions, Tiled(versions), NEW from \in RoutineDays,
         NEW items \in Contents, versions[from] = None, NEW day \in RoutineDays,
         day < from \/ (\E n \in next(versions, from) : day >= n)
  PROVE  versionOn(insertVersion(versions, from, items), day)
           = versionOn(versions, day)
<1> DEFINE on == versionOn(versions, from)
<1>1. PICK new : new = insertVersion(versions, from, items)
  OBVIOUS
<1>2. versions \in VersionLists /\ from \in Int /\ day \in Int
  BY DEF Tiled, RoutineDays
<1>3. /\ starts(new) = starts(versions) \cup {from}
      /\ from \notin starts(versions)
      /\ \A d \in on : d \in starts(versions) /\ d < from /\ new[d].to = from - 1
  BY <1>1, <1>2, Inserted
<1>4. ASSUME NEW s \in starts(versions), s \notin on PROVE new[s] = versions[s]
  <2>1. \A d \in RoutineDays \ {from} :
          new[d] = IF d \in on THEN [versions[d] EXCEPT !.to = from - 1]
                   ELSE versions[d]
    BY <1>1, <1>2, Inserted
  <2>2. s \in RoutineDays \ {from}
    BY <1>2, <1>3, Rows
  <2> HIDE DEF on
  <2> QED  BY <2>1, <2>2, <1>4
<1>5. \A r \in starts(versions) :
        r \in Int /\ (versions[r].to = None \/ versions[r].to \in Int)
  BY <1>2, Rows
<1>6. ASSUME NEW n \in next(versions, from), day >= n
      PROVE  /\ n \in Int /\ n > from /\ new[from].to = n - 1
             /\ \A s \in on : versions[s].to = n - 1
  <2>1. n \in starts(versions) /\ n > from
    BY DEF next
  <2>2. \E m \in starts(versions) :
          new[from].to = m - 1 /\ next(versions, from) = {m}
    BY <1>1, <1>2, <1>6, Inserted
  <2>3. new[from].to = n - 1
    BY <2>2
  <2>4. \A s \in on : versions[s].to = n - 1
    BY <1>3, <1>6, OnPrevious
  <2> QED  BY <2>1, <2>3, <2>4, <1>5
<1>7. from - 1 # None /\ from - 1 \in Int
  BY <1>2, RoutineAssumption DEF RoutineDays
<1>8. from \notin versionOn(new, day)
  <2>1. CASE day < from
    BY <2>1, <1>2 DEF versionOn
  <2>2. ASSUME NEW n \in next(versions, from), day >= n
        PROVE  from \notin versionOn(new, day)
    <3>1. n \in Int /\ n > from /\ new[from].to = n - 1 /\ n - 1 # None
      <4>1. n \in RoutineDays
        BY DEF next, starts
      <4> QED  BY <4>1, <2>2, <1>6, RoutineAssumption DEF RoutineDays
    <3> QED  BY <3>1, <2>2, <1>2 DEF versionOn
  <2> QED  BY <2>1, <2>2
<1>9. ASSUME NEW s \in starts(versions)
      PROVE  s \in versionOn(new, day) <=> s \in versionOn(versions, day)
  <2>1. CASE s \notin on
    BY <2>1, <1>3, <1>4 DEF versionOn
  <2>2. CASE s \in on /\ day < from
    <3>1. versions[s].to = None \/ from <= versions[s].to
      BY <2>2 DEF versionOn
    <3> QED  BY <3>1, <2>2, <1>2, <1>3, <1>5, <1>7 DEF versionOn
  <2>3. ASSUME NEW n \in next(versions, from), day >= n, s \in on
        PROVE  s \notin versionOn(new, day) /\ s \notin versionOn(versions, day)
    <3>1. n \in Int /\ n > from /\ versions[s].to = n - 1 /\ n - 1 # None
      <4>1. n \in RoutineDays
        BY DEF next, starts
      <4> QED  BY <4>1, <2>3, <1>6, RoutineAssumption DEF RoutineDays
    <3>2. new[s].to = from - 1
      BY <2>3, <1>3
    <3> QED  BY <3>1, <3>2, <2>3, <1>2, <1>7 DEF versionOn
  <2> QED  BY <2>1, <2>2, <2>3
<1>10. versionOn(new, day) \subseteq starts(versions)
  BY <1>3, <1>8 DEF versionOn
<1>11. versionOn(versions, day) \subseteq starts(versions)
  BY DEF versionOn
<1> QED  BY <1>1, <1>9, <1>10, <1>11

(* Deleting the new version brings all back.                               *)
LEMMA InsertUndone ==
  ASSUME NEW versions, Tiled(versions), NEW from \in RoutineDays,
         NEW items \in Contents, versions[from] = None
  PROVE  removeVersion(insertVersion(versions, from, items), from) = versions
<1> DEFINE on == versionOn(versions, from)
<1>1. PICK new : new = insertVersion(versions, from, items)
  OBVIOUS
<1>2. versions \in VersionLists /\ from \in Int
  BY DEF Tiled, RoutineDays
<1>3. /\ new \in VersionLists
      /\ starts(new) = starts(versions) \cup {from}
      /\ from \notin starts(versions)
  BY <1>1, <1>2, Inserted
<1>4. \A d \in RoutineDays \ {from} :
        new[d] = IF d \in on THEN [versions[d] EXCEPT !.to = from - 1]
                 ELSE versions[d]
  BY <1>1, <1>2, Inserted
<1>5. on = previous(versions, from)
  BY <1>3, OnPrevious
<1>6. previous(new, from) = previous(versions, from)
  BY <1>2, <1>3 DEF previous
<1>7. ASSUME NEW s \in on PROVE versions[s].to = new[from].to
  <2>1. CASE next(versions, from) = {}
    <3>1. new[from].to = None
      BY <2>1, <1>1, <1>2, Inserted
    <3>2. versions[s].to = None
      BY <2>1, <1>3, <1>5, OnPrevious
    <3> QED  BY <3>1, <3>2
  <2>2. CASE next(versions, from) # {}
    <3>1. PICK n \in next(versions, from) : new[from].to = n - 1
      BY <2>2, <1>1, <1>2, Inserted
    <3>2. versions[s].to = n - 1
      BY <2>2, <1>3, <1>5, OnPrevious
    <3> QED  BY <3>1, <3>2
  <2> QED  BY <2>1, <2>2
<1>8. ASSUME NEW s \in on
      PROVE  /\ s \in RoutineDays \ {from}
             /\ [new[s] EXCEPT !.to = new[from].to] = versions[s]
  <2>1. s \in RoutineDays \ {from} /\ versions[s] \in VersionRows
    <3>1. s \in starts(versions)
      BY DEF versionOn
    <3> QED  BY <3>1, <1>2, <1>3, Rows
  <2>2. new[s] = [versions[s] EXCEPT !.to = from - 1]
    BY <2>1, <1>4
  <2>3. versions[s].to = new[from].to
    BY <1>7
  <2> HIDE DEF on
  <2> QED  BY <2>1, <2>2, <2>3 DEF VersionRows
<1>9. ASSUME NEW d \in RoutineDays
      PROVE  (IF d = from THEN None
              ELSE IF d \in previous(new, from)
              THEN [new[d] EXCEPT !.to = new[from].to] ELSE new[d]) = versions[d]
  <2> HIDE DEF on
  <2> QED  BY <1>4, <1>5, <1>6, <1>8
<1> HIDE DEF on
<1> QED  BY <1>1, <1>2, <1>9 DEF removeVersion, VersionLists

-----------------------------------------------------------------------------
(* The versions of all groups                                              *)

RoutineInv == RoutineTypeOK /\ VersionsTile

LEMMA TileOfGroups ==
  ASSUME RoutineTypeOK
  PROVE  VersionsTile <=> \A g \in Kindergartens : Tiled(version[g])
BY DEF RoutineTypeOK, VersionsTile, Tiled, Tile, VersionLists

LEMMA InitRoutine == RoutineInit => RoutineInv
<1> SUFFICES ASSUME RoutineInit PROVE RoutineInv
  OBVIOUS
<1>1. RoutineTypeOK
  BY DEF RoutineInit, RoutineTypeOK
<1>2. \A g \in Kindergartens : starts(version[g]) = {}
  BY DEF RoutineInit, starts
<1> QED  BY <1>1, <1>2 DEF RoutineInv, VersionsTile

(* One group changes, to versions that follow each other.                  *)
LEMMA OneGroup ==
  ASSUME RoutineInv, NEW g \in Kindergartens, NEW versions, Tiled(versions),
         version' = [version EXCEPT ![g] = versions],
         UNCHANGED <<override, holiday>>,
         copying' \in [Copiers -> CopyRows \cup {None}]
  PROVE  RoutineInv'
<1>1. RoutineTypeOK'
  BY DEF RoutineInv, RoutineTypeOK, Tiled, VersionLists
<1>2. \A k \in Kindergartens : Tiled(version[k])
  BY TileOfGroups DEF RoutineInv
<1>3. \A k \in Kindergartens : version'[k] = IF k = g THEN versions ELSE version[k]
  BY DEF RoutineInv, RoutineTypeOK
<1>4. \A k \in Kindergartens : Tiled(version'[k])
  BY <1>2, <1>3
<1>5. VersionsTile'
  BY <1>4 DEF VersionsTile, Tiled, Tile
<1> QED  BY <1>1, <1>5 DEF RoutineInv

LEMMA UpdateTiles ==
  ASSUME NEW versions, Tiled(versions), NEW from \in starts(versions),
         NEW items \in Contents
  PROVE  Tiled([versions EXCEPT ![from].items = items])
<1>1. PICK new : new = [versions EXCEPT ![from].items = items]
  OBVIOUS
<1>2. versions \in VersionLists
  BY DEF Tiled
<1>3. \A r \in starts(versions) : r \in RoutineDays /\ versions[r] \in VersionRows
  BY <1>2, Rows
<1>4. PICK row : row = [versions[from] EXCEPT !.items = items]
  OBVIOUS
<1>5. row \in VersionRows /\ row.to = versions[from].to /\ row # None
  BY <1>3, <1>4, RoutineAssumption DEF VersionRows
<1>6. new = [versions EXCEPT ![from] = row]
  BY <1>1, <1>4
<1>7. new \in VersionLists /\ starts(new) = starts(versions)
  BY <1>2, <1>3, <1>5, <1>6 DEF VersionLists, starts
<1>8. \A r \in starts(versions) : new[r].to = versions[r].to
  BY <1>2, <1>3, <1>5, <1>6 DEF VersionLists
<1>9. Tile(new)
  BY <1>7, <1>8 DEF Tiled, Tile
<1> QED  BY <1>1, <1>7, <1>9 DEF Tiled

LEMMA NextRoutine == RoutineInv /\ [RoutineNext]_routineVars => RoutineInv'
<1> SUFFICES ASSUME RoutineInv, [RoutineNext]_routineVars PROVE RoutineInv'
  OBVIOUS
<1> USE DEF RoutineInv
<1>1. \A g \in Kindergartens : Tiled(version[g])
  BY TileOfGroups
<1>2. RoutineTypeOK
  OBVIOUS
<1>3. ASSUME NEW g \in Kindergartens, NEW d \in RoutineDays, NEW items \in Contents,
             createTemplate(g, d, items)
      PROVE  RoutineInv'
  <2>1. Tiled(insertVersion(version[g], d, items))
    BY <1>1, <1>3, InsertTiles DEF createTemplate
  <2> QED  BY <2>1, <1>2, <1>3, OneGroup DEF createTemplate, RoutineTypeOK
<1>4. ASSUME NEW g \in Kindergartens, NEW d \in RoutineDays, NEW items \in Contents,
             updateTemplate(g, d, items)
      PROVE  RoutineInv'
  <2>1. d \in starts(version[g])
    BY <1>4 DEF updateTemplate, starts
  <2>2. Tiled([version[g] EXCEPT ![d].items = items])
    BY <1>1, <2>1, UpdateTiles
  <2>3. version' = [version EXCEPT ![g] = [version[g] EXCEPT ![d].items = items]]
    BY <1>4 DEF updateTemplate
  <2> QED  BY <2>2, <2>3, <1>2, <1>4, OneGroup DEF updateTemplate, RoutineTypeOK
<1>5. ASSUME NEW g \in Kindergartens, NEW d \in RoutineDays, deleteTemplate(g, d)
      PROVE  RoutineInv'
  <2>1. d \in starts(version[g])
    BY <1>5 DEF deleteTemplate, starts
  <2>2. Tiled(removeVersion(version[g], d))
    BY <1>1, <2>1, RemoveTiles
  <2> QED  BY <2>2, <1>2, <1>5, OneGroup DEF deleteTemplate, RoutineTypeOK
<1>6. ASSUME NEW t \in Copiers, Copy(t) PROVE RoutineInv'
  <2>1. PICK c \in CopyRows : c = copying[t]
    BY <1>2, <1>6 DEF Copy, RoutineTypeOK
  <2>2. c.group \in Kindergartens /\ c.from \in RoutineDays /\ c.items \in Contents
    BY DEF CopyRows
  <2>3. Tiled(insertVersion(version[c.group], c.from, c.items))
    BY <1>1, <1>6, <2>1, <2>2, InsertTiles DEF Copy
  <2>4. version' = [version EXCEPT ![c.group] =
                      insertVersion(version[c.group], c.from, c.items)]
    BY <1>6, <2>1 DEF Copy
  <2>5. copying' \in [Copiers -> CopyRows \cup {None}]
    BY <1>2, <1>6 DEF Copy, RoutineTypeOK
  <2> QED  BY <2>2, <2>3, <2>4, <2>5, <1>6, OneGroup DEF Copy
<1>7. ASSUME UNCHANGED version, RoutineTypeOK' PROVE RoutineInv'
  BY <1>7 DEF VersionsTile
<1>8. ASSUME NEW t \in Copiers, NEW g \in Kindergartens, NEW source \in Kindergartens,
             NEW d \in RoutineDays, BeginCopy(t, g, source, d)
      PROVE  RoutineInv'
  <2>1. PICK s \in versionOn(version[source], d) :
          copying' = [copying EXCEPT ![t] = [group |-> g, from |-> d,
                                             items |-> version[source][s].items]]
    BY <1>8 DEF BeginCopy
  <2>2. s \in starts(version[source])
    BY DEF versionOn
  <2>3. version[source][s].items \in Contents
    BY <2>2, <1>1, Rows DEF Tiled
  <2>4. RoutineTypeOK'
    BY <2>1, <2>3, <1>2, <1>8 DEF BeginCopy, RoutineTypeOK, CopyRows
  <2> QED  BY <2>4, <1>7, <1>8 DEF BeginCopy
<1>9. ASSUME NEW g \in Kindergartens, NEW d \in RoutineDays, NEW items \in BOOLEAN \cup {None},
             override' = [override EXCEPT ![g][d] = items],
             UNCHANGED <<version, holiday, copying>>
      PROVE  RoutineInv'
  <2>1. RoutineTypeOK'
    BY <1>2, <1>9 DEF RoutineTypeOK
  <2> QED  BY <2>1, <1>7, <1>9
<1>10. ASSUME \/ \E t \in Copiers : AbandonCopy(t)
              \/ \E days \in SUBSET RoutineDays : changeCalendar(days)
              \/ UNCHANGED routineVars
       PROVE  RoutineInv'
  <2>1. RoutineTypeOK' /\ UNCHANGED version
    BY <1>2, <1>10 DEF AbandonCopy, changeCalendar, routineVars, RoutineTypeOK
  <2> QED  BY <2>1, <1>7
<1>11. ASSUME NEW g \in Kindergartens, NEW d \in RoutineDays,
              \/ \E items \in BOOLEAN : saveDay(g, d, items)
              \/ deleteDay(g, d)
       PROVE  RoutineInv'
  BY <1>9, <1>11 DEF saveDay, deleteDay
<1> QED
  BY <1>3, <1>4, <1>5, <1>6, <1>8, <1>10, <1>11 DEF RoutineNext

(***************************************************************************)
(* The variables of the routine have their types.                          *)
(***************************************************************************)
THEOREM RoutineTypeCorrect == RoutineSpec => []RoutineTypeOK
BY InitRoutine, NextRoutine, PTL DEF RoutineSpec, RoutineInv

LEMMA TiledIsUndone == RoutineInv => VersionsFollow
<1> SUFFICES ASSUME RoutineInv PROVE CreatingIsUndone
  BY DEF RoutineInv, VersionsFollow
<1>1. \A g \in Kindergartens : Tiled(version[g])
  BY TileOfGroups DEF RoutineInv
<1>2. ASSUME NEW g \in Kindergartens, NEW d \in RoutineDays \ starts(version[g])
      PROVE  Tiled(version[g]) /\ version[g][d] = None
  BY <1>1 DEF starts
<1> QED
  BY <1>2, InsertKeepsDays, InsertUndone DEF CreatingIsUndone

(***************************************************************************)
(* In whatever order the routine of a group is created, copied from        *)
(* another, changed and deleted (routine/routine.service.ts), its versions *)
(* leave no gap and no overlap, a new one changes only the days up to the  *)
(* next, and deleting it restores the routine there was.                   *)
(***************************************************************************)
THEOREM RoutineFollows == RoutineSpec => []VersionsFollow
BY InitRoutine, NextRoutine, TiledIsUndone, PTL DEF RoutineSpec

=============================================================================
