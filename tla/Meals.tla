------------------------------- MODULE Meals -------------------------------
(***************************************************************************)
(* Meals of one institution (src/src/meals) and the absence notices that   *)
(* cancel them (src/src/attendance/notices.service.ts).  The kitchen saves,*)
(* fills, publishes, unpublishes and deletes the menu of a day; families   *)
(* order from published menus and report absences.  A handler that looks   *)
(* a row up before it locks it is two actions; what follows its last lock  *)
(* is one, unless a lock protects what it has read so far.                 *)
(***************************************************************************)
EXTENDS School, FiniteSets

CONSTANTS
  Days,         \* the working days there are menus for
  Dishes,
  Courses,
  CourseOf,     \* Dish.courseId
  Orders,       \* identifiers of MealOrder rows
  Notices,      \* identifiers of AbsenceNotice rows
  Txs,          \* requests that run at the same time
  Wishes,       \* what may be ordered: a function from days to [courses, dishes]
  Plates,       \* the sets of dishes the kitchen puts on a menu
  Cuts,         \* the deadlines that may be set
  MaxRows,      \* bound: MenuDay rows ever created
  MaxNow        \* bound: the last instant

MenuStatus == {"draft", "published"}
NoticeStatus == {"pending", "approved", "rejected", "cancelled"}

Ids == 1..MaxRows
Instants == 0..MaxNow

(* A day has two instants; a deadline of 0 or 1 comes before one of them.  *)
deadlineFor(d, cut) == 2 * d + cut
isBeforeDeadline(d, cut, t) == t < deadlineFor(d, cut)
dayOf(t) == t \div 2

(* A MenuDay row with its items.  blind says that they were replaced by a  *)
(* request that did not hold the row: no column of the program.            *)
MenuRow ==
  [id: Ids, status: MenuStatus, dishes: SUBSET Dishes, blind: BOOLEAN]

Wish == [courses: SUBSET Courses, dishes: SUBSET Dishes]
Choice == [menu: Ids, dishes: SUBSET Dishes]

(* A MealOrder row, and the state of its charge.  knew has the notices that *)
(* were approved when the order was begun: no column of the program.       *)
OrderRow ==
  [child: Children, date: Days, menu: Ids, dishes: SUBSET Dishes,
   cancelled: BOOLEAN, charge: {"open", "voided"}, knew: SUBSET Notices]

(* cleared has the days the approval cancelled the orders of: no column.   *)
NoticeRow ==
  [child: Children, start: Days, end: Days, status: NoticeStatus,
   createdAt: Instants, cleared: SUBSET Days]

OrderTx ==
  [op: {"order"}, child: Children, wish: UNION {[D -> Wish] : D \in SUBSET Days},
   early: SUBSET Days, parent: BOOLEAN, step: {"child", "menus", "write"},
   found: SUBSET Ids, knew: SUBSET Notices,
   chosen: UNION {[D -> Choice] : D \in SUBSET Days}]
CancelTx == [op: {"cancel"}, order: Orders]
NoticeTx == [op: {"notice"}, child: Children, start: Days, end: Days]
SaveTx == [op: {"save"}, date: Days, dishes: SUBSET Dishes, id: Ids \cup {None}]
FillTx ==
  [op: {"fill"}, plan: UNION {[D -> SUBSET Dishes] : D \in SUBSET Days},
   overwrite: BOOLEAN, seen: [Days -> MenuRow \cup {None}]]
UnpublishTx == [op: {"unpublish"}, ids: SUBSET Ids]
DeleteTx == [op: {"delete"}, date: Days, id: Ids]

ASSUME InputAssumption ==
  /\ Days \subseteq Nat /\ IsFiniteSet(Days)
  /\ Cuts \subseteq {0, 1} /\ Cuts # {}
  /\ MaxRows \in Nat /\ MaxNow \in Nat
  /\ CourseOf \in [Dishes -> Courses]
  /\ Plates \subseteq SUBSET Dishes
  /\ Wishes \subseteq UNION {[D -> Wish] : D \in SUBSET Days}

ASSUME NoneAssumption ==
  /\ None \notin MenuRow /\ None \notin OrderRow /\ None \notin NoticeRow
  /\ None \notin Ids

VARIABLES
  menu,      \* the MenuDay row of each day
  rows,      \* how many there have been
  order,     \* MealOrder rows
  notice,    \* AbsenceNotice rows
  deadline,  \* the setting mealOrderDeadline
  now,
  tx         \* the request of each worker

menus == <<menu, rows>>
clock == <<deadline, now>>
vars == <<menu, rows, order, notice, deadline, now, tx>>

-----------------------------------------------------------------------------
Rows(table) == {r \in DOMAIN table : table[r] # None}

Doing(t, op) == tx[t] # None /\ tx[t].op = op
Begin(t, request) == tx[t] = None /\ tx' = [tx EXCEPT ![t] = request]
Continue(t, request) == tx' = [tx EXCEPT ![t] = request]
End(t) == tx' = [tx EXCEPT ![t] = None]

(* SELECT ... FROM "Child" ... FOR UPDATE: held by an order in the making  *)
(* and by a notice that has found no overlap.                              *)
holdsChild(t, c) ==
  \/ Doing(t, "order") /\ tx[t].step # "child" /\ tx[t].child = c
  \/ Doing(t, "notice") /\ tx[t].child = c
ChildFree(c) == \A t \in Txs : ~holdsChild(t, c)

(* Mutant of sharesMenu: the menus are read without a lock.                *)
sharesNothing(t, id) == FALSE

(* SELECT ... FROM "MenuDay" ... FOR SHARE: held until the order is made,  *)
(* it keeps FOR UPDATE and updates of the row away.                        *)
sharesMenu(t, id) ==
  Doing(t, "order") /\ tx[t].step = "write" /\ id \in tx[t].found
MenusFree(ids) == \A t \in Txs, id \in ids : ~sharesMenu(t, id)

active == {o \in Rows(order) : ~order[o].cancelled}
ordersOf(id) == {o \in active : order[o].menu = id}

MenuIds(D) == {menu[d].id : d \in D \cap Rows(menu)}

-----------------------------------------------------------------------------
(* meals-calc.ts: a dish for every course of the complex                   *)

options(k, dishes) == {d \in dishes : CourseOf[d] = k}

(* What is picked is on the menu, of the complex and one a course.         *)
validChoice(courses, dishes, picked) ==
  /\ picked \subseteq dishes
  /\ \A d \in picked : CourseOf[d] \in courses
  /\ \A d, e \in picked : CourseOf[d] = CourseOf[e] => d = e

(* A course without a dish is not available, one with several is a choice. *)
completeChoice(courses, dishes, picked) ==
  \A k \in courses :
    \/ options(k, picked) # {}
    \/ Cardinality(options(k, dishes)) = 1

resolveChoices(courses, dishes, picked) ==
  picked \cup UNION {options(k, dishes) :
                       k \in {k \in courses : options(k, picked) = {}}}

-----------------------------------------------------------------------------
(* meal-orders.service.ts                                                  *)

approved == {n \in Rows(notice) : notice[n].status = "approved"}

(* create, up to the transaction: the days a parent may still order for    *)
(* are decided by the clock and the setting of this moment.                *)
BeginOrder(t, c, wish, parent) ==
  /\ Begin(t, [op |-> "order", child |-> c, wish |-> wish, parent |-> parent,
               early |-> {d \in DOMAIN wish : isBeforeDeadline(d, deadline, now)},
               step |-> "child", found |-> {}, knew |-> {},
               chosen |-> [d \in {} |-> None]])
  /\ UNCHANGED <<menus, order, notice, clock>>

Locked(t) == [tx[t] EXCEPT !.step = "menus", !.found = MenuIds(DOMAIN tx[t].wish),
                           !.knew = approved]

(* Mutant of LockChild: the child is read without FOR UPDATE.              *)
ReadChild(t) ==
  /\ Doing(t, "order") /\ tx[t].step = "child"
  /\ Continue(t, Locked(t))
  /\ UNCHANGED <<menus, order, notice, clock>>

(* The child is locked, and the menus of the days are looked up.           *)
LockChild(t) ==
  /\ Doing(t, "order") /\ tx[t].step = "child"
  /\ ChildFree(tx[t].child)
  /\ Continue(t, Locked(t))
  /\ UNCHANGED <<menus, order, notice, clock>>

(* A day that can be ordered: no order yet, the menu is among those found  *)
(* and published, in time, and every course has its dish.                  *)
Orderable(t, d) ==
  LET wish == tx[t].wish[d]
  IN  /\ \A o \in active : ~(order[o].child = tx[t].child /\ order[o].date = d)
      /\ menu[d] # None /\ menu[d].id \in tx[t].found
      /\ menu[d].status = "published"
      /\ tx[t].parent => d \in tx[t].early
      /\ validChoice(wish.courses, menu[d].dishes, wish.dishes)
      /\ completeChoice(wish.courses, menu[d].dishes, wish.dishes)

chosenOn(t, d) ==
  [menu |-> menu[d].id,
   dishes |-> resolveChoices(tx[t].wish[d].courses, menu[d].dishes,
                             tx[t].wish[d].dishes)]

(* The menus are locked FOR SHARE and read, and every day is checked.      *)
Choose(t) ==
  /\ Doing(t, "order") /\ tx[t].step = "menus"
  /\ \A d \in DOMAIN tx[t].wish : Orderable(t, d)
  /\ Continue(t, [tx[t] EXCEPT
                    !.step = "write",
                    !.chosen = [d \in DOMAIN tx[t].wish |-> chosenOn(t, d)]])
  /\ UNCHANGED <<menus, order, notice, clock>>

newOrder(t, d) ==
  [child |-> tx[t].child, date |-> d, menu |-> tx[t].chosen[d].menu,
   dishes |-> tx[t].chosen[d].dishes, cancelled |-> FALSE, charge |-> "open",
   knew |-> tx[t].knew]

(* Orders and charges of all the days are committed, under new identifiers. *)
Write(t) ==
  /\ Doing(t, "order") /\ tx[t].step = "write"
  /\ \E place \in [DOMAIN tx[t].wish -> Orders \ Rows(order)] :
       /\ \A d, e \in DOMAIN place : place[d] = place[e] => d = e
       /\ order' = [o \in Orders |->
                      IF \E d \in DOMAIN place : place[d] = o
                      THEN newOrder(t, CHOOSE d \in DOMAIN place : place[d] = o)
                      ELSE order[o]]
  /\ End(t)
  /\ UNCHANGED <<menus, notice, clock>>

(* A cancelled order costs nothing, whoever voided its charge.             *)
cancelOrders(os) ==
  [o \in Orders |-> IF o \in os
                    THEN [order[o] EXCEPT !.cancelled = TRUE, !.charge = "voided"]
                    ELSE order[o]]

(* cancel, up to the transaction: a parent must be in time.                *)
BeginCancel(t, o, parent) ==
  /\ o \in active
  /\ parent => isBeforeDeadline(order[o].date, deadline, now)
  /\ Begin(t, [op |-> "cancel", order |-> o])
  /\ UNCHANGED <<menus, order, notice, clock>>

Cancel(t) ==
  /\ Doing(t, "cancel") /\ tx[t].order \in active
  /\ ChildFree(order[tx[t].order].child)
  /\ order' = cancelOrders({tx[t].order})
  /\ End(t)
  /\ UNCHANGED <<menus, notice, clock>>

(* ChargesService.void: finance voids the charge of an order.              *)
VoidCharge(o) ==
  /\ o \in Rows(order) /\ order[o].charge = "open"
  /\ order' = [order EXCEPT ![o].charge = "voided"]
  /\ UNCHANGED <<menus, notice, clock, tx>>

-----------------------------------------------------------------------------
(* menus.service.ts                                                        *)

Draft(id, dishes) ==
  [id |-> id, status |-> "draft", dishes |-> dishes, blind |-> FALSE]

idOn(d) == IF menu[d] = None THEN None ELSE menu[d].id

(* saveDay: the row of the day is looked up, ...                           *)
BeginSave(t, d, dishes) ==
  /\ Begin(t, [op |-> "save", date |-> d, dishes |-> dishes, id |-> idOn(d)])
  /\ UNCHANGED <<menus, order, notice, clock>>

(* ... it is locked, and loses no dish of an order that stands, ...        *)
SaveExisting(t) ==
  /\ Doing(t, "save")
  /\ tx[t].id # None /\ tx[t].id = idOn(tx[t].date)
  /\ MenusFree({tx[t].id})
  /\ \A o \in ordersOf(tx[t].id) :
       order[o].dishes \cap (menu[tx[t].date].dishes \ tx[t].dishes) = {}
  /\ menu' = [menu EXCEPT ![tx[t].date].dishes = tx[t].dishes]
  /\ End(t)
  /\ UNCHANGED <<rows, order, notice, clock>>

(* ... or there is none and it is created, ...                             *)
SaveNew(t) ==
  /\ Doing(t, "save") /\ menu[tx[t].date] = None /\ rows < MaxRows
  /\ menu' = [menu EXCEPT ![tx[t].date] = Draft(rows + 1, tx[t].dishes)]
  /\ rows' = rows + 1
  /\ End(t)
  /\ UNCHANGED <<order, notice, clock>>

(* ... or one has come in between: the upsert finds it, and its dishes are *)
(* replaced without the lock and the check.                                *)
SaveOther(t) ==
  /\ Doing(t, "save")
  /\ menu[tx[t].date] # None /\ tx[t].id # idOn(tx[t].date)
  /\ menu' = [menu EXCEPT ![tx[t].date].dishes = tx[t].dishes,
                          ![tx[t].date].blind = TRUE]
  /\ End(t)
  /\ UNCHANGED <<rows, order, notice, clock>>

(* publish: the drafts of a period that have a dish, in one statement.     *)
publishable(D) ==
  {d \in D \cap Rows(menu) : menu[d].status = "draft" /\ menu[d].dishes # {}}

Publish(D) ==
  /\ publishable(D) # {} /\ MenusFree(MenuIds(publishable(D)))
  /\ menu' = [d \in Days |-> IF d \in publishable(D)
                             THEN [menu[d] EXCEPT !.status = "published"]
                             ELSE menu[d]]
  /\ UNCHANGED <<rows, order, notice, clock, tx>>

(* unpublish: the published rows of a period are looked up, ...            *)
BeginUnpublish(t, D) ==
  LET ids == {menu[d].id : d \in {d \in D \cap Rows(menu) : menu[d].status = "published"}}
  IN  /\ ids # {}
      /\ Begin(t, [op |-> "unpublish", ids |-> ids])
      /\ UNCHANGED <<menus, order, notice, clock>>

(* ... locked, and back to draft if none of them has an order.             *)
Unpublish(t) ==
  /\ Doing(t, "unpublish") /\ MenusFree(tx[t].ids)
  /\ \A id \in tx[t].ids : ordersOf(id) = {}
  /\ menu' = [d \in Days |-> IF d \in Rows(menu) /\ menu[d].id \in tx[t].ids
                             THEN [menu[d] EXCEPT !.status = "draft"]
                             ELSE menu[d]]
  /\ End(t)
  /\ UNCHANGED <<rows, order, notice, clock>>

(* fill, for copy and for a template: the rows from the first to the last  *)
(* day of the plan are read before the transaction.                        *)
seenFor(D) ==
  [d \in Days |-> IF \E a, b \in D : a <= d /\ d <= b THEN menu[d] ELSE None]

BeginFill(t, plan, overwrite) ==
  /\ DOMAIN plan # {} /\ \A d \in DOMAIN plan : plan[d] # {}
  /\ Begin(t, [op |-> "fill", plan |-> plan, overwrite |-> overwrite,
               seen |-> seenFor(DOMAIN plan)])
  /\ UNCHANGED <<menus, order, notice, clock>>

(* The drafts that were seen are locked and read again: what has been      *)
(* published or ordered from is left alone.                                *)
seenDrafts(t) ==
  {d \in Rows(tx[t].seen) : tx[t].seen[d].status = "draft"}

(* Mutant of blocked: the rows are not read again.                         *)
blockedBefore(t) ==
  {d \in seenDrafts(t) : ordersOf(tx[t].seen[d].id) # {}}

blocked(t) ==
  {d \in seenDrafts(t) :
     \/ menu[d] # None /\ menu[d].id = tx[t].seen[d].id /\ menu[d].status = "published"
     \/ ordersOf(tx[t].seen[d].id) # {}}

overwritten(t) ==
  IF tx[t].overwrite
  THEN (DOMAIN tx[t].plan \cap seenDrafts(t)) \ blocked(t) ELSE {}

created(t) == DOMAIN tx[t].plan \ Rows(tx[t].seen)

(* A row that is gone, or one that has come, fails the whole of it: its    *)
(* items violate a foreign key, and the day is unique.                     *)
Fill(t) ==
  /\ Doing(t, "fill")
  /\ tx[t].overwrite => MenusFree({tx[t].seen[d].id : d \in seenDrafts(t)})
  /\ \A d \in overwritten(t) : idOn(d) = tx[t].seen[d].id
  /\ \A d \in created(t) : menu[d] = None
  /\ rows + Cardinality(created(t)) <= MaxRows
  /\ \E id \in [created(t) -> rows + 1 .. rows + Cardinality(created(t))] :
       /\ \A d, e \in created(t) : d < e => id[d] < id[e]
       /\ menu' = [d \in Days |->
                     IF d \in created(t) THEN Draft(id[d], tx[t].plan[d])
                     ELSE IF d \in overwritten(t)
                     THEN [menu[d] EXCEPT !.dishes = tx[t].plan[d]]
                     ELSE menu[d]]
  /\ rows' = rows + Cardinality(created(t))
  /\ End(t)
  /\ UNCHANGED <<order, notice, clock>>

(* deleteDay: the row is looked up, then locked; only a draft that was     *)
(* never ordered from goes.                                                *)
BeginDelete(t, d) ==
  /\ menu[d] # None
  /\ Begin(t, [op |-> "delete", date |-> d, id |-> menu[d].id])
  /\ UNCHANGED <<menus, order, notice, clock>>

Delete(t) ==
  /\ Doing(t, "delete") /\ tx[t].id = idOn(tx[t].date)
  /\ MenusFree({tx[t].id})
  /\ menu[tx[t].date].status = "draft"
  /\ \A o \in Rows(order) : order[o].menu # tx[t].id
  /\ menu' = [menu EXCEPT ![tx[t].date] = None]
  /\ End(t)
  /\ UNCHANGED <<rows, order, notice, clock>>

-----------------------------------------------------------------------------
(* notices.service.ts                                                      *)

standing(n) == notice[n].status \in {"pending", "approved"}

(* Mutant of BeginNotice: the child is not locked.                         *)
BeginNoticeUnlocked(t, c, from, to) ==
  /\ dayOf(now) <= from /\ from <= to
  /\ \A n \in Rows(notice) :
       ~(notice[n].child = c /\ standing(n) /\ notice[n].start <= to /\ from <= notice[n].end)
  /\ Begin(t, [op |-> "notice", child |-> c, start |-> from, end |-> to])
  /\ UNCHANGED <<menus, order, notice, clock>>

(* createForParent: the child is locked, and has no notice in these days.  *)
BeginNotice(t, c, from, to) ==
  /\ dayOf(now) <= from /\ from <= to
  /\ ChildFree(c)
  /\ \A n \in Rows(notice) :
       ~(notice[n].child = c /\ standing(n) /\ notice[n].start <= to /\ from <= notice[n].end)
  /\ Begin(t, [op |-> "notice", child |-> c, start |-> from, end |-> to])
  /\ UNCHANGED <<menus, order, notice, clock>>

CreateNotice(t, n) ==
  /\ Doing(t, "notice") /\ notice[n] = None
  /\ notice' = [notice EXCEPT ![n] =
                  [child |-> tx[t].child, start |-> tx[t].start, end |-> tx[t].end,
                   status |-> "pending", createdAt |-> now, cleared |-> {}]]
  /\ End(t)
  /\ UNCHANGED <<menus, order, clock>>

(* The days of a notice that was sent before their deadline.               *)
inTime(n) ==
  {d \in Days : /\ notice[n].start <= d /\ d <= notice[n].end
                /\ isBeforeDeadline(d, deadline, notice[n].createdAt)}

(* Mutant of Approve: the orders are read without the lock of the child.   *)
ApproveUnlocked(n) ==
  /\ n \in Rows(notice) /\ notice[n].status = "pending"
  /\ notice' = [notice EXCEPT ![n].status = "approved", ![n].cleared = inTime(n)]
  /\ order' = cancelOrders({o \in active : /\ order[o].child = notice[n].child
                                           /\ order[o].date \in inTime(n)})
  /\ UNCHANGED <<menus, clock, tx>>

(* approve: the decision, and under the lock of the child the orders of    *)
(* these days are cancelled in the same transaction.                       *)
Approve(n) ==
  /\ n \in Rows(notice) /\ notice[n].status = "pending"
  /\ ChildFree(notice[n].child)
  /\ notice' = [notice EXCEPT ![n].status = "approved", ![n].cleared = inTime(n)]
  /\ order' = cancelOrders({o \in active : /\ order[o].child = notice[n].child
                                           /\ order[o].date \in inTime(n)})
  /\ UNCHANGED <<menus, clock, tx>>

(* reject, cancel by the office and cancelForParent change one status.     *)
Decide(n, from, to) ==
  /\ n \in Rows(notice) /\ notice[n].status = from
  /\ notice' = [notice EXCEPT ![n].status = to]
  /\ UNCHANGED <<menus, order, clock, tx>>

(* setDeadline                                                             *)
SetDeadline(cut) ==
  /\ deadline' = cut
  /\ UNCHANGED <<menus, order, notice, now, tx>>

Tick ==
  /\ now < MaxNow /\ now' = now + 1
  /\ UNCHANGED <<menus, order, notice, deadline, tx>>

(* A check that throws, a conflict or a lost connection: nothing is        *)
(* committed.                                                              *)
Fail(t) ==
  /\ tx[t] # None
  /\ End(t)
  /\ UNCHANGED <<menus, order, notice, clock>>

-----------------------------------------------------------------------------
Init ==
  /\ menu = [d \in Days |-> None] /\ rows = 0
  /\ order = [o \in Orders |-> None]
  /\ notice = [n \in Notices |-> None]
  /\ deadline \in Cuts /\ now = 0
  /\ tx = [t \in Txs |-> None]

OrderNext ==
  \/ \E t \in Txs :
       \/ \E c \in Children, wish \in Wishes, parent \in BOOLEAN :
            BeginOrder(t, c, wish, parent)
       \/ LockChild(t) \/ Choose(t) \/ Write(t)
       \/ \E o \in Orders, parent \in BOOLEAN : BeginCancel(t, o, parent)
       \/ Cancel(t)
  \/ \E o \in Orders : VoidCharge(o)

MenuNext ==
  \/ \E t \in Txs :
       \/ \E d \in Days, dishes \in Plates : BeginSave(t, d, dishes)
       \/ SaveExisting(t) \/ SaveNew(t) \/ SaveOther(t)
       \/ \E D \in SUBSET Days : BeginUnpublish(t, D)
       \/ Unpublish(t)
       \/ \E D \in SUBSET Days, overwrite \in BOOLEAN :
            \E plan \in [D -> Plates] : BeginFill(t, plan, overwrite)
       \/ Fill(t)
       \/ \E d \in Days : BeginDelete(t, d)
       \/ Delete(t)
  \/ \E D \in SUBSET Days : Publish(D)

NoticeNext ==
  \/ \E t \in Txs :
       \/ \E c \in Children, from, to \in Days : BeginNotice(t, c, from, to)
       \/ \E n \in Notices : CreateNotice(t, n)
  \/ \E n \in Notices :
       \/ Approve(n)
       \/ Decide(n, "pending", "rejected")
       \/ Decide(n, "pending", "cancelled")
       \/ Decide(n, "approved", "cancelled")

Elsewhere ==
  \/ \E cut \in Cuts : SetDeadline(cut)
  \/ Tick
  \/ \E t \in Txs : Fail(t)

Next == OrderNext \/ MenuNext \/ NoticeNext \/ Elsewhere

Spec == Init /\ [][Next]_vars

-----------------------------------------------------------------------------
(* Menus, orders, notices and requests have the columns the program gives  *)
(* them.                                                                   *)
TypeOK ==
  /\ menu \in [Days -> MenuRow \cup {None}]
  /\ rows \in 0..MaxRows
  /\ order \in [Orders -> OrderRow \cup {None}]
  /\ notice \in [Notices -> NoticeRow \cup {None}]
  /\ deadline \in Cuts /\ now \in Instants
  /\ \A t \in Txs : \/ tx[t] = None
                    \/ tx[t] \in OrderTx \cup CancelTx \cup NoticeTx
                    \/ tx[t] \in SaveTx \cup FillTx \cup UnpublishTx \cup DeleteTx

(* A child has one order a day that stands.  No unique index says so: only *)
(* the lock of the child keeps two requests of two parents apart           *)
(* (MealOrdersService.create).                                             *)
OneOrderPerDay ==
  \A o, p \in active :
    order[o].child = order[p].child /\ order[o].date = order[p].date => o = p

(* What has been ordered is cooked: an order that stands is for the menu   *)
(* of its day, which is still published and still has its dishes, unless   *)
(* a save replaced them without the lock.  saveDay, unpublish, fill and    *)
(* deleteDay each check it in their own way, against orders that are being *)
(* made while they check.                                                  *)
OrdersAreServed ==
  \A o \in active :
    LET m == menu[order[o].date]
    IN  /\ m # None /\ m.id = order[o].menu
        /\ m.status = "published"
        /\ order[o].dishes \subseteq m.dishes \/ m.blind

(* Whoever is excused is not cooked for: once a notice is approved, the    *)
(* orders for the days it came in time for are cancelled and cost nothing, *)
(* the ones included that were being made during the approval              *)
(* (cancelOrdersForNoticeInTx).  An order begun after it is a new wish.    *)
ApprovalClearsOrders ==
  \A n \in approved, o \in Rows(order) :
    (/\ order[o].child = notice[n].child
     /\ order[o].date \in notice[n].cleared
     /\ n \notin order[o].knew)
    => order[o].cancelled /\ order[o].charge = "voided"

(* No day of a child is in two notices that wait or are approved           *)
(* (NoticesService.createForParent checks before it inserts).              *)
NoticesDoNotOverlap ==
  \A n, m \in Rows(notice) :
    (notice[n].child = notice[m].child /\ standing(n) /\ standing(m) /\ n # m)
    => notice[n].end < notice[m].start \/ notice[m].end < notice[n].start

(* A family that asks twice, or from two devices at once, has one order of *)
(* a day and one notice of it: no unique key of the database says so.      *)
NothingTwice == OneOrderPerDay /\ NoticesDoNotOverlap

(* A copy or a template never changes a menu that is out or ordered from,  *)
(* also when it was a draft at the time the period was read (fill).        *)
FillSparesPublished ==
  [][\A t \in Txs, d \in Days :
       (/\ menu[d] # None /\ menu'[d] # menu[d]
        /\ menu[d].status = "published" \/ ordersOf(menu[d].id) # {})
       => ~Fill(t)]_vars

(* "removing a dish used by an active order" is refused, says the design   *)
(* of the meals (docs/superpowers/specs/2026-10-13-meals-design.md).       *)
OrderedDishesStay ==
  \A o \in active :
    LET m == menu[order[o].date]
    IN  m # None /\ m.id = order[o].menu => order[o].dishes \subseteq m.dishes

=============================================================================
