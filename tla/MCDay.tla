------------------------------- MODULE MCDay -------------------------------
(***************************************************************************)
(* A day at the school, looked at from five sides: the kitchen at work     *)
(* while one family orders; a family that orders, cancels and reports      *)
(* absences when the menus are out; two teachers who save the register of  *)
(* a day; the views of the register, while notices, calendar and groups    *)
(* change; and the notes of the day.  Meals, and the register with its     *)
(* notes, share no state here, so a behaviour looks at one side.           *)
(***************************************************************************)
EXTENDS Meals, DailyNotes, TLC

CONSTANTS
  borshch, soup, salad, ann, bob,
  school, garden,          \* groups
  ill,                     \* a reason of absence
  w1, w2,                  \* requests of a manager, and of a teacher
  mood                     \* a question

VARIABLE side

MCCourseOf == borshch :> "first" @@ soup :> "first" @@ salad :> "salad"

Lunch == [courses |-> {"first", "salad"}, dishes |-> {}]
SoupLunch == [courses |-> {"first"}, dishes |-> {soup}]
MCWishes == {0 :> SoupLunch, 0 :> Lunch @@ 1 :> Lunch}
MCPlates == {{soup, salad}, {borshch, salad}}

(* The menus of a family's week.                                           *)
Out == [d \in Days |-> [id |-> d + 1, status |-> "published",
                        dishes |-> {soup, salad}, blind |-> FALSE]]

MealsInit ==
  /\ menu = IF side = "family" THEN Out ELSE [d \in Days |-> None]
  /\ rows = IF side = "family" THEN Cardinality(Days) ELSE 0
  /\ order = [o \in Orders |-> None]
  /\ notice = [n \in Notices |-> None]
  /\ deadline \in (IF side = "family" THEN Cuts ELSE {0}) /\ now = 0
  /\ tx = [t \in Txs |-> None]

(* Rows are written in the order of their identities.                      *)
inOrder(new) == \A i \in DOMAIN new \ {1} : new[i] # None => new[i - 1] # None

(* The kitchen does not look at the clock; it saves, fills and deletes the *)
(* first day, fills in one kind of menu, publishes and unpublishes both    *)
(* days, and meets one order of the staff, for both days, at a time.  The  *)
(* parents leave the menus alone, order for the first day and report       *)
(* absences on both, finance voids nothing while they do, and the deadline *)
(* is moved forward.                                                       *)
Kitchen ==
  /\ UNCHANGED <<now, deadline, notice>>
  /\ inOrder(order')
  /\ \A t \in Txs : tx'[t] # None =>
       \/ tx'[t].op = "order" /\ ~tx'[t].parent /\ DOMAIN tx'[t].wish = Days
          /\ \A u \in Txs \ {t} : ~Doing(u, "order")'
       \/ tx'[t].op = "save" /\ tx'[t].date = 0
       \/ /\ tx'[t].op = "fill" /\ 0 \in DOMAIN tx'[t].plan
          /\ \A d \in DOMAIN tx'[t].plan : tx'[t].plan[d] = {borshch, salad}
       \/ tx'[t].op = "delete" /\ tx'[t].date = 0
       \/ tx'[t].op \in {"cancel", "unpublish"}
  /\ \A o \in Orders : order'[o] # None =>
       (order'[o].cancelled <=> order'[o].charge = "voided")

Family ==
  /\ UNCHANGED <<menu, rows>>
  /\ inOrder(order') /\ inOrder(notice')
  /\ deadline' <= deadline
  /\ (\E o \in Orders : VoidCharge(o)) => \A t \in Txs : tx[t] = None
  /\ \A t \in Txs : tx'[t] # None =>
       \/ tx'[t].op = "order" /\ tx'[t].parent /\ DOMAIN tx'[t].wish = {0}
       \/ tx'[t].op = "notice" /\ tx'[t].start = 0 /\ tx'[t].end = 1
       \/ tx'[t].op = "cancel"

-----------------------------------------------------------------------------
(* The register of one child on two days, the first a day off unless the   *)
(* calendar says otherwise.                                                *)
MCKind == school :> "school" @@ garden :> "kindergarten"
MCInstitution == school :> 1 @@ garden :> 1
MCCalendar ==
  {[from |-> 1, to |-> 2, scope |-> "group", of |-> school,
    type |-> "non_working"],
   [from |-> 1, to |-> 1, scope |-> "kind", of |-> "school", type |-> "working"],
   [from |-> 1, to |-> 2, scope |-> "all", of |-> None, type |-> "working"]}
MCNotices == {[child |-> ann, from |-> 1, to |-> 2, reason |-> ill]}
MCValues == [text |-> {"abc"}, yes_no |-> {"yes"}]

SaveStep ==
  /\ RegisterNext
  /\ UNCHANGED <<notices, editDays, today>>
  /\ inactive' # inactive => saving[w1] # None /\ mark[1] # None /\ mark[2] = None
  /\ \A e \in calendar' : e.scope = "all"
  /\ saving'[w2] # None => saving'[w2].wanted[ann].status = "present"

(* No more than one correction, when the rest is in motion.                *)
ViewStep ==
  /\ RegisterNext
  /\ UNCHANGED inactive
  /\ saving'[w2] = None /\ mark'[3] = None
  /\ editDays' < 2

MarksNext ==
  /\ IF side = "saves" THEN SaveStep ELSE ViewStep
  /\ \A t \in {w1, w2} : saving'[t] # None => saving'[t].date = 1
  /\ inOrder(mark')
  /\ UNCHANGED <<set, question, answer>>

(* The notes of the first day and the group the child is in; the question  *)
(* asks for an answer.                                                     *)
AnswersNext ==
  /\ NotesStep
  /\ \A t \in {w1, w2} : saving'[t] # None =>
       saving'[t].group = school
  /\ set'[1] # None => set'[1].groups \subseteq {school}
  /\ question'[mood] # None => question'[mood].required
  /\ inOrder(answer')

DayInit ==
  /\ NotesInit
  /\ editDays = 1 /\ member[ann] = school

-----------------------------------------------------------------------------
MCInit ==
  /\ side \in {"kitchen", "family", "saves", "views", "notes"}
  /\ MealsInit /\ DayInit

MCNext ==
  /\ UNCHANGED side
  /\ \/ side = "kitchen" /\ Next /\ Kitchen /\ UNCHANGED notesVars
     \/ side = "family" /\ Next /\ Family /\ UNCHANGED notesVars
     \/ side \in {"saves", "views"} /\ MarksNext /\ UNCHANGED vars
     \/ side = "notes" /\ AnswersNext /\ UNCHANGED vars

MCSpec == MCInit /\ [][MCNext]_<<side, vars, notesVars>>

Symmetry == Permutations(Txs)

=============================================================================
