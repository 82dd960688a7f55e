----------------------------- MODULE MCFamilies -----------------------------
(***************************************************************************)
(* What families are asked for and pay, and what their children do all     *)
(* day: monthly billing by several workers, online payments, tariffs with  *)
(* their visits, the routine of a kindergarten, and the institutions and   *)
(* groups the children move between.                                       *)
(* They share no state here, so a behaviour runs one of them, its focus,   *)
(* on an instance small enough for TLC, and leaves the others alone.       *)
(***************************************************************************)
EXTENDS OnlinePayments, Billing, Tariffs, Routine, Places, TLC

VARIABLE focus

-----------------------------------------------------------------------------
(* Billing: three months, one of them short, and one more to end periods.  *)
MCMonthDays == <<3, 2, 3, 2>>
MCEnrollments == [start: {1, 3, 5}, end: {None, 5, 7}, mode: {None}]

adjusted(type, value, from, to) ==
  [type |-> type, value |-> value, from |-> from, to |-> to, voided |-> FALSE]

NextFree == adjusted("discount_amount", 10, 4, None)
MCAdjustments ==
  {adjusted("pause", None, 2, 4), adjusted("pause", None, 5, None),
   adjusted("custom_price", 7, 3, None),
   adjusted("discount_percent", 30, 1, 6), NextFree}
MCPrices == {[from |-> 1, price |-> 10], [from |-> 5, price |-> 11]}

(* The engine: every mode, start and end, and adjustments of every type,   *)
(* entered by one worker at a time before anything is billed.              *)
EngineNext ==
  /\ BillingNext
  /\ today' = 1 /\ task'[2] = None
  /\ task'[1] # None => task'[1].op \notin {"run", "recalculate"}
  /\ task'[1] # None /\ task'[1].op = "end" => task'[1].day \in {4, 6}

(* Two workers, of which the second bills while the first does anything:   *)
(* an enrollment that may end, and a discount that makes its second period *)
(* free.                                                                   *)
WorkersNext ==
  /\ BillingNext
  /\ today' <= 2 /\ price'[5] = None
  /\ task'[1] # None =>
       /\ task'[1].op # "setMode"
       /\ task'[1].op = "enroll" => task'[1].row = [start |-> 1, end |-> None, mode |-> None]
       /\ task'[1].op = "end" => task'[1].day \in {2, 5}
       /\ task'[1].op = "adjust" => task'[1].row = NextFree /\ adjustment[1] = <<>>
  /\ task[2] = None /\ task'[2] # None =>
       task[1] # None /\ task'[2].op \in {"run", "recalculate"}

-----------------------------------------------------------------------------
(* Tariffs: one tariff, one visit and one enrollment.                      *)
OneTariffNext ==
  /\ TariffsNext
  /\ tariff'[1] # None => tariff'[1].mode # "anniversary"
  /\ \A t \in {1, 2} : saving'[t] # None /\ saving'[t].op = "update" =>
       saving'[t].to.mode # "anniversary"

-----------------------------------------------------------------------------
(* Routine: two groups, the second of which copies the first.              *)
MCContents == {{1}, {2}}

(* The second group has the versions it copies, and a day of its own.      *)
OneCopyNext ==
  /\ RoutineNext
  /\ \A g \in {1, 2}, d \in 1..3 : override'[g][d] # None =>
       g = 2 /\ d = 2 /\ override'[g][d]
  /\ holiday' \subseteq {1}
  /\ copying'[1] # None => copying'[1].group = 2
  /\ version'[2] # version[2] =>
       \/ copying' # copying
       \/ \E d \in 1..3 : version'[2][d] = None /\ version[2][d] # None

-----------------------------------------------------------------------------
(* Places: a child, and two institutions with a group each.  The first     *)
(* stays as it is; the second may change, close, go and come.              *)
MCPlacesInit ==
  /\ date = 1
  /\ institution = [i \in {1, 2} |-> [type |-> "school", active |-> TRUE]]
  /\ group = [g \in {1, 2} |-> [institution |-> g, kind |-> "school"]]
  /\ child = <<None>>
  /\ booking = <<None>>
  /\ moving = [t \in {1, 2} |-> None]

(* The child keeps a group, an enrollment that is over is not extended, and*)
(* the second request, to book or to move it, only meets the first.        *)
OneChildNext ==
  /\ PlacesNext
  /\ institution'[1] = institution[1] /\ group'[1] # None
  /\ child'[1] # None => child'[1].group # None
  /\ booking[1] # None /\ ~binds(1) => booking'[1] = booking[1]
  /\ moving'[2] # None =>
       /\ moving[2] = None => moving[1] # None
       /\ moving'[2].op \in {"book", "moveChild"}
  /\ \A t \in {1, 2} : moving'[t] # None /\ moving'[t].op = "book" =>
       moving'[t].at.to # 2
  /\ institution' # institution => moving[1] # None /\ moving[2] = None

-----------------------------------------------------------------------------
allVars == <<focus, vars, billingVars, tariffVars, routineVars, placeVars>>

MCInit ==
  /\ focus \in {"engine", "billing", "online", "tariffs", "routine", "places"}
  /\ BillingInit /\ (focus # "engine" => tariffMode = "calendar_prorated")
  /\ Init
  /\ TariffsInit
  /\ RoutineInit
  /\ MCPlacesInit

OthersThan(own) ==
  /\ UNCHANGED focus
  /\ own # "billing" => UNCHANGED billingVars
  /\ own # "online" => UNCHANGED vars
  /\ own # "tariffs" => UNCHANGED tariffVars
  /\ own # "routine" => UNCHANGED routineVars
  /\ own # "places" => UNCHANGED placeVars

MCNext ==
  \/ focus = "engine" /\ EngineNext /\ OthersThan("billing")
  \/ focus = "billing" /\ WorkersNext /\ OthersThan("billing")
  \/ focus = "online" /\ Next /\ OthersThan("online")
  \/ focus = "tariffs" /\ OneTariffNext /\ OthersThan("tariffs")
  \/ focus = "routine" /\ OneCopyNext /\ OthersThan("routine")
  \/ focus = "places" /\ OneChildNext /\ OthersThan("places")

MCSpec == MCInit /\ [][MCNext]_allVars

Symmetry == Permutations(Invoices)

=============================================================================
