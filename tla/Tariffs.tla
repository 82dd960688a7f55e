------------------------------ MODULE Tariffs ------------------------------
(***************************************************************************)
(* The list of tariffs (tariffs/tariffs.service.ts) and what is charged by *)
(* them at once: visits of children who are getting used to the place      *)
(* (tariffs/adaptation.service.ts).  Enrollments and class groups use a    *)
(* tariff too.                                                             *)
(*                                                                         *)
(* Nothing here is locked but a charge while it is voided or allocated to: *)
(* requests check first and write in a later step.                         *)
(***************************************************************************)
EXTENDS Nothing, Integers

CONSTANTS
  TariffIds, Owners,
  Visits,       \* identities of visits, each with its charge
  Links,        \* identities of enrollments and class groups
  LastPriceDay, \* the last day there is
  Savers        \* requests in flight

PriceDays == 1..LastPriceDay

BillingModes == {"calendar_full", "calendar_prorated", "anniversary"}

TariffRows ==
  [institution : Owners \cup {None}, active : BOOLEAN, mode : BillingModes,
   prices : SUBSET PriceDays]

VisitRows == [tariff : TariffIds, voided : BOOLEAN]

VisitCharges == [voided : BOOLEAN, allocated : BOOLEAN]

SavingRows ==
  [op : {"delete", "link", "visit"}, tariff : TariffIds]
    \cup [op : {"update"}, tariff : TariffIds, moves : BOOLEAN,
          to : [institution : Owners \cup {None}, active : BOOLEAN,
                mode : BillingModes]]
    \cup [op : {"void"}, visit : Visits, charge : BOOLEAN]

ASSUME TariffsAssumption ==
  None \notin TariffRows \cup VisitRows \cup VisitCharges \cup SavingRows

VARIABLES
  tariff,      \* tariff -> [institution, active, mode, prices], or None
  link,        \* enrollment or class group -> its tariff, or None
  visit,       \* visit -> [tariff, voided], or None
  visitCharge, \* visit -> [voided, allocated] of its charge, or None
  saving       \* request -> what it has read and is going to write, or None

tariffVars == <<tariff, link, visit, visitCharge, saving>>

StartSave(t, r) == saving[t] = None /\ saving' = [saving EXCEPT ![t] = r]

Saving(t, op) == saving[t] # None /\ saving[t].op = op

EndSave(t) == saving' = [saving EXCEPT ![t] = None]

visitsOf(k) == {v \in Visits : visit[v] # None /\ visit[v].tariff = k}
linksOf(k) == {l \in Links : link[l] = k}

inUse(k) == visitsOf(k) # {} \/ linksOf(k) # {}

-----------------------------------------------------------------------------
(* TariffsService.create, update, addPrice, delete                         *)

create(k, i, mode, day) ==
  /\ tariff[k] = None
  /\ tariff' = [tariff EXCEPT ![k] =
       [institution |-> i, active |-> TRUE, mode |-> mode, prices |-> {day}]]
  /\ UNCHANGED <<link, visit, visitCharge, saving>>

BeginUpdate(t, k, i, active, mode) ==
  /\ tariff[k] # None
  /\ i # tariff[k].institution => ~inUse(k)
  /\ mode # tariff[k].mode => linksOf(k) = {}
  /\ StartSave(t, [op |-> "update", tariff |-> k, to |->
               [institution |-> i, active |-> active, mode |-> mode],
               moves |-> i # tariff[k].institution])
  /\ UNCHANGED <<tariff, link, visit, visitCharge>>

(* The institution is written only by a request that changes it.           *)
Update(t) ==
  /\ Saving(t, "update") /\ tariff[saving[t].tariff] # None
  /\ LET k == saving[t].tariff  to == saving[t].to IN
     tariff' = [tariff EXCEPT
       ![k].active = to.active, ![k].mode = to.mode,
       ![k].institution = IF saving[t].moves THEN to.institution ELSE @]
  /\ EndSave(t)
  /\ UNCHANGED <<link, visit, visitCharge>>

(* A second price of the same day replaces the first.                      *)
addPrice(k, day) ==
  /\ tariff[k] # None
  /\ tariff' = [tariff EXCEPT ![k].prices = @ \cup {day}]
  /\ UNCHANGED <<link, visit, visitCharge, saving>>

BeginDelete(t, k) ==
  /\ tariff[k] # None /\ ~inUse(k)
  /\ StartSave(t, [op |-> "delete", tariff |-> k])
  /\ UNCHANGED <<tariff, link, visit, visitCharge>>

(* The foreign keys of what uses it refuse, and its prices stay.           *)
Delete(t) ==
  /\ Saving(t, "delete")
  /\ tariff[saving[t].tariff] # None /\ ~inUse(saving[t].tariff)
  /\ tariff' = [tariff EXCEPT ![saving[t].tariff] = None]
  /\ EndSave(t)
  /\ UNCHANGED <<link, visit, visitCharge>>

-----------------------------------------------------------------------------
(* EnrollmentsService.create and ClassGroupsService                        *)

BeginLink(t, k, i) ==
  /\ tariff[k] # None /\ tariff[k].active
  /\ tariff[k].institution \in {None, i}
  /\ StartSave(t, [op |-> "link", tariff |-> k])
  /\ UNCHANGED <<tariff, link, visit, visitCharge>>

Link(t, l) ==
  /\ Saving(t, "link") /\ tariff[saving[t].tariff] # None
  /\ link[l] = None
  /\ link' = [link EXCEPT ![l] = saving[t].tariff]
  /\ EndSave(t)
  /\ UNCHANGED <<tariff, visit, visitCharge>>

unlink(l) ==
  /\ link[l] # None
  /\ link' = [link EXCEPT ![l] = None]
  /\ UNCHANGED <<tariff, visit, visitCharge, saving>>

-----------------------------------------------------------------------------
(* AdaptationService.create of a visit on a day, at the tariff's price of  *)
(* that day or at a rate of its own.                                       *)

BeginVisit(t, k, i, day, ownRate) ==
  /\ tariff[k] # None /\ tariff[k].active
  /\ tariff[k].institution \in {None, i}
  /\ ~ownRate => \E from \in tariff[k].prices : from <= day
  /\ StartSave(t, [op |-> "visit", tariff |-> k])
  /\ UNCHANGED <<tariff, link, visit, visitCharge>>

(* The charge and the visit are written together.                          *)
Visit(t, v) ==
  /\ Saving(t, "visit") /\ tariff[saving[t].tariff] # None
  /\ visit[v] = None
  /\ visit' = [visit EXCEPT ![v] = [tariff |-> saving[t].tariff, voided |-> FALSE]]
  /\ visitCharge' = [visitCharge EXCEPT ![v] = [voided |-> FALSE, allocated |-> FALSE]]
  /\ EndSave(t)
  /\ UNCHANGED <<tariff, link>>

(* void: what the visit and its charge look like is read before either is  *)
(* locked.                                                                 *)
BeginVoid(t, v) ==
  /\ visit[v] # None /\ ~visit[v].voided
  /\ StartSave(t, [op |-> "void", visit |-> v, charge |-> ~visitCharge[v].voided])
  /\ UNCHANGED <<tariff, link, visit, visitCharge>>

(* Mutant of voidCharge: what is allocated to the charge stays.            *)
voidChargeOnly(v) ==
  /\ ~visitCharge[v].voided
  /\ visitCharge' = [visitCharge EXCEPT ![v].voided = TRUE]

(* voidChargeInTx refuses a charge that was voided meanwhile.              *)
voidCharge(v) ==
  /\ ~visitCharge[v].voided
  /\ visitCharge' = [visitCharge EXCEPT ![v] = [voided |-> TRUE, allocated |-> FALSE]]

Void(t) ==
  /\ Saving(t, "void")
  /\ LET v == saving[t].visit IN
     /\ IF saving[t].charge THEN voidCharge(v) ELSE UNCHANGED visitCharge
     /\ visit' = [visit EXCEPT ![v].voided = TRUE]
  /\ EndSave(t)
  /\ UNCHANGED <<tariff, link>>

(* ChargesService.void, and a payment that is allocated to the charge.     *)
VoidVisitCharge(v) ==
  /\ visitCharge[v] # None
  /\ voidCharge(v)
  /\ UNCHANGED <<tariff, link, visit, saving>>

Allocate(v) ==
  /\ visitCharge[v] # None /\ ~visitCharge[v].voided
  /\ visitCharge' = [visitCharge EXCEPT ![v].allocated = TRUE]
  /\ UNCHANGED <<tariff, link, visit, saving>>

AbandonSave(t) ==
  /\ saving[t] # None
  /\ EndSave(t)
  /\ UNCHANGED <<tariff, link, visit, visitCharge>>

-----------------------------------------------------------------------------
TariffsInit ==
  /\ tariff = [k \in TariffIds |-> None]
  /\ link = [l \in Links |-> None]
  /\ visit = [v \in Visits |-> None]
  /\ visitCharge = [v \in Visits |-> None]
  /\ saving = [t \in Savers |-> None]

Catalogue(k) ==
  \/ \E day \in PriceDays :
       \/ addPrice(k, day)
       \/ \E i \in Owners \cup {None}, mode \in BillingModes :
            create(k, i, mode, day)
  \/ \E t \in Savers :
       \/ BeginDelete(t, k)
       \/ \E i \in Owners \cup {None}, active \in BOOLEAN, mode \in BillingModes :
            BeginUpdate(t, k, i, active, mode)

Use(t) ==
  \/ \E k \in TariffIds, i \in Owners :
       \/ BeginLink(t, k, i)
       \/ \E day \in PriceDays, ownRate \in BOOLEAN : BeginVisit(t, k, i, day, ownRate)
  \/ \E l \in Links : Link(t, l)
  \/ \E v \in Visits : Visit(t, v) \/ BeginVoid(t, v)

TariffsNext ==
  \/ \E k \in TariffIds : Catalogue(k)
  \/ \E t \in Savers : Use(t) \/ Update(t) \/ Delete(t) \/ Void(t) \/ AbandonSave(t)
  \/ \E v \in Visits : VoidVisitCharge(v) \/ Allocate(v)
  \/ \E l \in Links : unlink(l)

TariffsSpec == TariffsInit /\ [][TariffsNext]_tariffVars

-----------------------------------------------------------------------------
(* The variables have their types.                                         *)
TariffsTypeOK ==
  /\ tariff \in [TariffIds -> TariffRows \cup {None}]
  /\ link \in [Links -> TariffIds \cup {None}]
  /\ visit \in [Visits -> VisitRows \cup {None}]
  /\ visitCharge \in [Visits -> VisitCharges \cup {None}]
  /\ saving \in [Savers -> SavingRows \cup {None}]

(* Voiding a visit voids its charge, and nothing stays or becomes paid for *)
(* it, whoever voids the charge or the visit at the same time: a visit     *)
(* that is voided has a voided charge without allocations, and one that is *)
(* recorded has a charge and a tariff that is still there.                 *)
VoidedVisitsCostNothing ==
  \A v \in Visits :
    /\ (visit[v] = None) = (visitCharge[v] = None)
    /\ visit[v] # None =>
         /\ tariff[visit[v].tariff] # None
         /\ visit[v].voided => visitCharge[v].voided
         /\ visitCharge[v].voided => ~visitCharge[v].allocated

=============================================================================
