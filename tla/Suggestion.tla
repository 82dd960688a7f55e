----------------------------- MODULE Suggestion -----------------------------
(***************************************************************************)
(* suggestAllocation: how a payment is spread over the open charges of a   *)
(* child, oldest first.  The finance card shows it as a proposal; crediting*)
(* an online payment applies it to the charges of the payment's category,  *)
(* in one transaction that has locked the child and all its charges.       *)
(***************************************************************************)
EXTENDS Ledger

CONSTANTS
  Due,          \* orderKey of a charge: periodStart, or createdAt without one
  CreatedAt     \* createdAt of a charge

ASSUME OrderAssumption ==
  /\ Due \in [Charges -> Nat]
  /\ CreatedAt \in [Charges -> Nat]
  /\ \A c, d \in Charges : CreatedAt[c] = CreatedAt[d] => c = d

-----------------------------------------------------------------------------
older(c, d) ==
  \/ Due[c] < Due[d]
  \/ Due[c] = Due[d] /\ CreatedAt[c] < CreatedAt[d]

openCharges(own) ==
  {c \in own : c \in NotVoided(charge) /\ chargeRemaining(c) > 0}

Least(x, y) == IF x < y THEN x ELSE y

(* The charges one after the other, each before those it goes before.     *)
inOrder(own, before(_, _)) ==
  CHOOSE list \in [1..Cardinality(own) -> own] :
    \A i, j \in DOMAIN list : i < j => before(list[i], list[j])

(* The loop over the open charges: left[n] is what is left of the amount   *)
(* after n of them.                                                        *)
settle(open, count, amount) ==
  LET left[n \in 0..count] ==
        IF n = 0 THEN amount
        ELSE left[n-1] - Least(chargeRemaining(open[n]), left[n-1])
  IN  [lines |-> [n \in 1..count |->
                    [charge |-> open[n], amount |-> left[n-1] - left[n]]],
       leftover |-> left[count]]

(* Mutant of suggestAllocation: the charges in the order they were entered.*)
suggestAsEntered(own, amount) ==
  settle(inOrder(openCharges(own), LAMBDA c, d : CreatedAt[c] < CreatedAt[d]),
         Cardinality(openCharges(own)), amount)

suggestAllocation(own, amount) ==
  settle(inOrder(openCharges(own), older), Cardinality(openCharges(own)), amount)

(* Mutant of positiveLines: lines of zero are applied too.                 *)
allLines(lines) == {lines[n] : n \in DOMAIN lines}

(* The lines that are applied: those of more than zero, by their charge.   *)
positiveLines(lines) ==
  {lines[n] : n \in {m \in DOMAIN lines : lines[m].amount > 0}}

-----------------------------------------------------------------------------
(* The part of applyInvoiceStatus that credits: the payment is confirmed   *)
(* and of the request's category, the charges are those of the child and   *)
(* of that category.                                                       *)
CreditOnline(p, ch, cat, amount) ==
  LET row == [child |-> ch, category |-> cat, amount |-> amount,
              status |-> "confirmed", voided |-> FALSE]
      lines == suggestAllocation(ownCharges(ch, cat), amount).lines
  IN  \E items \in Insertions(positiveLines(lines)) :
        CreatePayment(p, row, items)

SuggestionNext ==
  \/ Next
  \/ \E p \in Payments, ch \in Children, cat \in Categories, n \in Amounts :
       CreditOnline(p, ch, cat, n)

SuggestionSpec == Init /\ [][SuggestionNext]_vars

-----------------------------------------------------------------------------
(* In every ledger and for every amount, crediting an online payment is    *)
(* accepted: the suggestion never pays more than a charge needs or than    *)
(* the payment holds, so money the bank took is not refused by the checks  *)
(* of applyAllocations.                                                    *)
CreditIsAccepted ==
  \A ch \in Children, cat \in Categories, n \in 1..MaxAmount :
    LET row == [child |-> ch, category |-> cat, amount |-> n,
                status |-> "confirmed", voided |-> FALSE]
        lines == suggestAllocation(ownCharges(ch, cat), n).lines
    IN  MayApply(row, n, [line \in positiveLines(lines) |-> line])

(* What the suggestion is meant to compute, without the loop: a charge     *)
(* gets what the older ones leave, up to what it needs.                    *)
due(own, c, amount) ==
  LET before == {d \in openCharges(own) : older(d, c)}
      needed == sumMoney(before, amounts(charge))
                  - activeAllocated(UNION {ofCharge(d) : d \in before})
  IN  IF needed >= amount THEN 0 ELSE Least(chargeRemaining(c), amount - needed)

(* The debts are paid off oldest first, and a payment is left over only    *)
(* when nothing is owed any more.                                          *)
OldestFirst ==
  \A ch \in Children, n \in Amounts :
    LET own == {c \in Rows(charge) : charge[c].child = ch}
        suggestion == suggestAllocation(own, n)
    IN  /\ {suggestion.lines[k] : k \in DOMAIN suggestion.lines} =
             {[charge |-> c, amount |-> due(own, c, n)] : c \in openCharges(own)}
        /\ suggestion.leftover > 0 =>
             \A k \in DOMAIN suggestion.lines :
               suggestion.lines[k].amount =
                 chargeRemaining(suggestion.lines[k].charge)

(* What suggestAllocation proposes is accepted by applyAllocations and is  *)
(* the oldest debts, paid off one after the other.                         *)
SuggestionsHold == CreditIsAccepted /\ OldestFirst

=============================================================================
