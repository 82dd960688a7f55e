----------------------------- MODULE MCClasses -----------------------------
(* Instances of Classes small enough for TLC.                              *)
EXTENDS Classes, TLC

(* Two lessons, with a day between them on which a package may end.        *)
MCDayOf == <<1, 3>>

(* A package that is over before the second lesson, and an old one with a  *)
(* session left.                                                           *)
MCPackages ==
  [child: Children, total: {1}, usedBefore: {0}, from: {1}, expires: {1},
   voided: {FALSE}, charge: {"open"}]

MCOldPackages ==
  [child: Children, total: {2}, usedBefore: {1}, from: {1}, expires: {None},
   voided: {FALSE}, charge: {"none"}]

(* To keep the instance small: the rule changes at the start, so that what *)
(* begins under the old one goes on under the new one, and the old package *)
(* comes first and is not extended.                                        *)
Staged ==
  /\ rule = "always" => UNCHANGED <<package, extension, mark>>
  /\ rule # "always" => UNCHANGED rule
  /\ \A p \in Packages : package'[p] # None =>
       (package'[p].usedBefore = 1 <=> p = 1)
  /\ \A t \in Txs : (tx'[t] # None /\ tx'[t].op = "extend") => tx'[t].package = 2

Symmetry == Permutations(Marks) \cup Permutations(Txs)

=============================================================================
