-------------------------- MODULE MCVisaReminders --------------------------
(***************************************************************************)
(* Two visas, one of a case without an LIA, and two owners.  Reminders go  *)
(* out two days and one day ahead: with two thresholds a visa is found     *)
(* again by a later sweep, as with 30, 14 and 7.                           *)
(***************************************************************************)
EXTENDS VisaReminders, TLC

CONSTANTS v1, v2, o1, o2, s1, s2

TwoVisas == {v1, v2}
OneOrphan == {v2}
TwoOwners == {o1, o2}
TwoSweeps == {s1, s2}
TwoAndOne == <<2, 1>>
Interchangeable == Permutations(TwoOwners) \cup Permutations(TwoSweeps)
=============================================================================
