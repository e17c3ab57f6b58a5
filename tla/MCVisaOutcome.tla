--------------------------- MODULE MCVisaOutcome ---------------------------
(***************************************************************************)
(* A case with two applications, two advisers and two support officers.    *)
(***************************************************************************)
EXTENDS VisaOutcome, TLC

CONSTANTS a1, a2, o1, o2, n1, n2, w1, w2

TwoApps == {a1, a2}
TwoOfficers == {o1, o2}
TwoNumbers == {n1, n2}
TwoWorkers == {w1, w2}
Accepted == {"OFFER_ACCEPTED", "SUBMITTED"}
Interchangeable == Permutations(TwoApps) \cup Permutations(TwoOfficers)
                     \cup Permutations(TwoNumbers) \cup Permutations(TwoWorkers)
=============================================================================
