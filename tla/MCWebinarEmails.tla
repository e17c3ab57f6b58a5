-------------------------- MODULE MCWebinarEmails --------------------------
(* One or two of the deliveries of a registration, two overlapping sweeps,  *)
(* up to three attempts instead of the five of MAX_ATTEMPTS.                *)
EXTENDS WebinarEmails, TLC

CONSTANTS s1, s2

OneKind == {"REMINDER"}
EarlyKinds == {"CONFIRMATION", "REMINDER"}
FinalKind == {"FOLLOWUP"}
TwoDispatches == {s1, s2}
Symmetry == Permutations(Dispatches)
=============================================================================
