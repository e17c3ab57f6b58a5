---------------------------- MODULE MCContracts ----------------------------
(* One lead, two LIAs and one officer for each other slot, two requests at  *)
(* a time, and a second case and a second submission for what may go wrong. *)
EXTENDS Contracts, TLC

CONSTANTS s1, s2, k1, k2, w1, w2, lia1, lia2, adm, fin, con, sup

OneSubmission == {s1}
TwoSubmissions == {s1, s2}
OneCase == {k1}
TwoCases == {k1, k2}
OneWorker == {w1}
TwoWorkers == {w1, w2}
Team == {lia1, lia2, adm, fin, con, sup}
Trio == {lia1, adm, fin}
TwoLias == {lia1, lia2, adm}
MCRoleOf == [s \in Staff |->
  CASE s \in {lia1, lia2} -> "LIA" [] s = adm -> "CONSULTANT" [] s = fin -> "FINANCE"
    [] s = con -> "CLIENT_CONSULTANT" [] s = sup -> "SUPPORT"]
MCHired == [s \in Staff |-> IF s = lia2 THEN 2 ELSE 1]
MCSpeaks == [s \in Staff |-> {"en"}]
DocuSeal == {"docuseal"}
DocuSign == {"docusign"}
NewClient == {"none"}
KnownClient == {"LEAD"}
AnyClient == {"none", "LEAD"}
Symmetry == Permutations(Workers) \cup Permutations(Submissions) \cup Permutations(Cases)
Both == {"docuseal", "docusign"}
=============================================================================
