---------------------------- MODULE MCLeadIntake ----------------------------
(* One person, two ways to answer, two requests at a time, and two visits:   *)
(* an advertisement with its source and landing page, a mailing with source  *)
(* and medium.                                                               *)
EXTENDS LeadIntake, TLC

CONSTANTS a1, a2, ad, mail, r1, r2

TwoAnswers == {a1, a2}
TwoCampaigns == {ad, mail}
ThreeColumns == {"source", "medium", "landing"}
UtmColumns == {"source", "medium"}
Carries(source, medium, landing) == [c \in ThreeColumns |->
  CASE c = "source" -> source [] c = "medium" -> medium [] c = "landing" -> landing]
TwoVisits == {Carries(ad, None, ad), Carries(mail, mail, None)}
TwoRequests == {r1, r2}
Interchangeable == Permutations(TwoAnswers) \cup Permutations(TwoRequests)
=============================================================================
