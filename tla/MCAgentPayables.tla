-------------------------- MODULE MCAgentPayables --------------------------
(* One programme choice, up to two claims for its commission, two payables, *)
(* and two owners of whom one also holds the finance role.                  *)
EXTENDS AgentPayables, TLC

CONSTANTS c1, t1, t2, ali, omid, con, w1, w2, p1, p2, j1, j2

OneChoice == {c1}
OneClaim == {t1}
TwoClaims == {t1, t2}
MCRolesOf == [s \in Staff |->
  CASE s = ali -> {"OWNER"} [] s = omid -> {"OWNER", "FINANCE"}
    [] s = con -> {"CONSULTANT"}]
Everybody == {ali, omid, con}
Owners == {ali, omid}
OneWorker == {w1}
TwoWorkers == {w1, w2}
TwoPayables == {p1, p2}
NoPayables == {}
NoJobs == {}
TwoJobs == {j1, j2}
Symmetry == Permutations(Choices) \cup Permutations(Claims) \cup Permutations(Workers)
   \cup Permutations(Payables) \cup Permutations(Jobs)
=============================================================================
