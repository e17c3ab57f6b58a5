---------------------------- MODULE Commissions ----------------------------
(***************************************************************************)
(* How a provider commission comes to exist and moves: the first class is  *)
(* confirmed, an officer claims the commission, Finance decides the claim, *)
(* and the ledger walks the commission from ESTIMATED to PAID.  Handlers   *)
(* read, check and then write by id, so they interleave.                   *)
(***************************************************************************)
EXTENDS Naturals

CONSTANTS
  Choices,      \* admission programme choices
  Claims,       \* rows of commission_triggers that may be created
  Staff,
  RolesOf,      \* primary and secondary roles of a staff member
  Workers,      \* requests in flight at once
  MaxFailures,  \* bound: requests that die half-way
  None

Roles == {"OWNER", "SUPER_ADMIN", "ADMIN", "CONSULTANT", "FINANCE"}

ASSUME CommissionsAssumption ==
  /\ RolesOf \in [Staff -> SUBSET Roles]
  /\ MaxFailures \in Nat
  /\ None \notin Staff \cup Choices \cup Claims

VARIABLES
  attended,    \* firstClassAttendedAt: none, under 14 days ago, or longer
  claim,       \* commission_triggers
  commission,  \* the one commission a choice may have
  work,        \* request-local state
  failures

ledgerVars == <<attended, claim, commission, work, failures>>

ClaimStatuses == {"none", "PENDING", "APPROVED", "REJECTED"}
Statuses == {"none", "ESTIMATED", "CONFIRMED", "INVOICED", "PAID", "CANCELLED"}
NoClaim == [choice |-> None, by |-> None, status |-> "none", decidedBy |-> None]
Idle == [at |-> "idle", by |-> None, choice |-> None, claim |-> None, to |-> "none"]

Init ==
  /\ attended = [c \in Choices |-> "none"]
  /\ claim = [t \in Claims |-> NoClaim]
  /\ commission = [c \in Choices |-> [status |-> "none", priced |-> FALSE]]
  /\ work = [w \in Workers |-> Idle]
  /\ failures = 0

Has(s, roles) == RolesOf[s] \cap roles # {}
MaySubmit(s) == Has(s, {"OWNER", "SUPER_ADMIN", "ADMIN", "CONSULTANT"})
MayDecide(s) == Has(s, {"OWNER", "SUPER_ADMIN", "FINANCE"})
MayRecord(s) == Has(s, {"OWNER", "SUPER_ADMIN"})

\* Submissions, decisions and payouts are attributed to a person.
Actor(s) == s

Start(w, local) == work[w].at = "idle" /\ work' = [work EXCEPT ![w] = local]
Goto(w, at) == work' = [work EXCEPT ![w].at = at]
Finish(w) == work' = [work EXCEPT ![w] = Idle]

-----------------------------------------------------------------------------
\* First class.

\* confirmFirstClassAttended: refused if a date is already there ...
AttendStart(w, s, c) ==
  /\ MaySubmit(s)
  /\ attended[c] = "none"
  /\ Start(w, [Idle EXCEPT !.at = "attend", !.by = Actor(s), !.choice = c])
  /\ UNCHANGED <<attended, claim, commission, failures>>

\* ... else any date that is not in the future is written by id.
AttendWrite(w) ==
  /\ work[w].at = "attend"
  /\ \E when \in {"recent", "old"}: attended' = [attended EXCEPT ![work[w].choice] = when]
  /\ Finish(w)
  /\ UNCHANGED <<claim, commission, failures>>

FortnightPasses(c) ==
  /\ attended[c] = "recent"
  /\ attended' = [attended EXCEPT ![c] = "old"]
  /\ UNCHANGED <<claim, commission, work, failures>>

-----------------------------------------------------------------------------
\* The claim.

SubmitStart(w, s, c) ==
  /\ MaySubmit(s)
  /\ commission[c].status = "none"
  /\ attended[c] = "old"
  /\ Start(w, [Idle EXCEPT !.at = "submit", !.by = Actor(s), !.choice = c])
  /\ UNCHANGED <<attended, claim, commission, failures>>

LiveClaims(c) == {t \in Claims: claim[t].choice = c /\ claim[t].status \in {"PENDING", "APPROVED"}}

\* The insert, unless the partial unique index refuses it.
SubmitWrite(w) ==
  LET c == work[w].choice IN
  /\ work[w].at = "submit"
  /\ IF LiveClaims(c) # {} THEN UNCHANGED claim
     ELSE \E t \in Claims:
            /\ claim[t].status = "none"
            /\ claim' = [claim EXCEPT ![t] =
                 [NoClaim EXCEPT !.choice = c, !.by = work[w].by, !.status = "PENDING"]]
  /\ Finish(w)
  /\ UNCHANGED <<attended, commission, failures>>

\* approve and reject both start by reading a pending claim.
DecideStart(w, s, t, to) ==
  /\ MayDecide(s)
  /\ claim[t].status = "PENDING"
  /\ Start(w, [Idle EXCEPT !.at = IF to = "APPROVED" THEN "approve" ELSE "decide",
                           !.by = Actor(s), !.claim = t, !.choice = claim[t].choice, !.to = to])
  /\ UNCHANGED <<attended, claim, commission, failures>>

\* createCommission: one per choice, priced only if an estimate was given.
Create(c) ==
  /\ commission[c].status = "none"
  /\ \E priced \in BOOLEAN:
       commission' = [commission EXCEPT ![c] = [status |-> "ESTIMATED", priced |-> priced]]

\* Mutant: createCommission is not awaited, so that its failure goes unnoticed.
ApproveCreateUnawaited(w) ==
  /\ work[w].at = "approve"
  /\ Create(work[w].choice) \/ UNCHANGED commission
  /\ Goto(w, "decide")
  /\ UNCHANGED <<attended, claim, failures>>
ApproveCreate(w) ==
  LET c == work[w].choice IN
  /\ work[w].at = "approve"
  /\ \/ Create(c) /\ Goto(w, "decide")
     \/ commission[c].status # "none" /\ Finish(w) /\ UNCHANGED commission
  /\ UNCHANGED <<attended, claim, failures>>

\* The decision is written by id; the index refuses to revive a claim that was
\* refused and submitted again meanwhile.
DecideWrite(w) ==
  LET t == work[w].claim IN
  /\ work[w].at = "decide"
  /\ IF work[w].to = "APPROVED" /\ LiveClaims(work[w].choice) \ {t} # {}
     THEN UNCHANGED claim
     ELSE claim' = [claim EXCEPT ![t] =
                      [@ EXCEPT !.status = work[w].to, !.decidedBy = work[w].by]]
  /\ Finish(w)
  /\ UNCHANGED <<attended, commission, failures>>

-----------------------------------------------------------------------------
\* The ledger.

\* The Record button: no claim at all.
RecordCommission(s, c) ==
  /\ MayRecord(s)
  /\ Create(c)
  /\ UNCHANGED <<attended, claim, work, failures>>

\* isValidStatusTransition.
Transitions == [
  none |-> {}, ESTIMATED |-> {"CONFIRMED", "CANCELLED"}, CONFIRMED |-> {"INVOICED", "CANCELLED"},
  INVOICED |-> {"PAID", "CANCELLED"}, PAID |-> {}, CANCELLED |-> {}]

\* confirmCommission and updateStatus: read, check, update by id.
MoveStart(w, s, c, to) ==
  /\ MayDecide(s)
  /\ to \in Transitions[commission[c].status]
  /\ Start(w, [Idle EXCEPT !.at = "move", !.by = Actor(s), !.choice = c, !.to = to])
  /\ UNCHANGED <<attended, claim, commission, failures>>

MoveWrite(w) ==
  /\ work[w].at = "move"
  /\ commission' = [commission EXCEPT ![work[w].choice].status = work[w].to]
  /\ Finish(w)
  /\ UNCHANGED <<attended, claim, failures>>

Fail(w) ==
  /\ work[w].at # "idle"
  /\ failures < MaxFailures
  /\ failures' = failures + 1
  /\ Finish(w)
  /\ UNCHANGED <<attended, claim, commission>>

Next ==
  \/ \E w \in Workers, s \in Staff:
       \/ \E c \in Choices:
            \/ AttendStart(w, s, c) \/ SubmitStart(w, s, c)
            \/ \E to \in Statuses: MoveStart(w, s, c, to)
       \/ \E t \in Claims, to \in {"APPROVED", "REJECTED"}: DecideStart(w, s, t, to)
  \/ \E w \in Workers:
       \/ AttendWrite(w) \/ SubmitWrite(w) \/ ApproveCreate(w) \/ DecideWrite(w)
       \/ MoveWrite(w) \/ Fail(w)
  \/ \E s \in Staff, c \in Choices: RecordCommission(s, c)
  \/ \E c \in Choices: FortnightPasses(c)

Spec == Init /\ [][Next]_ledgerVars

-----------------------------------------------------------------------------
\* Rows are well formed, every live request knows its staff member, and a
\* claim exists with its choice and its submitter.
TypeOK ==
  /\ attended \in [Choices -> {"none", "recent", "old"}]
  /\ claim \in [Claims -> [choice: Choices \cup {None}, by: Staff \cup {None},
                           status: ClaimStatuses, decidedBy: Staff \cup {None}]]
  /\ \A t \in Claims: claim[t].status # "none" => claim[t].choice \in Choices /\ claim[t].by \in Staff
  /\ commission \in [Choices -> [status: Statuses, priced: BOOLEAN]]
  /\ \A w \in Workers: work[w].at # "idle" => work[w].by \in Staff
  /\ failures \in 0..MaxFailures

\* "An approved trigger with no commission is a claim everyone believes was
\* actioned": whatever races or dies, approval implies the commission.
ApprovedHasCommission ==
  \A t \in Claims: claim[t].status = "APPROVED" => commission[claim[t].choice].status # "none"

\* "One live claim per choice", through refusals and re-submissions.
OneLiveClaim ==
  \A t, u \in Claims:
    /\ {claim[t].status, claim[u].status} \subseteq {"PENDING", "APPROVED"}
    /\ claim[t].choice = claim[u].choice
    => t = u

\* "A decided trigger cannot be decided again."
DecidedOnce ==
  [][\A t \in Claims: claim[t].status \in {"APPROVED", "REJECTED"} => claim'[t] = claim[t]]_ledgerVars

\* "Re-confirming does NOT move the date": the fortnight never starts again.
ClockNeverRestarts ==
  [][\A c \in Choices: attended[c] = "old" => attended'[c] = "old"]_ledgerVars

\* "One person claimed it and a different person agreed."
TwoPeopleAgree ==
  \A t \in Claims: claim[t].status = "APPROVED" => claim[t].decidedBy # claim[t].by

\* "Invalid status transition": the ledger only moves along isValidStatusTransition.
OnlyValidTransitions ==
  [][\A c \in Choices:
       commission[c].status \notin {"none", commission'[c].status}
       => commission'[c].status \in Transitions[commission[c].status]]_ledgerVars
=============================================================================
