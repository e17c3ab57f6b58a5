--------------------------- MODULE AgentPayables ---------------------------
(***************************************************************************)
(* What Sorena owes introducing agents: every ledger read derives missing  *)
(* payables from the commissions, Finance agrees or refuses each, and an   *)
(* owner who is not the approver releases the money.                       *)
(***************************************************************************)
EXTENDS Commissions

CONSTANTS
  Introduced,   \* choices whose lead an agent introduced
  Payables,     \* rows of agent_payables that may be created
  Jobs          \* payable requests in flight at once

ASSUME PayablesAssumption == Introduced \subseteq Choices /\ None \notin Payables

VARIABLES
  payable,   \* agent_payables
  job        \* request-local state

payableVars == <<payable, job>>
vars == <<ledgerVars, payableVars>>

PayableStatuses == {"none", "PENDING", "APPROVED", "PAID", "REJECTED"}
NoPayable == [choice |-> None, status |-> "none", approvedBy |-> None, paidBy |-> None]
NoJob == [at |-> "idle", by |-> None, row |-> None, todo |-> {}]

PayablesInit ==
  /\ Init
  /\ payable = [p \in Payables |-> NoPayable]
  /\ job = [j \in Jobs |-> NoJob]

MayApprove(s) == Has(s, {"FINANCE", "SUPER_ADMIN", "OWNER"})
MayRelease(s) == Has(s, {"OWNER"})

StartJob(j, local) == job[j].at = "idle" /\ job' = [job EXCEPT ![j] = local]
EndJob(j) == job' = [job EXCEPT ![j] = NoJob]

-----------------------------------------------------------------------------
\* syncFromCommissions.

\* Commissions no payable has ever been derived from.
Candidates ==
  {c \in Introduced:
     /\ commission[c].status \notin {"none", "CANCELLED"}
     /\ commission[c].priced
     /\ \A p \in Payables: payable[p].choice # c}

SyncStart(j) ==
  /\ Candidates # {}
  /\ StartJob(j, [NoJob EXCEPT !.at = "sync", !.todo = Candidates])
  /\ UNCHANGED <<ledgerVars, payable>>

\* Mutant: agent_payables_one_live_per_commission is missing.
LivePayableIgnored(c) == FALSE
LivePayable(c) ==
  \E p \in Payables: payable[p].choice = c /\ payable[p].status \in {"PENDING", "APPROVED", "PAID"}

\* One insert per candidate; a refusal by the partial index is swallowed.
SyncInsert(j) ==
  /\ job[j].at = "sync"
  /\ \E c \in job[j].todo:
       /\ \/ LivePayable(c) /\ UNCHANGED payable
          \/ /\ ~LivePayable(c)
             /\ \E p \in Payables:
                  /\ payable[p].status = "none"
                  /\ payable' = [payable EXCEPT ![p] =
                       [NoPayable EXCEPT !.choice = c, !.status = "PENDING"]]
       /\ IF job[j].todo = {c} THEN EndJob(j) ELSE job' = [job EXCEPT ![j].todo = @ \ {c}]
  /\ UNCHANGED ledgerVars

-----------------------------------------------------------------------------
\* Decisions: read and check, then a conditional update.

\* Mutant: the approver may release.
SamePersonAllowed(s, p) == FALSE
SamePerson(s, p) == payable[p].approvedBy = s

\* Mutant: the update goes by id, without the status in its WHERE clause.
StillUnchecked(p, from) == TRUE
Still(p, from) == payable[p].status = from

ApproveStart(j, s, p) ==
  /\ MayApprove(s)
  /\ payable[p].status = "PENDING"
  /\ StartJob(j, [NoJob EXCEPT !.at = "approve", !.by = Actor(s), !.row = p])
  /\ UNCHANGED <<ledgerVars, payable>>

Approve(j) ==
  LET p == job[j].row IN
  /\ job[j].at = "approve"
  /\ payable' = IF Still(p, "PENDING")
                THEN [payable EXCEPT ![p].status = "APPROVED", ![p].approvedBy = job[j].by]
                ELSE payable
  /\ EndJob(j)
  /\ UNCHANGED ledgerVars

RejectStart(j, s, p) ==
  /\ MayApprove(s)
  /\ payable[p].status = "PENDING"
  /\ StartJob(j, [NoJob EXCEPT !.at = "reject", !.by = Actor(s), !.row = p])
  /\ UNCHANGED <<ledgerVars, payable>>

Reject(j) ==
  LET p == job[j].row IN
  /\ job[j].at = "reject"
  /\ payable' = IF Still(p, "PENDING")
                THEN [payable EXCEPT ![p].status = "REJECTED"]
                ELSE payable
  /\ EndJob(j)
  /\ UNCHANGED ledgerVars

ReleaseStart(j, s, p) ==
  /\ MayRelease(s)
  /\ payable[p].status = "APPROVED"
  /\ ~SamePerson(s, p)
  /\ StartJob(j, [NoJob EXCEPT !.at = "release", !.by = Actor(s), !.row = p])
  /\ UNCHANGED <<ledgerVars, payable>>

Release(j) ==
  LET p == job[j].row IN
  /\ job[j].at = "release"
  /\ payable' = IF Still(p, "APPROVED")
                THEN [payable EXCEPT ![p].status = "PAID", ![p].paidBy = job[j].by]
                ELSE payable
  /\ EndJob(j)
  /\ UNCHANGED ledgerVars

JobFails(j) ==
  /\ job[j].at # "idle"
  /\ failures < MaxFailures
  /\ failures' = failures + 1
  /\ EndJob(j)
  /\ UNCHANGED <<attended, claim, commission, work, payable>>

PayablesNext ==
  \/ Next /\ UNCHANGED payableVars
  \/ \E j \in Jobs:
       \/ SyncStart(j) \/ SyncInsert(j) \/ Approve(j) \/ Reject(j) \/ Release(j) \/ JobFails(j)
       \/ \E s \in Staff, p \in Payables:
            ApproveStart(j, s, p) \/ RejectStart(j, s, p) \/ ReleaseStart(j, s, p)

PayablesSpec == PayablesInit /\ [][PayablesNext]_vars

-----------------------------------------------------------------------------
\* Rows and request-local states are well formed; a row that exists belongs to
\* an introduced choice.
PayablesTypeOK ==
  /\ payable \in [Payables -> [choice: Introduced \cup {None}, status: PayableStatuses,
                               approvedBy: Staff \cup {None}, paidBy: Staff \cup {None}]]
  /\ \A p \in Payables: payable[p].status # "none" => payable[p].choice \in Introduced
  /\ job \in [Jobs -> [at: {"idle", "sync", "approve", "reject", "release"},
                       by: Staff \cup {None}, row: Payables \cup {None},
                       todo: SUBSET Introduced]]
  /\ \A j \in Jobs: job[j].at \in {"approve", "reject", "release"} =>
       job[j].by \in Staff /\ job[j].row \in Payables

\* "Two people, always": money only leaves when one person approved the debt
\* and a different one, an owner, released it.
TwoPeoplePay ==
  \A p \in Payables: payable[p].status = "PAID" =>
    /\ payable[p].approvedBy \in Staff /\ payable[p].paidBy \in Staff
    /\ payable[p].approvedBy # payable[p].paidBy
    /\ MayRelease(payable[p].paidBy)

\* "Only one live payable per commission": a share is never owed, nor paid, twice.
OneLivePayable ==
  \A p, q \in Payables:
    /\ {payable[p].status, payable[q].status} \subseteq {"PENDING", "APPROVED", "PAID"}
    /\ payable[p].choice = payable[q].choice
    => p = q

\* "Two callers racing on the same row cannot both succeed": a decision is never
\* overwritten, by whichever request comes late.
DecisionsStand ==
  [][\A p \in Payables:
       /\ payable[p].status \in {"PAID", "REJECTED"} => payable'[p] = payable[p]
       /\ payable[p].status = "APPROVED" =>
            /\ payable'[p].status \in {"APPROVED", "PAID"}
            /\ payable'[p].approvedBy = payable[p].approvedBy]_vars

\* A refused share is not derived again "by itself".
RefusalStands ==
  [][\A p \in Payables:
       payable[p].status = "none" /\ payable'[p].status = "PENDING"
       => \A q \in Payables: payable[q].choice # payable'[p].choice]_vars

\* "Paying a share of money already earned": what was paid out comes from a
\* commission the provider has paid.
PaidFromEarned ==
  \A p \in Payables: payable[p].status = "PAID" => commission[payable[p].choice].status = "PAID"
=============================================================================
