--------------------------- MODULE OwnerApproval ---------------------------
(***************************************************************************)
(* Sensitive actions that wait for an owner.  An administrator files a     *)
(* request; an owner approves it, which executes the action at once, or    *)
(* rejects it; a request not decided in a week expires when somebody looks *)
(* at the list.  Every decision reads the row, checks it, and writes it by *)
(* id later.  Owners also act directly, without a request.                 *)
(***************************************************************************)
EXTENDS Naturals, FiniteSets

CONSTANTS
  Staff,
  RoleAtStart,  \* users.role
  Requests,     \* rows of owner_approval_requests that may be created
  Payloads,     \* what may be asked for: action type, whom or what, new role
  Rows,         \* rows of visa_case_assignments, for one slot of one case
  Workers,      \* HTTP requests in flight at once
  MaxActs,      \* bound: owners' direct acts, assignments by hand, reactivations
  MaxMishaps,   \* bound: deaths, and refunds whose answer is not recorded
  None

StaffKinds == {"CHANGE_STAFF_ROLE", "DEACTIVATE_STAFF", "HARD_DELETE_STAFF"}
\* CREATE_STAFF_USER, DELETE_CASE and DELETE_STUDENT also succeed only once.
OneOffKinds == {"CREATE_OR_DELETE", "ISSUE_REFUND"}
Kinds == StaffKinds \cup OneOffKinds \cup {"CHANGE_PLATFORM_SETTING"}

Roles == {"OWNER", "SUPER_ADMIN", "LIA"}

ASSUME ApprovalAssumption ==
  /\ None \notin Staff \cup Requests \cup Payloads \cup Rows
  /\ IsFiniteSet(Rows)
  /\ RoleAtStart \in [Staff -> Roles]
  /\ \A p \in Payloads:
       /\ p.kind \in Kinds
       /\ p.kind \in StaffKinds => p.about \in Staff
       /\ p.kind = "CHANGE_STAFF_ROLE" => p.to \in Roles
  /\ MaxActs \in Nat /\ MaxMishaps \in Nat

VARIABLES
  role,     \* users.role, or "gone" once the user row is deleted
  active,   \* staff without staffActiveStatus.isActive = false
  row,      \* owner_approval_requests
  late,     \* requests whose expiresAt has passed
  holder,   \* open assignment rows of the slot: who holds them
  used,     \* one-off actions that have been done
  task,     \* request-local: next step, row, actor, payload, slots to refill
  acts, mishaps,
  filedBy,  \* history: who filed a request
  doneBy    \* history: who carried it out

vars == <<role, active, row, late, holder, used, task, acts, mishaps, filedBy, doneBy>>

NoRow == [status |-> "none", by |-> None, load |-> None, decider |-> None]
Idle == [step |-> "idle", req |-> None, actor |-> None, load |-> None,
         left |-> 0, pick |-> None, prior |-> None, stale |-> {}]

Init ==
  /\ role = RoleAtStart
  /\ active = Staff
  /\ row = [r \in Requests |-> NoRow]
  /\ late = {}
  /\ holder \in {[x \in Rows |-> None]} \cup
                {[x \in Rows |-> IF x = first THEN s ELSE None]:
                   first \in Rows, s \in {t \in Staff: RoleAtStart[t] = "LIA"}}
  /\ used = {}
  /\ task = [w \in Workers |-> Idle]
  /\ acts = 0
  /\ mishaps = 0
  /\ filedBy = [r \in Requests |-> None]
  /\ doneBy = [r \in Requests |-> {}]

Exists(r) == row[r].status \notin {"none", "deleted"}
\* StaffRolesGuard reads the role and the status when the request comes in.
MayAct(s, roles) == s \in active /\ role[s] \in roles
OpenRows == {x \in Rows: holder[x] # None}

At(w, step) == task[w].step = step
Begin(w, t) == At(w, "idle") /\ task' = [task EXCEPT ![w] = t]
Step(w, step) == task' = [task EXCEPT ![w].step = step]
Finish(w) == task' = [task EXCEPT ![w] = Idle]
\* Mutant: an executor that throws leaves the row as it is.
ReportUnlessFailed(w, outcome) ==
  IF task[w].req = None \/ outcome = "failed" THEN Finish(w) ELSE Step(w, outcome)
\* The executor returned or threw: the row is told, if there is one.
Report(w, outcome) == IF task[w].req = None THEN Finish(w) ELSE Step(w, outcome)

Act == acts < MaxActs /\ acts' = acts + 1
Mishap == mishaps < MaxMishaps /\ mishaps' = mishaps + 1

-----------------------------------------------------------------------------
\* Requests and decisions.

\* requestApproval, by a super admin or, for a refund, any administrator.
RequestApproval(r, s, p) ==
  /\ row[r] = NoRow
  /\ \/ MayAct(s, {"SUPER_ADMIN"})
     \/ p.kind = "ISSUE_REFUND" /\ MayAct(s, {"OWNER"}) /\ p.about \notin used
  /\ row' = [row EXCEPT ![r] = [status |-> "PENDING", by |-> s, load |-> p, decider |-> None]]
  /\ filedBy' = [filedBy EXCEPT ![r] = s]
  /\ UNCHANGED <<role, active, late, holder, used, task, acts, mishaps, doneBy>>

\* Mutant: an owner approves what they filed.
MayApproveOwn(r, o) == row[r].status = "PENDING"
MayApprove(r, o) == row[r].status = "PENDING" /\ row[r].by # o

Approve(w, o, r) ==
  /\ MayAct(o, {"OWNER"})
  /\ MayApprove(r, o)
  /\ Begin(w, [Idle EXCEPT !.step = IF r \in late THEN "expire" ELSE "approve",
                           !.req = r, !.actor = o, !.load = row[r].load])
  /\ UNCHANGED <<role, active, row, late, holder, used, acts, mishaps, filedBy, doneBy>>

Reject(w, o, r) ==
  /\ MayAct(o, {"OWNER"})
  /\ row[r].status = "PENDING"
  /\ Begin(w, [Idle EXCEPT !.step = "reject", !.req = r, !.actor = o])
  /\ UNCHANGED <<role, active, row, late, holder, used, acts, mishaps, filedBy, doneBy>>

\* The update by id; a row deleted meanwhile makes it throw.
Mark(w, status) ==
  LET r == task[w].req IN
  row' = IF Exists(r)
         THEN [row EXCEPT ![r].status = status,
                          ![r].decider = IF status \in {"APPROVED", "REJECTED"}
                                         THEN task[w].actor ELSE @]
         ELSE row

MarkApproved(w) ==
  /\ At(w, "approve")
  /\ Mark(w, "APPROVED")
  /\ IF Exists(task[w].req) THEN Step(w, "execute") ELSE Finish(w)
  /\ UNCHANGED <<role, active, late, holder, used, acts, mishaps, filedBy, doneBy>>

\* Mutant: an executor that threw counts as one that returned.
OutcomesBlurred == [expire |-> "EXPIRED", reject |-> "REJECTED",
                    executed |-> "EXECUTED", failed |-> "EXECUTED"]
Outcomes == [expire |-> "EXPIRED", reject |-> "REJECTED",
             executed |-> "EXECUTED", failed |-> "EXECUTION_FAILED"]

MarkOutcome(w) ==
  /\ task[w].step \in DOMAIN Outcomes
  /\ Mark(w, Outcomes[task[w].step])
  /\ Finish(w)
  /\ UNCHANGED <<role, active, late, holder, used, acts, mishaps, filedBy, doneBy>>

\* sweepExpired: what was PENDING when it was read is EXPIRED when it is written.
SweepExpired(w) ==
  LET stale == {r \in late: row[r].status = "PENDING"} IN
  /\ stale # {}
  /\ Begin(w, [Idle EXCEPT !.step = "sweep", !.stale = stale])
  /\ UNCHANGED <<role, active, row, late, holder, used, acts, mishaps, filedBy, doneBy>>

MarkSwept(w) ==
  /\ At(w, "sweep")
  /\ row' = [r \in Requests |->
       IF r \in task[w].stale /\ Exists(r) THEN [row[r] EXCEPT !.status = "EXPIRED"] ELSE row[r]]
  /\ Finish(w)
  /\ UNCHANGED <<role, active, late, holder, used, acts, mishaps, filedBy, doneBy>>

WeekPasses(r) ==
  /\ Exists(r) /\ r \notin late
  /\ late' = late \cup {r}
  /\ UNCHANGED <<role, active, row, holder, used, task, acts, mishaps, filedBy, doneBy>>

-----------------------------------------------------------------------------
\* executeApprovedAction.

Executing(w, kinds) == At(w, "execute") /\ task[w].load.kind \in kinds
\* The request is charged to whoever approved it.
Done(w) ==
  doneBy' = IF task[w].req = None THEN doneBy
            ELSE [doneBy EXCEPT ![task[w].req] = @ \cup {task[w].actor}]

\* What the executor refuses before it changes anything.
Refused(w) ==
  LET p == task[w].load IN
  CASE p.kind = "HARD_DELETE_STAFF" -> p.about = task[w].actor \/ role[p.about] \in {"OWNER", "gone"}
    [] p.kind \in {"CHANGE_STAFF_ROLE", "DEACTIVATE_STAFF"} -> role[p.about] = "gone"
    [] p.kind \in OneOffKinds -> p.about \in used
    [] OTHER -> FALSE

ExecRefused(w) ==
  /\ Executing(w, Kinds)
  /\ Refused(w)
  /\ Report(w, "failed")
  /\ UNCHANGED <<role, active, row, late, holder, used, acts, mishaps, filedBy, doneBy>>

ExecChangeStaffRole(w) ==
  /\ Executing(w, {"CHANGE_STAFF_ROLE"}) /\ ~Refused(w)
  /\ role' = [role EXCEPT ![task[w].load.about] = task[w].load.to]
  /\ Done(w)
  /\ Report(w, "executed")
  /\ UNCHANGED <<active, row, late, holder, used, acts, mishaps, filedBy>>

ExecDeactivateStaff(w) ==
  /\ Executing(w, {"DEACTIVATE_STAFF"}) /\ ~Refused(w)
  /\ active' = active \ {task[w].load.about}
  /\ Done(w)
  /\ Step(w, "close")
  /\ UNCHANGED <<role, row, late, holder, used, acts, mishaps, filedBy>>

\* The open rows of the person who leaves; each is refilled in turn.
HeldBy(s) == {x \in Rows: holder[x] = s}
Vacate(s) == holder' = [x \in Rows |-> IF holder[x] = s THEN None ELSE holder[x]]
Refill(w, n) ==
  IF n = 0 THEN Report(w, "executed")
  ELSE task' = [task EXCEPT ![w].step = "pick", ![w].left = n]

CloseAllAssignments(w) ==
  /\ At(w, "close")
  /\ Vacate(task[w].load.about)
  /\ Refill(w, Cardinality(HeldBy(task[w].load.about)))
  /\ UNCHANGED <<role, active, row, late, used, acts, mishaps, filedBy, doneBy>>

\* One transaction: assignments, requests and the user row go; or another table
\* still refers to the user.
ExecHardDeleteStaff(w) ==
  LET s == task[w].load.about IN
  /\ Executing(w, {"HARD_DELETE_STAFF"}) /\ ~Refused(w)
  /\ \/ /\ role' = [role EXCEPT ![s] = "gone"]
        /\ active' = active \ {s}
        /\ row' = [r \in Requests |->
             IF Exists(r) /\ row[r].by = s THEN [NoRow EXCEPT !.status = "deleted"]
             ELSE IF row[r].decider = s THEN [row[r] EXCEPT !.decider = None] ELSE row[r]]
        /\ Vacate(s)
        /\ Refill(w, Cardinality(HeldBy(s)))
        /\ Done(w)
     \/ /\ Report(w, "failed")
        /\ UNCHANGED <<role, active, row, holder, doneBy>>
  /\ UNCHANGED <<late, used, acts, mishaps, filedBy>>

\* A setting is written whatever it was; the others succeed once.
ExecOneOff(w) ==
  /\ Executing(w, OneOffKinds \cup {"CHANGE_PLATFORM_SETTING"}) /\ ~Refused(w)
  /\ used' = used \cup {task[w].load.about}
  /\ Done(w)
  /\ \/ Report(w, "executed") /\ UNCHANGED mishaps
     \/ task[w].load.kind = "ISSUE_REFUND" /\ Report(w, "failed") /\ Mishap
  /\ UNCHANGED <<role, active, row, late, holder, acts, filedBy>>

-----------------------------------------------------------------------------
\* Assignments of the slot.

MayHold(s) == s \in active /\ role[s] = "LIA"

\* autoAllocate: the candidates are read; anybody may have the lowest load.
AutoAllocate(w) ==
  /\ At(w, "pick")
  /\ IF \E s \in Staff: MayHold(s)
     THEN \E s \in Staff: MayHold(s) /\ task' = [task EXCEPT ![w].step = "open", ![w].pick = s]
     ELSE Report(w, "executed")
  /\ UNCHANGED <<role, active, row, late, holder, used, acts, mishaps, filedBy, doneBy>>

\* manualAssign by an administrator.
ManualAssign(w, o, s) ==
  /\ MayAct(o, {"OWNER", "SUPER_ADMIN"})
  /\ MayHold(s)
  /\ Act
  /\ Begin(w, [Idle EXCEPT !.step = "open", !.actor = o, !.left = 1, !.pick = s])
  /\ UNCHANGED <<role, active, row, late, holder, used, mishaps, filedBy, doneBy>>

\* openAssignment: one transaction, but it locks nothing it reads.
OpenRead(w) ==
  /\ At(w, "open")
  /\ \E x \in OpenRows \cup {None}:
       /\ x = None => OpenRows = {}
       /\ IF x # None /\ holder[x] = task[w].pick THEN Refill(w, task[w].left - 1)
          ELSE task' = [task EXCEPT ![w].step = "opening", ![w].prior = x]
  /\ UNCHANGED <<role, active, row, late, holder, used, acts, mishaps, filedBy, doneBy>>

\* A hard delete may have taken the person picked: then the insert fails.
OpenWrite(w) ==
  LET t == task[w] IN
  /\ At(w, "opening")
  /\ IF role[t.pick] = "gone" THEN UNCHANGED holder
     ELSE \E x \in Rows \ OpenRows:
            holder' = [y \in Rows |-> IF y = x THEN t.pick
                                      ELSE IF y = t.prior THEN None ELSE holder[y]]
  /\ Refill(w, t.left - 1)
  /\ UNCHANGED <<role, active, row, late, used, acts, mishaps, filedBy, doneBy>>

-----------------------------------------------------------------------------
\* ownerOrEnqueue for an owner: the executor, without a request.
ActDirectly(w, o, p) ==
  /\ p.kind \in StaffKinds
  /\ MayAct(o, {"OWNER"})
  /\ Act
  /\ Begin(w, [Idle EXCEPT !.step = "execute", !.actor = o, !.load = p])
  /\ UNCHANGED <<role, active, row, late, holder, used, mishaps, filedBy, doneBy>>

Reactivate(o, s) ==
  /\ MayAct(o, {"OWNER", "SUPER_ADMIN"})
  /\ s \notin active /\ role[s] # "gone"
  /\ Act
  /\ active' = active \cup {s}
  /\ UNCHANGED <<role, row, late, holder, used, task, mishaps, filedBy, doneBy>>

\* The process dies: an approved request is not taken up again.
Die(w) ==
  /\ ~At(w, "idle")
  /\ Mishap
  /\ Finish(w)
  /\ UNCHANGED <<role, active, row, late, holder, used, acts, filedBy, doneBy>>

Execute(w) ==
  \/ ExecRefused(w) \/ ExecChangeStaffRole(w) \/ ExecDeactivateStaff(w)
  \/ CloseAllAssignments(w) \/ ExecHardDeleteStaff(w) \/ ExecOneOff(w)

Advance(w) ==
  \/ MarkApproved(w) \/ MarkOutcome(w) \/ MarkSwept(w) \/ Execute(w)
  \/ AutoAllocate(w) \/ OpenRead(w) \/ OpenWrite(w)

Next ==
  \/ \E r \in Requests:
       WeekPasses(r) \/ \E s \in Staff, p \in Payloads: RequestApproval(r, s, p)
  \/ \E w \in Workers:
       \/ Advance(w) \/ Die(w) \/ SweepExpired(w)
       \/ \E o \in Staff:
            \/ \E r \in Requests: Approve(w, o, r) \/ Reject(w, o, r)
            \/ \E s \in Staff: ManualAssign(w, o, s)
            \/ \E p \in Payloads: ActDirectly(w, o, p)
  \/ \E o, s \in Staff: Reactivate(o, s)

Spec == Init /\ [][Next]_vars
\* A request that has been taken up runs on.
FairSpec == Spec /\ \A w \in Workers: WF_vars(Advance(w))

-----------------------------------------------------------------------------
RowStatuses == {"none", "deleted", "PENDING", "APPROVED", "REJECTED", "EXPIRED",
                "EXECUTED", "EXECUTION_FAILED"}
Steps == {"idle", "approve", "reject", "expire", "sweep", "execute", "executed", "failed",
          "close", "pick", "open", "opening"}

RowType == [status: RowStatuses, by: Staff \cup {None},
            load: Payloads \cup {None}, decider: Staff \cup {None}]
TaskType == [step: Steps, req: Requests \cup {None}, actor: Staff \cup {None},
             load: Payloads \cup {None}, left: Nat,
             pick: Staff \cup {None}, prior: Rows \cup {None}, stale: SUBSET Requests]

\* Rows, locals and history are well formed; a row that exists names who filed it.
TypeOK ==
  /\ role \in [Staff -> Roles \cup {"gone"}] /\ active \subseteq Staff
  /\ row \in [Requests -> RowType]
  /\ \A r \in Requests: Exists(r) => row[r].load # None /\ row[r].by = filedBy[r]
  /\ late \subseteq Requests /\ holder \in [Rows -> Staff \cup {None}]
  /\ task \in [Workers -> TaskType]
  /\ acts \in 0..MaxActs /\ mishaps \in 0..MaxMishaps
  /\ filedBy \in [Requests -> Staff \cup {None}]
  /\ doneBy \in [Requests -> SUBSET Staff]

\* "The approver must never be the requester": through two owners who decide
\* at once, a requester who is promoted or deleted meanwhile, a sweep and a
\* row that is overwritten, whoever carries a request out did not file it.
Rule == INSTANCE TwoPersonRule
  WITH Items <- Requests, People <- Staff, Nobody <- None, opener <- filedBy, doers <- doneBy
ImplementsTwoPersonRule == Rule!Spec

\* EXECUTED means that the action took place, whatever else was decided about
\* the row at the same time.
ExecutedTookPlace == \A r \in Requests: row[r].status = "EXECUTED" => doneBy[r] # {}

\* An approved request ends as something else, unless the process died.
ApprovedEnds ==
  \A r \in Requests: row[r].status = "APPROVED" ~> row[r].status # "APPROVED" \/ mishaps > 0

\* "A throw here lands the request in EXECUTION_FAILED with no money moved."
FailedMovedNothing ==
  \A r \in Requests:
    row[r].status = "EXECUTION_FAILED" /\ row[r].load.kind = "ISSUE_REFUND" => doneBy[r] = {}

\* A rejected or expired request is never carried out.
RefusedIsNotDone ==
  \A r \in Requests: row[r].status \in {"REJECTED", "EXPIRED"} => doneBy[r] = {}

\* "can't leave two active rows for the same (case, roleSlot)".
OneHolder == Cardinality(OpenRows) <= 1

\* With nothing under way, nobody who was deactivated still holds the slot.
LeaversHoldNothing ==
  (\A w \in Workers: At(w, "idle")) => \A x \in OpenRows: holder[x] \in active
=============================================================================
