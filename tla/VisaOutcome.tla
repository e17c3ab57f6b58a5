----------------------------- MODULE VisaOutcome -----------------------------
(***************************************************************************)
(* The last stretch of one case: submission to Immigration New Zealand,    *)
(* the outcome it gives, and their corrections.  The stage, the INZ number *)
(* and the visa row are the record; the statuses of the case's             *)
(* applications are derived from it, one by one and best effort.           *)
(* Every request reads the case once and writes it by id later.            *)
(***************************************************************************)
EXTENDS Naturals, Sequences

CONSTANTS
  Apps,            \* rows of applications on the case
  InitialStatuses, \* statuses they may have when the case enters the visa stage
  Officers,        \* active SUPPORT staff
  Numbers,         \* INZ application numbers typed by the adviser
  Workers,         \* requests in flight at once
  MaxRequests,     \* bound: requests served
  MaxHand,         \* bound: stages, statuses and carers set by hand
  MaxFailures,     \* bound: failed statements and deaths of the process
  None

\* isValidStatusTransition.
Transitions ==
  [PREPARATION |-> {"SUBMITTED"},
   SUBMITTED |-> {"OFFER_RECEIVED", "WITHDRAWN"},
   OFFER_RECEIVED |-> {"OFFER_ACCEPTED", "WITHDRAWN"},
   OFFER_ACCEPTED |-> {"VISA_SUBMITTED", "WITHDRAWN"},
   VISA_SUBMITTED |-> {"VISA_APPROVED", "VISA_DECLINED", "WITHDRAWN"},
   VISA_APPROVED |-> {},
   VISA_DECLINED |-> {"SUBMITTED"},
   WITHDRAWN |-> {}]
Statuses == DOMAIN Transitions
Stages == {"ADMISSION", "VISA", "INZ_SUBMITTED", "COMPLETED", "WITHDRAWN"}
Outcomes == {"APPROVED", "DECLINED"}

ASSUME VisaAssumption ==
  /\ InitialStatuses \subseteq Statuses
  /\ None \notin Officers \cup Numbers
  /\ MaxRequests \in Nat /\ MaxHand \in Nat /\ MaxFailures \in Nat

VARIABLES
  stage,    \* cases.stage
  inz,      \* cases.inzApplicationNumber, or None
  visa,     \* the outcome in the case's visa row, or "none"
  carer,    \* cases.supportId
  app,      \* applications.status
  req,      \* request-local: the steps still to take
  served,
  history   \* what has happened that a property allows for

vars == <<stage, inz, visa, carer, app, req, served, history>>

Idle == [todo |-> <<>>, arg |-> None, found |-> {}]

Init ==
  /\ stage = "VISA" /\ inz = None /\ visa = "none" /\ carer = None
  /\ app \in [Apps -> InitialStatuses]
  /\ req = [w \in Workers |-> Idle]
  /\ served = 0
  /\ history = [overlap |-> FALSE, stage |-> FALSE, apps |-> {}, care |-> FALSE,
                hand |-> 0, failures |-> 0]

-----------------------------------------------------------------------------
\* Steps of requests.

Step(do) == [do |-> do, from |-> None, to |-> None]
Shift(from, to) == [do |-> "shift", from |-> from, to |-> to]

Submission == <<Step("submit"), Shift("OFFER_ACCEPTED", "VISA_SUBMITTED")>>
Unsubmission == <<Shift("VISA_SUBMITTED", "OFFER_ACCEPTED"), Step("unsubmit")>>
Approval == <<Step("record"), Step("care"), Shift("VISA_SUBMITTED", "VISA_APPROVED")>>
Refusal == <<Step("record"), Shift("VISA_SUBMITTED", "VISA_DECLINED")>>
Undoing == <<Shift("VISA_APPROVED", "VISA_SUBMITTED"), Shift("VISA_DECLINED", "VISA_SUBMITTED"),
             Step("lookup"), Step("unrecord")>>

Busy == {w \in Workers: req[w] # Idle}
Doing(w, do) == req[w].todo # <<>> /\ Head(req[w].todo).do = do
Goto(w, steps) ==
  req' = [req EXCEPT ![w] =
    IF steps = <<>> THEN Idle ELSE [todo |-> steps, arg |-> req[w].arg, found |-> {}]]
Onward(w) == Goto(w, Tail(req[w].todo))
Ends(w) == Goto(w, <<>>)

Start(w, steps, arg) ==
  /\ served < MaxRequests
  /\ req[w] = Idle
  /\ req' = [req EXCEPT ![w] = [todo |-> steps, arg |-> arg, found |-> {}]]
  /\ served' = served + 1
  /\ history' = [history EXCEPT !.overlap = @ \/ Busy # {}]
  /\ UNCHANGED <<stage, inz, visa, carer, app>>

-----------------------------------------------------------------------------
\* The requests, each with the guard of its first read.

SubmitToInz(w, n) == stage = "VISA" /\ inz = None /\ Start(w, Submission, n)
EditInzSubmission(w, n) == stage = "INZ_SUBMITTED" /\ Start(w, <<Step("edit")>>, n)
RevertInzSubmission(w) == stage = "INZ_SUBMITTED" /\ Start(w, Unsubmission, None)

Decidable == stage = "INZ_SUBMITTED" /\ visa = "none"
IssueApprovedVisa(w) == Decidable /\ Start(w, Approval, "APPROVED")
RecordDeclinedVisa(w) == Decidable /\ Start(w, Refusal, "DECLINED")

\* The statuses go back before the visa is looked up: there is no guard.
RevertVisaRecord(w) == Start(w, Undoing, None)

\* PATCH /applications/:id/status validates the status it has read.
UpdateStatus(w, a, to) ==
  /\ history.hand < MaxHand
  /\ to \in Transitions[app[a]]
  /\ req[w] = Idle
  /\ req' = [req EXCEPT ![w] = [todo |-> <<[do |-> "set", from |-> app[a], to |-> to]>>,
                                arg |-> a, found |-> {}]]
  /\ history' = [history EXCEPT !.overlap = @ \/ Busy # {}, !.hand = @ + 1,
                                !.apps = @ \cup {a}]
  /\ UNCHANGED <<stage, inz, visa, carer, app, served>>

-----------------------------------------------------------------------------
\* The transactions.  None of them looks at the stage again.

WriteSubmission(w) ==
  /\ Doing(w, "submit")
  /\ stage' = "INZ_SUBMITTED" /\ inz' = req[w].arg
  /\ Onward(w)
  /\ UNCHANGED <<visa, carer, app, served, history>>

WriteEdit(w) ==
  /\ Doing(w, "edit")
  /\ inz' = req[w].arg
  /\ Onward(w)
  /\ UNCHANGED <<stage, visa, carer, app, served, history>>

\* Mutant: the stage goes back, the number stays.
UnsubmittedKeepingNumber(n) == n
Unsubmitted(n) == None

WriteUnsubmission(w) ==
  /\ Doing(w, "unsubmit")
  /\ stage' = "VISA" /\ inz' = Unsubmitted(inz)
  /\ Onward(w)
  /\ UNCHANGED <<visa, carer, app, served, history>>

\* Mutant: without the unique index on visas.caseId the last one wins.
RecordableAlways == TRUE
Recordable == visa = "none"

\* The insert of a second visa row fails and rolls the request back.
WriteOutcome(w) ==
  /\ Doing(w, "record")
  /\ IF Recordable
     THEN visa' = req[w].arg /\ stage' = "COMPLETED" /\ Onward(w)
     ELSE Ends(w) /\ UNCHANGED <<visa, stage>>
  /\ UNCHANGED <<inz, carer, app, served, history>>

FindVisa(w) ==
  /\ Doing(w, "lookup")
  /\ IF visa = "none" THEN Ends(w) ELSE Onward(w)
  /\ UNCHANGED <<stage, inz, visa, carer, app, served, history>>

\* Mutant: the row is deleted and the stage left where it is.
ReopenedNot(s) == s
Reopened(s) == "INZ_SUBMITTED"

\* Deletes the row of the case, whichever it is by now; no row rolls it back.
DeleteVisa(w) ==
  /\ Doing(w, "unrecord")
  /\ IF visa = "none" THEN UNCHANGED <<visa, stage>>
     ELSE visa' = "none" /\ stage' = Reopened(stage)
  /\ Ends(w)
  /\ UNCHANGED <<inz, carer, app, served, history>>

-----------------------------------------------------------------------------
\* What follows, or precedes, a transaction.

PickCarer == Officers

AssignCarer(w) ==
  /\ Doing(w, "care")
  /\ IF req[w].found # {}
     THEN carer' \in req[w].found /\ Onward(w)
     ELSE /\ IF carer # None \/ PickCarer = {} THEN Onward(w)
             ELSE \E s \in PickCarer: req' = [req EXCEPT ![w].found = {s}]
          /\ UNCHANGED carer
  /\ UNCHANGED <<stage, inz, visa, app, served, history>>

\* Mutant: every application of the case is carried along.
CandidatesAll(from) == Apps
Candidates(from) == {a \in Apps: app[a] = from}

FindApplications(w) ==
  /\ Doing(w, "shift") /\ req[w].found = {}
  /\ LET found == Candidates(Head(req[w].todo).from) IN
     IF found = {} THEN Onward(w) ELSE req' = [req EXCEPT ![w].found = found]
  /\ UNCHANGED <<stage, inz, visa, carer, app, served, history>>

\* One update by id for each application found.
MoveApplication(w, a) ==
  /\ Doing(w, "shift") /\ a \in req[w].found
  /\ app' = [app EXCEPT ![a] = Head(req[w].todo).to]
  /\ IF req[w].found = {a} THEN Onward(w) ELSE req' = [req EXCEPT ![w].found = @ \ {a}]
  /\ UNCHANGED <<stage, inz, visa, carer, served, history>>

WriteStatus(w) ==
  /\ Doing(w, "set")
  /\ app' = [app EXCEPT ![req[w].arg] = Head(req[w].todo).to]
  /\ Onward(w)
  /\ UNCHANGED <<stage, inz, visa, carer, served, history>>

-----------------------------------------------------------------------------
\* By hand and by accident.

\* PATCH /cases/:id takes any stage; a legal decision takes the case out.
SetStage(s) ==
  /\ history.hand < MaxHand
  /\ stage' = s
  /\ history' = [history EXCEPT !.stage = TRUE, !.hand = @ + 1]
  /\ UNCHANGED <<inz, visa, carer, app, req, served>>
UpdateCase(s) == SetStage(s)
RecordWithdrawal == SetStage("WITHDRAWN")

ReassignSupport(s) ==
  /\ history.hand < MaxHand
  /\ s \in Officers \cup {None}
  /\ carer' = s
  /\ history' = [history EXCEPT !.care = TRUE, !.hand = @ + 1]
  /\ UNCHANGED <<stage, inz, visa, app, req, served>>

\* Both shifts of a correction are in one try: the first failure skips both.
AfterShifts(todo) ==
  IF Tail(todo) # <<>> /\ todo[2].do = "shift" THEN Tail(Tail(todo)) ELSE Tail(todo)

\* A statement fails.  Shifts and the carer are best effort; a transaction
\* that fails ends its request with an error.  A correction has moved the
\* statuses back by then, outside of its transaction.
Derived(w) == \E step \in {"shift", "unsubmit", "lookup", "unrecord"}: Doing(w, step)

StepFails(w) ==
  /\ history.failures < MaxFailures
  /\ req[w] # Idle
  /\ CASE Doing(w, "shift") -> Goto(w, AfterShifts(req[w].todo))
       [] Doing(w, "care") -> Onward(w)
       [] OTHER -> Ends(w)
  /\ history' = [history EXCEPT !.failures = @ + 1, !.care = @ \/ Doing(w, "care"),
                                !.apps = IF Derived(w) THEN Apps ELSE @]
  /\ UNCHANGED <<stage, inz, visa, carer, app, served>>

\* The process dies: the rest of the request is never done.
RequestDies(w) ==
  /\ history.failures < MaxFailures
  /\ req[w] # Idle
  /\ Ends(w)
  /\ history' = [history EXCEPT !.failures = @ + 1, !.care = TRUE, !.apps = Apps]
  /\ UNCHANGED <<stage, inz, visa, carer, app, served>>

Next ==
  \/ \E w \in Workers:
       \/ \E n \in Numbers: SubmitToInz(w, n) \/ EditInzSubmission(w, n)
       \/ RevertInzSubmission(w) \/ IssueApprovedVisa(w) \/ RecordDeclinedVisa(w)
       \/ RevertVisaRecord(w)
       \/ \E a \in Apps, to \in Statuses: UpdateStatus(w, a, to)
       \/ WriteSubmission(w) \/ WriteEdit(w) \/ WriteUnsubmission(w)
       \/ WriteOutcome(w) \/ FindVisa(w) \/ DeleteVisa(w)
       \/ AssignCarer(w) \/ FindApplications(w) \/ WriteStatus(w)
       \/ \E a \in Apps: MoveApplication(w, a)
       \/ StepFails(w) \/ RequestDies(w)
  \/ \E s \in Stages: UpdateCase(s)
  \/ RecordWithdrawal
  \/ \E s \in Officers \cup {None}: ReassignSupport(s)

Spec == Init /\ [][Next]_vars

-----------------------------------------------------------------------------
Rest == Busy = {}

TypeOK ==
  /\ stage \in Stages
  /\ inz \in Numbers \cup {None}
  /\ visa \in Outcomes \cup {"none"}
  /\ carer \in Officers \cup {None}
  /\ app \in [Apps -> Statuses]
  /\ served \in 0..MaxRequests

\* Stage, number and visa row tell one story after any sequence of
\* submissions, edits, outcomes and corrections, whichever of their steps fail
\* or die, as long as no two requests on the case overlap and nobody sets the
\* stage by hand.
RecordsAgree ==
  ~history.overlap /\ ~history.stage =>
    /\ stage = "COMPLETED" <=> visa # "none"
    /\ stage = "VISA" <=> inz = None
    /\ stage \in {"VISA", "INZ_SUBMITTED", "COMPLETED"}

\* Even when requests overlap: nobody finds a completed case without the row
\* that says how it ended.
CompletedHasOutcome == stage = "COMPLETED" /\ ~history.stage => visa # "none"

\* The status of every application that reached the visa stage follows the
\* record once the case is at rest, whatever was corrected on the way, unless
\* a move or a correction failed half-way, its status was set by hand, or
\* requests overlapped.
StatusesFollow ==
  Rest /\ ~history.overlap /\ ~history.stage =>
    \A a \in Apps \ history.apps:
      /\ app[a] = "VISA_SUBMITTED" => stage = "INZ_SUBMITTED"
      /\ app[a] = "VISA_APPROVED" => visa = "APPROVED"
      /\ app[a] = "VISA_DECLINED" => visa = "DECLINED"
      /\ app[a] = "OFFER_ACCEPTED" => stage = "VISA"

\* An outcome on record is never replaced by another, however two advisers'
\* requests interleave: it can only be taken back.
OutcomeStands == [][visa # "none" => visa' \in {visa, "none"}]_vars

\* A client whose visa is approved has a pastoral carer once nothing is in
\* flight, also when the outcome was recorded, reverted and recorded by
\* overlapping requests; unless the pick failed, nobody could be picked or a
\* manager chose.
ApprovedIsCared ==
  Rest /\ visa = "APPROVED" /\ ~history.care /\ Officers # {} => carer # None

\* "Can be reverted while the visa hasn't been issued": a submission is never
\* taken back once its outcome is on record.
RevertedBeforeOutcome == [][inz # None /\ inz' = None => visa = "none"]_vars

\* A number on a case at the visa stage can be edited or reverted by no
\* endpoint, and keeps the case from being submitted again.
NeverStuck == stage = "VISA" /\ ~history.stage => inz = None

\* The statuses move along the transition table, or back by a correction.
Back == {<<"VISA_SUBMITTED", "OFFER_ACCEPTED">>, <<"VISA_APPROVED", "VISA_SUBMITTED">>,
         <<"VISA_DECLINED", "VISA_SUBMITTED">>}
StatusMachine ==
  [][\A a \in Apps: app'[a] # app[a] =>
       app'[a] \in Transitions[app[a]] \/ <<app[a], app'[a]>> \in Back]_vars
=============================================================================
