------------------------- MODULE VisaOutcome_proofs -------------------------
(***************************************************************************)
(* The record of a case's outcome for any applications, officers, numbers  *)
(* and concurrent requests.                                                *)
(*                                                                         *)
(* No transaction looks at the stage again, so what it may assume is what  *)
(* the first read of its request saw.  Plan says what a request still has  *)
(* to do and with what; Timely that, as long as requests do not overlap,   *)
(* the stage it was started at is the stage it will write over.            *)
(*                                                                         *)
(* The applications of the case are moved after the record, one by one,    *)
(* from what was found.  Follows says how far each may be behind the       *)
(* record, or ahead of it, at the step a request has reached; it is proved *)
(* on top of the first invariant.                                          *)
(***************************************************************************)
EXTENDS VisaOutcome, SequenceTheorems, TLAPS

Dos == {"submit", "edit", "unsubmit", "record", "lookup", "unrecord", "care", "shift", "set"}
StepType == [do: Dos, from: Statuses \cup {None}, to: Statuses \cup {None}]
Requests == [todo: Seq(StepType), arg: Apps \cup Numbers \cup Outcomes \cup {None},
             found: SUBSET (Apps \cup Officers)]
Writers == {"submit", "edit", "unsubmit", "record", "unrecord"}

\* A step is given what it will write.
Supplied(step, arg) ==
  /\ step.do \in {"submit", "edit"} => arg \in Numbers
  /\ step.do = "record" => arg \in Outcomes
  /\ step.do \in {"shift", "set"} => step.to \in Statuses

\* The rest of a request is supplied and writes the record at most once.
Plan(r) ==
  /\ r \in Requests
  /\ \A i \in 1..Len(r.todo): Supplied(r.todo[i], r.arg)
  /\ \A i, j \in 1..Len(r.todo): r.todo[i].do \in Writers /\ r.todo[j].do \in Writers => i = j
  /\ r.todo # <<>> /\ r.todo[1].do = "care" => r.found \subseteq Officers

Calm == ~history.overlap /\ ~history.stage

\* What a step still to come may assume about the stage.
Timely(w) ==
  \A i \in 1..Len(req[w].todo):
    /\ req[w].todo[i].do = "submit" => stage = "VISA"
    /\ req[w].todo[i].do \in {"edit", "unsubmit", "record"} => stage = "INZ_SUBMITTED"

HistoryOK ==
  history \in [overlap: BOOLEAN, stage: BOOLEAN, apps: SUBSET Apps, care: BOOLEAN,
               hand: Nat, failures: Nat]

Plans == req \in [Workers -> Requests] /\ \A w \in Workers: Plan(req[w])
Alone == ~history.overlap => \A v, w \in Busy: v = w
InTime == Calm => \A w \in Workers: Timely(w)

IInv == TypeOK /\ HistoryOK /\ Plans /\ Alone /\ InTime /\ RecordsAgree /\ CompletedHasOutcome

-----------------------------------------------------------------------------
\* Requests.

\* An idle request has nothing left to do.
LEMMA IdlePlan == Plan(Idle)
<1>1. <<>> \in Seq(StepType) /\ Len(<<>>) = 0
  OBVIOUS
<1> QED
  BY <1>1 DEF Plan, Idle, Requests

\* The steps after the first one are steps of the request.
LEMMA Rest1 ==
  ASSUME NEW r, Plan(r), r.todo # <<>>
  PROVE  /\ Tail(r.todo) \in Seq(StepType)
         /\ Len(Tail(r.todo)) = Len(r.todo) - 1
         /\ \A i \in 1..Len(Tail(r.todo)): i + 1 \in 1..Len(r.todo) /\ Tail(r.todo)[i] = r.todo[i + 1]
         /\ 1 \in 1..Len(r.todo) /\ Head(r.todo) = r.todo[1] /\ Head(r.todo) \in StepType
<1>1. r.todo \in Seq(StepType)
  BY DEF Plan, Requests
<1>2. Len(r.todo) \in Nat /\ Len(r.todo) > 0
  BY <1>1
<1> QED
  BY <1>1, <1>2

\* A request that goes on by one step is still a plan.
LEMMA TailPlan ==
  ASSUME NEW r, Plan(r), r.todo # <<>>
  PROVE  Plan([todo |-> Tail(r.todo), arg |-> r.arg, found |-> {}])
<1> DEFINE t == Tail(r.todo)
<1> DEFINE n == [todo |-> t, arg |-> r.arg, found |-> {}]
<1>1. t \in Seq(StepType) /\ \A i \in 1..Len(t): i + 1 \in 1..Len(r.todo) /\ t[i] = r.todo[i + 1]
  BY Rest1
<1>2. n \in Requests
  BY <1>1 DEF Plan, Requests
<1>3. \A i \in 1..Len(t): Supplied(t[i], r.arg)
  BY <1>1 DEF Plan
<1>4. ASSUME NEW i \in 1..Len(t), NEW j \in 1..Len(t), t[i].do \in Writers, t[j].do \in Writers
      PROVE  i = j
  <2>1. i + 1 = j + 1
    BY <1>1, <1>4 DEF Plan
  <2> QED
    BY <2>1, <1>1
<1>5. n.todo = t /\ n.arg = r.arg /\ n.found = {}
  OBVIOUS
<1> QED
  BY <1>2, <1>3, <1>4, <1>5 DEF Plan

\* Only one request has moved, and its own plan and timing are good.
LEMMA OneMoves ==
  ASSUME IInv, NEW w \in Workers, req[w] # Idle,
         req' = [req EXCEPT ![w] = req'[w]], Plan(req'[w]),
         history'.overlap = history.overlap, history'.stage = history.stage,
         Calm => Timely(w)'
  PROVE  Plans' /\ Alone' /\ InTime'
<1>1. req' \in [Workers -> Requests] /\ \A v \in Workers \ {w}: req'[v] = req[v]
  BY DEF IInv, Plans, Plan
<1>2. Plans'
  BY <1>1 DEF IInv, Plans
<1>3. \A v \in Workers: v \in Busy' => v \in Busy
  BY <1>1 DEF Busy
<1>4. Alone'
  BY <1>3 DEF Alone, Busy, IInv
<1>5. ASSUME Calm', NEW v \in Workers  PROVE Timely(v)'
  <2>1. Calm
    BY <1>5 DEF Calm
  <2>2. CASE v = w
    BY <2>1, <2>2
  <2>3. CASE v # w
    <3>1. req[v] = Idle
      BY <2>1, <2>3 DEF IInv, Alone, Busy, Calm
    <3>2. req'[v].todo = <<>>
      BY <3>1, <2>3, <1>1 DEF Idle
    <3> QED
      BY <3>2 DEF Timely
  <2> QED
    BY <2>2, <2>3
<1> QED
  BY <1>2, <1>4, <1>5 DEF InTime

\* A request goes on by one step without touching the stage.
LEMMA GoesOn ==
  ASSUME IInv, NEW w \in Workers, req[w].todo # <<>>, Onward(w)
  PROVE  /\ req[w] # Idle
         /\ req' = [req EXCEPT ![w] = req'[w]]
         /\ Plan(req'[w])
         /\ req'[w].todo = Tail(req[w].todo)
         /\ stage' = stage /\ Calm => Timely(w)'
<1> DEFINE t == Tail(req[w].todo)
<1>1. Plan(req[w]) /\ req[w].todo # <<>>
  BY DEF IInv, Plans
<1>2. req[w] # Idle
  BY DEF Idle
<1>3. req' = [req EXCEPT ![w] = IF t = <<>> THEN Idle
                                ELSE [todo |-> t, arg |-> req[w].arg, found |-> {}]]
  BY DEF Onward, Goto
<1>4. req'[w] = IF t = <<>> THEN Idle ELSE [todo |-> t, arg |-> req[w].arg, found |-> {}]
  BY <1>3 DEF IInv, Plans
<1>5. Plan(req'[w])
  BY <1>1, <1>4, IdlePlan, TailPlan
<1>6. req'[w].todo = t
  <2>1. CASE t = <<>>
    BY <1>4, <2>1 DEF Idle
  <2>2. CASE t # <<>>
    BY <1>4, <2>2
  <2> QED
    BY <2>1, <2>2
<1>7. ASSUME stage' = stage, Calm  PROVE Timely(w)'
  BY <1>1, <1>6, <1>7, Rest1 DEF IInv, InTime, Timely
<1> QED
  BY <1>2, <1>3, <1>4, <1>5, <1>6, <1>7

\* A request that ends leaves nothing to do.
LEMMA Stops ==
  ASSUME IInv, NEW w \in Workers, Ends(w)
  PROVE  req' = [req EXCEPT ![w] = req'[w]] /\ Plan(req'[w]) /\ Timely(w)'
<1>1. req' = [req EXCEPT ![w] = Idle]
  BY DEF Ends, Goto
<1>2. req'[w] = Idle
  BY <1>1 DEF IInv, Plans
<1>3. req' = [req EXCEPT ![w] = req'[w]]
  BY <1>1, <1>2
<1>4. req'[w].todo = <<>>
  BY <1>2 DEF Idle
<1>5. Timely(w)'
  BY <1>4 DEF Timely
<1>6. Plan(req'[w])
  BY <1>2, IdlePlan
<1> QED
  BY <1>3, <1>5, <1>6

-----------------------------------------------------------------------------
\* Requests begin.

\* A request that is alone begins with a plan that suits the stage it saw.
LEMMA Begins ==
  ASSUME IInv, NEW w \in Workers, NEW r, Plan(r), req[w] = Idle,
         req' = [req EXCEPT ![w] = r],
         history'.overlap = (history.overlap \/ Busy # {}), history'.stage = history.stage,
         stage' = stage,
         Calm => \A i \in 1..Len(r.todo):
           /\ r.todo[i].do = "submit" => stage = "VISA"
           /\ r.todo[i].do \in {"edit", "unsubmit", "record"} => stage = "INZ_SUBMITTED"
  PROVE  Plans' /\ Alone' /\ InTime'
<1>1. req' \in [Workers -> Requests] /\ req'[w] = r /\ \A v \in Workers \ {w}: req'[v] = req[v]
  BY DEF IInv, Plans, Plan
<1>2. Plans'
  BY <1>1 DEF IInv, Plans
<1>3. ASSUME ~history'.overlap  PROVE ~history.overlap /\ Busy = {}
  BY <1>3
<1>4. Alone'
  BY <1>1, <1>3 DEF Alone, Busy
<1>5. ASSUME Calm', NEW v \in Workers  PROVE Timely(v)'
  <2>1. Calm
    BY <1>3, <1>5 DEF Calm
  <2>2. CASE v = w
    BY <2>1, <2>2, <1>1 DEF Timely
  <2>3. CASE v # w
    BY <2>1, <2>3, <1>1 DEF Timely, IInv, InTime
  <2> QED
    BY <2>2, <2>3
<1> QED
  BY <1>2, <1>4, <1>5 DEF InTime
\* History remembers that requests overlapped and keeps the rest.
LEMMA Starts ==
  ASSUME IInv, NEW w \in Workers, NEW steps, NEW arg, Start(w, steps, arg),
         Plan([todo |-> steps, arg |-> arg, found |-> {}]),
         Calm => \A i \in 1..Len(steps):
           /\ steps[i].do = "submit" => stage = "VISA"
           /\ steps[i].do \in {"edit", "unsubmit", "record"} => stage = "INZ_SUBMITTED"
  PROVE  IInv'
<1> DEFINE r == [todo |-> steps, arg |-> arg, found |-> {}]
<1>1. req[w] = Idle /\ req' = [req EXCEPT ![w] = r] /\ served' = served + 1 /\ served < MaxRequests
  BY DEF Start
<1>2. UNCHANGED <<stage, inz, visa, carer, app>>
  BY DEF Start
<1>3. history' = [history EXCEPT !.overlap = history.overlap \/ Busy # {}]
  BY DEF Start
<1>4. /\ history'.overlap = (history.overlap \/ Busy # {})
      /\ history'.stage = history.stage
  BY <1>3 DEF IInv, HistoryOK
<1>5. HistoryOK'
  BY <1>3 DEF IInv, HistoryOK
<1>6. TypeOK'
  BY <1>1, <1>2, VisaAssumption DEF IInv, TypeOK
<1>7. Plans' /\ Alone' /\ InTime'
  <2>1. r.todo = steps
    OBVIOUS
  <2> HIDE DEF r
  <2> QED
    BY <1>1, <1>2, <1>4, <2>1, Begins DEF r
<1>8. RecordsAgree'
  BY <1>2, <1>4 DEF IInv, RecordsAgree
<1>9. CompletedHasOutcome'
  BY <1>2, <1>4 DEF IInv, CompletedHasOutcome
<1> QED
  BY <1>5, <1>6, <1>7, <1>8, <1>9 DEF IInv

\* A step by itself.
LEMMA StepTypes ==
  /\ \A do \in Dos: Step(do) \in StepType /\ Step(do).do = do
  /\ \A from, to \in Statuses:
       Shift(from, to) \in StepType /\ Shift(from, to).do = "shift" /\ Shift(from, to).to = to
BY DEF Step, Shift, StepType, Dos

LEMMA TheStatuses ==
  Statuses = {"PREPARATION", "SUBMITTED", "OFFER_RECEIVED", "OFFER_ACCEPTED", "VISA_SUBMITTED",
              "VISA_APPROVED", "VISA_DECLINED", "WITHDRAWN"}
BY DEF Statuses, Transitions

LEMMA NewPlan ==
  ASSUME NEW todo \in Seq(StepType), NEW arg \in Apps \cup Numbers \cup Outcomes \cup {None},
         \A i \in 1..Len(todo): Supplied(todo[i], arg),
         \A i, j \in 1..Len(todo): todo[i].do \in Writers /\ todo[j].do \in Writers => i = j
  PROVE  Plan([todo |-> todo, arg |-> arg, found |-> {}])
<1> DEFINE r == [todo |-> todo, arg |-> arg, found |-> {}]
<1>1. r.todo = todo /\ r.arg = arg /\ r.found = {} /\ r \in Requests
  BY DEF Requests
<1> HIDE DEF r
<1>2. Plan(r)
  BY <1>1 DEF Plan
<1> QED
  BY <1>2 DEF r

\* What each handler sets out to do is a plan.
LEMMA SubmissionPlan ==
  ASSUME NEW n \in Numbers
  PROVE  Plan([todo |-> Submission, arg |-> n, found |-> {}])
<1>1. /\ Submission \in Seq(StepType) /\ Len(Submission) = 2
      /\ Submission[1].do = "submit"
      /\ Submission[2].do = "shift" /\ Submission[2].to \in Statuses
  BY StepTypes, TheStatuses DEF Submission, Dos
<1> QED
  BY <1>1, NewPlan DEF Supplied, Writers

LEMMA UnsubmissionPlan == Plan([todo |-> Unsubmission, arg |-> None, found |-> {}])
<1>1. /\ Unsubmission \in Seq(StepType) /\ Len(Unsubmission) = 2
      /\ Unsubmission[1].do = "shift" /\ Unsubmission[1].to \in Statuses
      /\ Unsubmission[2].do = "unsubmit"
  BY StepTypes, TheStatuses DEF Unsubmission, Dos
<1> QED
  BY <1>1, NewPlan DEF Supplied, Writers

LEMMA ApprovalPlan == Plan([todo |-> Approval, arg |-> "APPROVED", found |-> {}])
<1>1. /\ Approval \in Seq(StepType) /\ Len(Approval) = 3
      /\ Approval[1].do = "record" /\ Approval[2].do = "care"
      /\ Approval[3].do = "shift" /\ Approval[3].to \in Statuses
  BY StepTypes, TheStatuses DEF Approval, Dos
<1> QED
  BY <1>1, NewPlan DEF Supplied, Writers, Outcomes

LEMMA RefusalPlan == Plan([todo |-> Refusal, arg |-> "DECLINED", found |-> {}])
<1>1. /\ Refusal \in Seq(StepType) /\ Len(Refusal) = 2
      /\ Refusal[1].do = "record"
      /\ Refusal[2].do = "shift" /\ Refusal[2].to \in Statuses
  BY StepTypes, TheStatuses DEF Refusal, Dos
<1> QED
  BY <1>1, NewPlan DEF Supplied, Writers, Outcomes

LEMMA UndoingPlan == Plan([todo |-> Undoing, arg |-> None, found |-> {}])
<1>1. /\ Undoing \in Seq(StepType) /\ Len(Undoing) = 4
      /\ Undoing[1].do = "shift" /\ Undoing[1].to \in Statuses
      /\ Undoing[2].do = "shift" /\ Undoing[2].to \in Statuses
      /\ Undoing[3].do = "lookup" /\ Undoing[4].do = "unrecord"
  BY StepTypes, TheStatuses DEF Undoing, Dos
<1> QED
  BY SMTT(30), <1>1, NewPlan DEF Supplied, Writers

-----------------------------------------------------------------------------
\* The first reads.

LEMMA SubmitToInzStep ==
  ASSUME IInv, NEW w \in Workers, NEW n \in Numbers, SubmitToInz(w, n)
  PROVE  IInv'
<1>1. Len(Submission) = 2 /\ Submission[1].do = "submit" /\ Submission[2].do = "shift"
  BY DEF Submission, Step, Shift
<1>2. stage = "VISA" /\ Start(w, Submission, n)
  BY DEF SubmitToInz
<1>3. \A i \in 1..Len(Submission):
        /\ Submission[i].do = "submit" => stage = "VISA"
        /\ Submission[i].do \in {"edit", "unsubmit", "record"} => stage = "INZ_SUBMITTED"
  BY <1>1, <1>2
<1>4. Plan([todo |-> Submission, arg |-> n, found |-> {}])
  BY SubmissionPlan
<1> QED
  BY <1>2, <1>3, <1>4, Starts
LEMMA RevertInzSubmissionStep ==
  ASSUME IInv, NEW w \in Workers, RevertInzSubmission(w)
  PROVE  IInv'
<1>1. Len(Unsubmission) = 2 /\ Unsubmission[1].do = "shift" /\ Unsubmission[2].do = "unsubmit"
  BY DEF Unsubmission, Step, Shift
<1>2. stage = "INZ_SUBMITTED" /\ Start(w, Unsubmission, None)
  BY DEF RevertInzSubmission
<1>3. \A i \in 1..Len(Unsubmission):
        /\ Unsubmission[i].do = "submit" => stage = "VISA"
        /\ Unsubmission[i].do \in {"edit", "unsubmit", "record"} => stage = "INZ_SUBMITTED"
  BY <1>1, <1>2
<1>4. Plan([todo |-> Unsubmission, arg |-> None, found |-> {}])
  BY UnsubmissionPlan
<1> QED
  BY <1>2, <1>3, <1>4, Starts

LEMMA IssueApprovedVisaStep ==
  ASSUME IInv, NEW w \in Workers, IssueApprovedVisa(w)
  PROVE  IInv'
<1>1. /\ Len(Approval) = 3 /\ Approval[1].do = "record"
      /\ Approval[2].do = "care" /\ Approval[3].do = "shift"
  BY DEF Approval, Step, Shift
<1>2. stage = "INZ_SUBMITTED" /\ Start(w, Approval, "APPROVED")
  BY DEF IssueApprovedVisa, Decidable
<1>3. \A i \in 1..Len(Approval):
        /\ Approval[i].do = "submit" => stage = "VISA"
        /\ Approval[i].do \in {"edit", "unsubmit", "record"} => stage = "INZ_SUBMITTED"
  BY <1>1, <1>2
<1>4. Plan([todo |-> Approval, arg |-> "APPROVED", found |-> {}])
  BY ApprovalPlan
<1> QED
  BY <1>2, <1>3, <1>4, Starts

LEMMA RecordDeclinedVisaStep ==
  ASSUME IInv, NEW w \in Workers, RecordDeclinedVisa(w)
  PROVE  IInv'
<1>1. Len(Refusal) = 2 /\ Refusal[1].do = "record" /\ Refusal[2].do = "shift"
  BY DEF Refusal, Step, Shift
<1>2. stage = "INZ_SUBMITTED" /\ Start(w, Refusal, "DECLINED")
  BY DEF RecordDeclinedVisa, Decidable
<1>3. \A i \in 1..Len(Refusal):
        /\ Refusal[i].do = "submit" => stage = "VISA"
        /\ Refusal[i].do \in {"edit", "unsubmit", "record"} => stage = "INZ_SUBMITTED"
  BY <1>1, <1>2
<1>4. Plan([todo |-> Refusal, arg |-> "DECLINED", found |-> {}])
  BY RefusalPlan
<1> QED
  BY <1>2, <1>3, <1>4, Starts

LEMMA RevertVisaRecordStep ==
  ASSUME IInv, NEW w \in Workers, RevertVisaRecord(w)
  PROVE  IInv'
<1>1. /\ Len(Undoing) = 4 /\ Undoing[1].do = "shift" /\ Undoing[2].do = "shift"
      /\ Undoing[3].do = "lookup" /\ Undoing[4].do = "unrecord"
  BY DEF Undoing, Step, Shift
<1>2. Start(w, Undoing, None)
  BY DEF RevertVisaRecord
<1>3. \A i \in 1..Len(Undoing):
        /\ Undoing[i].do = "submit" => stage = "VISA"
        /\ Undoing[i].do \in {"edit", "unsubmit", "record"} => stage = "INZ_SUBMITTED"
  BY <1>1, <1>2
<1>4. Plan([todo |-> Undoing, arg |-> None, found |-> {}])
  BY UndoingPlan
<1> QED
  BY <1>2, <1>3, <1>4, Starts

LEMMA EditInzSubmissionStep ==
  ASSUME IInv, NEW w \in Workers, NEW n \in Numbers, EditInzSubmission(w, n)
  PROVE  IInv'
<1> DEFINE todo == <<Step("edit")>>
<1>1. todo \in Seq(StepType) /\ Len(todo) = 1 /\ todo[1].do = "edit"
  BY StepTypes DEF Dos
<1>2. stage = "INZ_SUBMITTED" /\ Start(w, todo, n)
  BY DEF EditInzSubmission
<1> HIDE DEF todo
<1>3. \A i \in 1..Len(todo):
        /\ todo[i].do = "submit" => stage = "VISA"
        /\ todo[i].do \in {"edit", "unsubmit", "record"} => stage = "INZ_SUBMITTED"
  BY <1>1, <1>2
<1>4. Plan([todo |-> todo, arg |-> n, found |-> {}])
  BY <1>1, NewPlan DEF Supplied
<1> QED
  BY <1>2, <1>3, <1>4, Starts

LEMMA UpdateStatusStep ==
  ASSUME IInv, NEW w \in Workers, NEW a \in Apps, NEW to \in Statuses, UpdateStatus(w, a, to)
  PROVE  IInv'
<1> DEFINE todo == <<[do |-> "set", from |-> app[a], to |-> to]>>
<1> DEFINE r == [todo |-> todo, arg |-> a, found |-> {}]
<1>1. todo \in Seq(StepType) /\ Len(todo) = 1 /\ todo[1].do = "set" /\ todo[1].to = to
  BY DEF IInv, TypeOK, StepType, Dos
<1>2. /\ req[w] = Idle /\ req' = [req EXCEPT ![w] = r]
      /\ UNCHANGED <<stage, inz, visa, carer, app, served>>
      /\ history' = [history EXCEPT !.overlap = history.overlap \/ Busy # {}, !.hand = @ + 1,
                                    !.apps = @ \cup {a}]
  BY DEF UpdateStatus
<1>3. HistoryOK'
  <2>1. history.apps \cup {a} \in SUBSET Apps /\ history.hand + 1 \in Nat
    BY DEF IInv, HistoryOK
  <2>2. (history.overlap \/ Busy # {}) \in BOOLEAN
    OBVIOUS
  <2> QED
    BY <1>2, <2>1, <2>2 DEF IInv, HistoryOK
<1>4. history'.overlap = (history.overlap \/ Busy # {}) /\ history'.stage = history.stage
  BY <1>2 DEF IInv, HistoryOK
<1>5. r.todo = todo
  OBVIOUS
<1> HIDE DEF todo
<1>6. Plan(r)
  BY <1>1, NewPlan DEF Supplied, Writers
<1> HIDE DEF r
<1>7. \A i \in 1..Len(r.todo): r.todo[i].do = "set"
  <2>1. \A i \in 1..Len(todo): i = 1
    BY <1>1
  <2>2. \A i \in 1..Len(todo): todo[i].do = "set"
    BY <1>1, <2>1
  <2> QED
    BY <1>5, <2>2
<1>8. Plans' /\ Alone' /\ InTime'
  <2>1. stage' = stage
    BY <1>2
  <2> QED
    BY <1>2, <1>4, <1>6, <1>7, <2>1, Begins
<1>9. TypeOK' /\ RecordsAgree' /\ CompletedHasOutcome'
  BY <1>2, <1>4 DEF IInv, TypeOK, RecordsAgree, CompletedHasOutcome
<1> QED
  BY <1>3, <1>8, <1>9 DEF IInv

-----------------------------------------------------------------------------
\* Steps that leave the record alone.

\* Such a step only has to keep its own plan, the carer and the statuses typed.
LEMMA Quiet ==
  ASSUME IInv, NEW w \in Workers, req[w] # Idle,
         req' = [req EXCEPT ![w] = req'[w]], Plan(req'[w]), Calm => Timely(w)',
         UNCHANGED <<stage, inz, visa, served>>,
         HistoryOK', history'.overlap = history.overlap, history'.stage = history.stage,
         carer' \in Officers \cup {None}, app' \in [Apps -> Statuses]
  PROVE  IInv'
<1>1. Plans' /\ Alone' /\ InTime'
  BY OneMoves
<1>2. TypeOK'
  BY DEF IInv, TypeOK
<1>3. RecordsAgree' /\ CompletedHasOutcome'
  BY DEF IInv, RecordsAgree, CompletedHasOutcome
<1> QED
  BY <1>1, <1>2, <1>3 DEF IInv

\* What a step found is only read by that step.
LEMMA Refound ==
  ASSUME IInv, NEW w \in Workers, req[w].todo # <<>>, NEW found \in SUBSET (Apps \cup Officers),
         req' = [req EXCEPT ![w].found = found],
         req[w].todo[1].do = "care" => found \subseteq Officers
  PROVE  /\ req[w] # Idle
         /\ req' = [req EXCEPT ![w] = req'[w]]
         /\ Plan(req'[w])
         /\ stage' = stage /\ Calm => Timely(w)'
<1>1. Plan(req[w]) /\ req \in [Workers -> Requests]
  BY DEF IInv, Plans
<1>2. req'[w] = [req[w] EXCEPT !.found = found] /\ req' = [req EXCEPT ![w] = req'[w]]
  BY <1>1
<1>3. req'[w] \in Requests /\ req'[w].todo = req[w].todo
        /\ req'[w].arg = req[w].arg /\ req'[w].found = found
  <2>1. req[w] \in Requests
    BY <1>1
  <2> QED
    BY <1>2, <2>1 DEF Requests
<1>4. Plan(req'[w])
  BY <1>1, <1>3 DEF Plan
<1>5. ASSUME stage' = stage, Calm  PROVE Timely(w)'
  BY <1>3, <1>5 DEF IInv, InTime, Timely
<1>6. req[w] # Idle
  BY DEF Idle
<1> QED
  BY <1>2, <1>4, <1>5, <1>6

\* The step a request is at.
LEMMA AtHead ==
  ASSUME IInv, NEW w \in Workers, NEW do, Doing(w, do)
  PROVE  /\ req[w] # Idle /\ req[w].todo # <<>> /\ 1 \in 1..Len(req[w].todo)
         /\ req[w].todo[1].do = do /\ Head(req[w].todo) = req[w].todo[1]
         /\ Supplied(req[w].todo[1], req[w].arg)
<1>1. Plan(req[w]) /\ req[w].todo # <<>> /\ Head(req[w].todo).do = do
  BY DEF IInv, Plans, Doing
<1>2. 1 \in 1..Len(req[w].todo) /\ Head(req[w].todo) = req[w].todo[1]
  BY <1>1, Rest1
<1>3. req[w] # Idle
  BY <1>1 DEF Idle
<1> QED
  BY <1>1, <1>2, <1>3 DEF Plan

LEMMA Untouched ==
  ASSUME IInv, UNCHANGED history
  PROVE  HistoryOK' /\ history'.overlap = history.overlap /\ history'.stage = history.stage
BY DEF IInv, HistoryOK

LEMMA FindVisaStep ==
  ASSUME IInv, NEW w \in Workers, FindVisa(w)
  PROVE  IInv'
<1>1. /\ Doing(w, "lookup") /\ (Ends(w) \/ Onward(w))
      /\ UNCHANGED <<stage, inz, visa, served>> /\ UNCHANGED <<carer, app>> /\ UNCHANGED history
  BY DEF FindVisa
<1>2. req[w] # Idle /\ req[w].todo # <<>>
  BY <1>1, AtHead
<1>3. req' = [req EXCEPT ![w] = req'[w]] /\ Plan(req'[w]) /\ (Calm => Timely(w)')
  BY <1>1, <1>2, GoesOn, Stops
<1>4. carer' \in Officers \cup {None} /\ app' \in [Apps -> Statuses]
  BY <1>1 DEF IInv, TypeOK
<1> QED
  BY <1>1, <1>2, <1>3, <1>4, Untouched, Quiet

LEMMA AssignCarerStep ==
  ASSUME IInv, NEW w \in Workers, AssignCarer(w)
  PROVE  IInv'
<1>1. /\ Doing(w, "care")
      /\ UNCHANGED <<stage, inz, visa, served>> /\ UNCHANGED app /\ UNCHANGED history
  BY DEF AssignCarer
<1>2. req[w] # Idle /\ req[w].todo # <<>> /\ req[w].todo[1].do = "care"
  BY <1>1, AtHead
<1>3. req[w].found \subseteq Officers
  BY <1>2 DEF IInv, Plans, Plan
<1>4. app' \in [Apps -> Statuses] /\ carer \in Officers \cup {None}
  BY <1>1 DEF IInv, TypeOK
<1>5. CASE Onward(w) /\ carer' \in req[w].found \cup {carer}
  <2>1. req' = [req EXCEPT ![w] = req'[w]] /\ Plan(req'[w]) /\ (Calm => Timely(w)')
    BY <1>1, <1>2, <1>5, GoesOn
  <2> QED
    BY <1>1, <1>2, <1>3, <1>4, <1>5, <2>1, Untouched, Quiet
<1>6. CASE \E s \in Officers: req' = [req EXCEPT ![w].found = {s}] /\ carer' = carer
  <2>1. PICK s \in Officers: req' = [req EXCEPT ![w].found = {s}]
    BY <1>6
  <2>2. {s} \in SUBSET (Apps \cup Officers) /\ {s} \subseteq Officers
    OBVIOUS
  <2>3. req' = [req EXCEPT ![w] = req'[w]] /\ Plan(req'[w]) /\ (Calm => Timely(w)')
    BY <1>1, <1>2, <2>1, <2>2, Refound
  <2> QED
    BY <1>1, <1>2, <1>4, <1>6, <2>3, Untouched, Quiet
<1> QED
  BY <1>5, <1>6 DEF AssignCarer, PickCarer

LEMMA FindApplicationsStep ==
  ASSUME IInv, NEW w \in Workers, FindApplications(w)
  PROVE  IInv'
<1> DEFINE found == Candidates(Head(req[w].todo).from)
<1>1. /\ Doing(w, "shift") /\ (Onward(w) \/ req' = [req EXCEPT ![w].found = found])
      /\ UNCHANGED <<stage, inz, visa, served>> /\ UNCHANGED <<carer, app>> /\ UNCHANGED history
  BY DEF FindApplications
<1>2. req[w] # Idle /\ req[w].todo # <<>> /\ req[w].todo[1].do = "shift"
  BY <1>1, AtHead
<1>3. found \in SUBSET (Apps \cup Officers)
  BY DEF Candidates
<1> HIDE DEF found
<1>4. req' = [req EXCEPT ![w] = req'[w]] /\ Plan(req'[w]) /\ (Calm => Timely(w)')
  BY <1>1, <1>2, <1>3, GoesOn, Refound
<1>5. carer' \in Officers \cup {None} /\ app' \in [Apps -> Statuses]
  BY <1>1 DEF IInv, TypeOK
<1> QED
  BY <1>1, <1>2, <1>4, <1>5, Untouched, Quiet

LEMMA MoveApplicationStep ==
  ASSUME IInv, NEW w \in Workers, NEW a \in Apps, MoveApplication(w, a)
  PROVE  IInv'
<1> DEFINE found == req[w].found \ {a}
<1>1. /\ Doing(w, "shift") /\ (Onward(w) \/ req' = [req EXCEPT ![w].found = found])
      /\ app' = [app EXCEPT ![a] = Head(req[w].todo).to]
      /\ UNCHANGED <<stage, inz, visa, served>> /\ UNCHANGED carer /\ UNCHANGED history
  <2>1. req' = [req EXCEPT ![w].found = @ \ {a}] => req' = [req EXCEPT ![w].found = found]
    BY DEF IInv, Plans
  <2> QED
    BY <2>1 DEF MoveApplication
<1>2. /\ req[w] # Idle /\ req[w].todo # <<>> /\ req[w].todo[1].do = "shift"
      /\ Head(req[w].todo) = req[w].todo[1] /\ Supplied(req[w].todo[1], req[w].arg)
  BY <1>1, AtHead
<1>3. found \in SUBSET (Apps \cup Officers)
  BY DEF IInv, Plans, Requests
<1> HIDE DEF found
<1>4. req' = [req EXCEPT ![w] = req'[w]] /\ Plan(req'[w]) /\ (Calm => Timely(w)')
  BY <1>1, <1>2, <1>3, GoesOn, Refound
<1>5. Head(req[w].todo).to \in Statuses
  BY <1>2 DEF Supplied
<1>6. carer' \in Officers \cup {None} /\ app' \in [Apps -> Statuses]
  BY <1>1, <1>5 DEF IInv, TypeOK
<1> QED
  BY <1>1, <1>2, <1>4, <1>6, Untouched, Quiet

LEMMA WriteStatusStep ==
  ASSUME IInv, NEW w \in Workers, WriteStatus(w)
  PROVE  IInv'
<1>1. /\ Doing(w, "set") /\ Onward(w)
      /\ app' = [app EXCEPT ![req[w].arg] = Head(req[w].todo).to]
      /\ UNCHANGED <<stage, inz, visa, served>> /\ UNCHANGED carer /\ UNCHANGED history
  BY DEF WriteStatus
<1>2. /\ req[w] # Idle /\ req[w].todo # <<>> /\ req[w].todo[1].do = "set"
      /\ Head(req[w].todo) = req[w].todo[1] /\ Supplied(req[w].todo[1], req[w].arg)
  BY <1>1, AtHead
<1>3. req' = [req EXCEPT ![w] = req'[w]] /\ Plan(req'[w]) /\ (Calm => Timely(w)')
  BY <1>1, <1>2, GoesOn
<1>4. Head(req[w].todo).to \in Statuses
  BY <1>2 DEF Supplied
<1>5. carer' \in Officers \cup {None} /\ app' \in [Apps -> Statuses]
  BY <1>1, <1>4 DEF IInv, TypeOK
<1> QED
  BY <1>1, <1>2, <1>3, <1>5, Untouched, Quiet

-----------------------------------------------------------------------------
\* The transactions.

\* A request writes the record once, so nothing it still has to do assumes
\* anything about the stage.
LEMMA WroteOnce ==
  ASSUME IInv, NEW w \in Workers, NEW do \in Writers, Doing(w, do), Onward(w) \/ Ends(w)
  PROVE  /\ req[w] # Idle /\ req' = [req EXCEPT ![w] = req'[w]] /\ Plan(req'[w])
         /\ Timely(w)'
<1>1. req[w] # Idle /\ req[w].todo # <<>> /\ 1 \in 1..Len(req[w].todo) /\ req[w].todo[1].do = do
  BY AtHead
<1>2. CASE Ends(w)
  BY <1>1, <1>2, Stops
<1>3. CASE Onward(w)
  <2>1. /\ req' = [req EXCEPT ![w] = req'[w]] /\ Plan(req'[w])
        /\ req'[w].todo = Tail(req[w].todo)
    BY <1>1, <1>3, GoesOn
  <2>2. Plan(req[w])
    BY DEF IInv, Plans
  <2>3. ASSUME NEW i \in 1..Len(Tail(req[w].todo))
        PROVE  Tail(req[w].todo)[i].do \notin Writers
    <3>1. i + 1 \in 1..Len(req[w].todo) /\ Tail(req[w].todo)[i] = req[w].todo[i + 1]
      BY <1>1, <2>2, Rest1
    <3>2. i + 1 # 1
      OBVIOUS
    <3> QED
      BY <1>1, <2>2, <3>1, <3>2 DEF Plan
  <2>4. Timely(w)'
    BY <2>1, <2>3 DEF Timely, Writers
  <2> QED
    BY <1>1, <2>1, <2>4
<1> QED
  BY <1>2, <1>3

\* What a transaction has to show of the record it leaves.
LEMMA Written ==
  ASSUME IInv, NEW w \in Workers, NEW do \in Writers, Doing(w, do), Onward(w) \/ Ends(w),
         UNCHANGED <<carer, app, served, history>>,
         stage' \in Stages, inz' \in Numbers \cup {None}, visa' \in Outcomes \cup {"none"},
         RecordsAgree', CompletedHasOutcome'
  PROVE  IInv'
<1>1. Plans' /\ Alone' /\ InTime'
  BY WroteOnce, OneMoves, Untouched
<1>2. TypeOK'
  BY DEF IInv, TypeOK
<1> QED
  BY <1>1, <1>2, Untouched DEF IInv

LEMMA WriteSubmissionStep ==
  ASSUME IInv, NEW w \in Workers, WriteSubmission(w)
  PROVE  IInv'
<1>1. /\ Doing(w, "submit") /\ Onward(w) /\ UNCHANGED <<carer, app, served, history>>
      /\ stage' = "INZ_SUBMITTED" /\ inz' = req[w].arg /\ visa' = visa
  BY DEF WriteSubmission
<1>2. /\ req[w].todo[1].do = "submit" /\ 1 \in 1..Len(req[w].todo)
      /\ Supplied(req[w].todo[1], req[w].arg)
  BY <1>1, AtHead
<1>3. inz' \in Numbers /\ inz' # None
  BY <1>1, <1>2, VisaAssumption DEF Supplied
<1>4. Calm => stage = "VISA"
  BY <1>2 DEF IInv, InTime, Timely
<1>5. RecordsAgree'
  BY <1>1, <1>3, <1>4 DEF IInv, RecordsAgree, Calm
<1>6. CompletedHasOutcome' /\ stage' \in Stages /\ visa' \in Outcomes \cup {"none"}
  BY <1>1 DEF CompletedHasOutcome, Stages, IInv, TypeOK
<1> QED
  BY <1>1, <1>3, <1>5, <1>6, Written DEF Writers

LEMMA WriteEditStep ==
  ASSUME IInv, NEW w \in Workers, WriteEdit(w)
  PROVE  IInv'
<1>1. /\ Doing(w, "edit") /\ Onward(w) /\ UNCHANGED <<carer, app, served, history>>
      /\ stage' = stage /\ inz' = req[w].arg /\ visa' = visa
  BY DEF WriteEdit
<1>2. /\ req[w].todo[1].do = "edit" /\ 1 \in 1..Len(req[w].todo)
      /\ Supplied(req[w].todo[1], req[w].arg)
  BY <1>1, AtHead
<1>3. inz' \in Numbers /\ inz' # None
  BY <1>1, <1>2, VisaAssumption DEF Supplied
<1>4. Calm => stage = "INZ_SUBMITTED"
  BY <1>2 DEF IInv, InTime, Timely
<1>5. RecordsAgree'
  BY <1>1, <1>3, <1>4 DEF IInv, RecordsAgree, Calm
<1>6. CompletedHasOutcome' /\ stage' \in Stages /\ visa' \in Outcomes \cup {"none"}
  BY <1>1 DEF CompletedHasOutcome, IInv, TypeOK
<1> QED
  BY <1>1, <1>3, <1>5, <1>6, Written DEF Writers

LEMMA WriteUnsubmissionStep ==
  ASSUME IInv, NEW w \in Workers, WriteUnsubmission(w)
  PROVE  IInv'
<1>1. /\ Doing(w, "unsubmit") /\ Onward(w) /\ UNCHANGED <<carer, app, served, history>>
      /\ stage' = "VISA" /\ inz' = None /\ visa' = visa
  BY DEF WriteUnsubmission, Unsubmitted
<1>2. req[w].todo[1].do = "unsubmit" /\ 1 \in 1..Len(req[w].todo)
  BY <1>1, AtHead
<1>3. Calm => stage = "INZ_SUBMITTED"
  BY <1>2 DEF IInv, InTime, Timely
<1>4. RecordsAgree'
  BY <1>1, <1>3 DEF IInv, RecordsAgree, Calm
<1>5. CompletedHasOutcome' /\ stage' \in Stages /\ visa' \in Outcomes \cup {"none"}
  BY <1>1 DEF CompletedHasOutcome, Stages, IInv, TypeOK
<1> QED
  BY <1>1, <1>4, <1>5, Written DEF Writers

LEMMA WriteOutcomeStep ==
  ASSUME IInv, NEW w \in Workers, WriteOutcome(w)
  PROVE  IInv'
<1>1. /\ Doing(w, "record") /\ UNCHANGED <<carer, app, served, history>> /\ inz' = inz
      /\ \/ visa' = req[w].arg /\ stage' = "COMPLETED" /\ Onward(w)
         \/ visa' = visa /\ stage' = stage /\ Ends(w)
  BY DEF WriteOutcome
<1>2. /\ req[w].todo[1].do = "record" /\ 1 \in 1..Len(req[w].todo)
      /\ Supplied(req[w].todo[1], req[w].arg)
  BY <1>1, AtHead
<1>3. req[w].arg \in Outcomes /\ req[w].arg # "none"
  BY <1>2 DEF Supplied, Outcomes
<1>4. Calm => stage = "INZ_SUBMITTED"
  BY <1>2 DEF IInv, InTime, Timely
<1>5. RecordsAgree'
  BY <1>1, <1>3, <1>4 DEF IInv, RecordsAgree, Calm
<1>6. CompletedHasOutcome'
  BY <1>1, <1>3 DEF IInv, CompletedHasOutcome
<1>7. stage' \in Stages /\ inz' \in Numbers \cup {None} /\ visa' \in Outcomes \cup {"none"}
  BY <1>1, <1>3 DEF Stages, IInv, TypeOK
<1> QED
  BY <1>1, <1>5, <1>6, <1>7, Written DEF Writers

LEMMA DeleteVisaStep ==
  ASSUME IInv, NEW w \in Workers, DeleteVisa(w)
  PROVE  IInv'
<1>1. /\ Doing(w, "unrecord") /\ Ends(w) /\ UNCHANGED <<carer, app, served, history>> /\ inz' = inz
      /\ \/ visa = "none" /\ visa' = visa /\ stage' = stage
         \/ visa # "none" /\ visa' = "none" /\ stage' = "INZ_SUBMITTED"
  BY DEF DeleteVisa, Reopened
<1>2. RecordsAgree'
  BY <1>1 DEF IInv, RecordsAgree
<1>3. CompletedHasOutcome'
  BY <1>1 DEF IInv, CompletedHasOutcome
<1>4. stage' \in Stages /\ inz' \in Numbers \cup {None} /\ visa' \in Outcomes \cup {"none"}
  BY <1>1 DEF Stages, IInv, TypeOK
<1> QED
  BY <1>1, <1>2, <1>3, <1>4, Written DEF Writers

-----------------------------------------------------------------------------
\* Accidents and hands.

\* A request that fails or dies leaves the record alone.
LEMMA Accident ==
  ASSUME IInv, NEW w \in Workers, req[w] # Idle,
         req' = [req EXCEPT ![w] = req'[w]], Plan(req'[w]), Calm => Timely(w)',
         NEW care \in BOOLEAN, NEW apps \in SUBSET Apps,
         history' = [history EXCEPT !.failures = @ + 1, !.care = care, !.apps = apps],
         UNCHANGED <<stage, inz, visa, carer, app, served>>
  PROVE  IInv'
<1>1. HistoryOK' /\ history'.overlap = history.overlap /\ history'.stage = history.stage
  <2>1. history.failures + 1 \in Nat
    BY DEF IInv, HistoryOK
  <2> QED
    BY <2>1 DEF IInv, HistoryOK
<1>2. carer' \in Officers \cup {None} /\ app' \in [Apps -> Statuses]
  BY DEF IInv, TypeOK
<1> QED
  BY <1>1, <1>2, Quiet

\* After the first shift of a correction that fails, the second is skipped too.
LEMMA SkipsShifts ==
  ASSUME IInv, NEW w \in Workers, Doing(w, "shift"), Goto(w, AfterShifts(req[w].todo))
  PROVE  req' = [req EXCEPT ![w] = req'[w]] /\ Plan(req'[w]) /\ (stage' = stage /\ Calm => Timely(w)')
<1> DEFINE t == Tail(req[w].todo)
<1>1. Plan(req[w]) /\ req[w].todo # <<>> /\ req[w].todo \in Seq(StepType)
  BY AtHead DEF IInv, Plans, Requests
<1>2. CASE AfterShifts(req[w].todo) = t
  <2>1. Onward(w)
    BY <1>2 DEF Onward
  <2> QED
    BY <1>1, <2>1, GoesOn
<1>3. CASE AfterShifts(req[w].todo) = Tail(t) /\ t # <<>>
  <2> DEFINE r == [todo |-> t, arg |-> req[w].arg, found |-> {}]
  <2> DEFINE s == [todo |-> Tail(t), arg |-> req[w].arg, found |-> {}]
  <2>1. Plan(r) /\ r.todo = t /\ r.arg = req[w].arg
    BY <1>1, TailPlan
  <2>2. Plan([todo |-> Tail(r.todo), arg |-> r.arg, found |-> {}])
    <3> HIDE DEF r
    <3> QED
      BY <1>3, <2>1, TailPlan
  <2>3. Plan(s)
    BY <2>1, <2>2
  <2>4. req' = [req EXCEPT ![w] = IF Tail(t) = <<>> THEN Idle ELSE s]
    BY <1>3 DEF Goto
  <2>5. req'[w] = IF Tail(t) = <<>> THEN Idle ELSE s
    BY <2>4 DEF IInv, Plans
  <2>6. Plan(req'[w]) /\ req' = [req EXCEPT ![w] = req'[w]]
    BY <2>3, <2>4, <2>5, IdlePlan
  <2>7. req'[w].todo = Tail(t)
    <3>1. CASE Tail(t) = <<>>
      BY <2>5, <3>1 DEF Idle
    <3>2. CASE Tail(t) # <<>>
      <4>1. req'[w] = s
        BY <2>5, <3>2
      <4>2. s.todo = Tail(t)
        OBVIOUS
      <4> QED
        BY <4>1, <4>2
    <3> QED
      BY <3>1, <3>2
  <2>8. \A i \in 1..Len(Tail(t)): i + 2 \in 1..Len(req[w].todo) /\ Tail(t)[i] = req[w].todo[i + 2]
    <3>1. \A i \in 1..Len(t): i + 1 \in 1..Len(req[w].todo) /\ t[i] = req[w].todo[i + 1]
      BY <1>1, Rest1
    <3>2. \A i \in 1..Len(Tail(t)): i + 1 \in 1..Len(t) /\ Tail(t)[i] = t[i + 1]
      <4> HIDE DEF r
      <4> QED
        BY <1>3, <2>1, Rest1
    <3> HIDE DEF t
    <3> QED
      BY <3>1, <3>2
  <2>9. stage' = stage /\ Calm => Timely(w)'
    BY <2>7, <2>8 DEF IInv, InTime, Timely
  <2> QED
    BY <2>6, <2>9
<1> QED
  BY <1>1, <1>2, <1>3 DEF AfterShifts

LEMMA StepFailsStep ==
  ASSUME IInv, NEW w \in Workers, StepFails(w)
  PROVE  IInv'
<1> DEFINE care == history.care \/ Doing(w, "care")
<1> DEFINE apps == IF Derived(w) THEN Apps ELSE history.apps
<1>1. /\ req[w] # Idle /\ UNCHANGED <<stage, inz, visa, carer, app, served>>
      /\ history' = [history EXCEPT !.failures = @ + 1, !.care = care, !.apps = apps]
  BY DEF StepFails, IInv, HistoryOK
<1>2. \/ Doing(w, "shift") /\ Goto(w, AfterShifts(req[w].todo))
      \/ Doing(w, "care") /\ Onward(w)
      \/ Ends(w)
  BY DEF StepFails
<1>3. Doing(w, "care") => req[w].todo # <<>>
  BY DEF Doing
<1>4. req' = [req EXCEPT ![w] = req'[w]] /\ Plan(req'[w]) /\ (Calm => Timely(w)')
  BY <1>1, <1>2, <1>3, SkipsShifts, GoesOn, Stops
<1>5. care \in BOOLEAN /\ apps \in SUBSET Apps
  BY DEF IInv, HistoryOK
<1> HIDE DEF care, apps
<1> QED
  BY <1>1, <1>4, <1>5, Accident

LEMMA RequestDiesStep ==
  ASSUME IInv, NEW w \in Workers, RequestDies(w)
  PROVE  IInv'
<1>1. /\ req[w] # Idle /\ Ends(w) /\ UNCHANGED <<stage, inz, visa, carer, app, served>>
      /\ history' = [history EXCEPT !.failures = @ + 1, !.care = TRUE, !.apps = Apps]
  BY DEF RequestDies
<1>2. req' = [req EXCEPT ![w] = req'[w]] /\ Plan(req'[w]) /\ (Calm => Timely(w)')
  BY <1>1, Stops
<1> QED
  BY <1>1, <1>2, Accident

\* A stage set by hand is remembered, and excuses what it contradicts.
LEMMA SetStageStep ==
  ASSUME IInv, NEW s \in Stages, SetStage(s)
  PROVE  IInv'
<1>1. /\ stage' = s /\ UNCHANGED <<inz, visa, carer, app, req, served>>
      /\ history' = [history EXCEPT !.stage = TRUE, !.hand = @ + 1]
  BY DEF SetStage
<1>2. HistoryOK' /\ history'.stage = TRUE /\ history'.overlap = history.overlap
  <2>1. history.hand + 1 \in Nat
    BY DEF IInv, HistoryOK
  <2> QED
    BY <1>1, <2>1 DEF IInv, HistoryOK
<1>3. TypeOK' /\ Plans'
  BY <1>1 DEF IInv, TypeOK, Plans
<1>4. Alone' /\ InTime'
  BY <1>1, <1>2 DEF IInv, Alone, Busy, InTime, Calm
<1>5. RecordsAgree' /\ CompletedHasOutcome'
  BY <1>2 DEF RecordsAgree, CompletedHasOutcome
<1> QED
  BY <1>2, <1>3, <1>4, <1>5 DEF IInv

LEMMA ReassignSupportStep ==
  ASSUME IInv, NEW s \in Officers \cup {None}, ReassignSupport(s)
  PROVE  IInv'
<1>1. /\ carer' = s /\ UNCHANGED <<stage, inz, visa, app, req, served>>
      /\ history' = [history EXCEPT !.care = TRUE, !.hand = @ + 1]
  BY DEF ReassignSupport
<1>2. HistoryOK' /\ history'.stage = history.stage /\ history'.overlap = history.overlap
  <2>1. history.hand + 1 \in Nat
    BY DEF IInv, HistoryOK
  <2> QED
    BY <1>1, <2>1 DEF IInv, HistoryOK
<1>3. TypeOK' /\ Plans'
  BY <1>1 DEF IInv, TypeOK, Plans
<1>4. Alone' /\ InTime'
  BY <1>1, <1>2 DEF IInv, Alone, Busy, InTime, Calm, Timely
<1>5. RecordsAgree' /\ CompletedHasOutcome'
  BY <1>1, <1>2 DEF IInv, RecordsAgree, CompletedHasOutcome
<1> QED
  BY <1>2, <1>3, <1>4, <1>5 DEF IInv

-----------------------------------------------------------------------------
\* The theorems.

LEMMA Initially == Init => IInv
<1> SUFFICES ASSUME Init PROVE IInv
  OBVIOUS
<1>1. req \in [Workers -> Requests] /\ \A w \in Workers: req[w] = Idle /\ req[w].todo = <<>>
  BY IdlePlan DEF Init, Plan, Idle
<1>2. TypeOK
  BY VisaAssumption DEF Init, TypeOK, Stages
<1>3. HistoryOK
  BY DEF Init, HistoryOK
<1>4. Plans /\ Alone /\ InTime
  BY <1>1, IdlePlan DEF Plans, Alone, Busy, InTime, Timely
<1>5. RecordsAgree /\ CompletedHasOutcome
  BY DEF Init, RecordsAgree, CompletedHasOutcome
<1> QED
  BY <1>2, <1>3, <1>4, <1>5 DEF IInv

LEMMA Inductive == IInv /\ [Next]_vars => IInv'
<1> SUFFICES ASSUME IInv, [Next]_vars PROVE IInv'
  OBVIOUS
<1>1. ASSUME NEW w \in Workers, NEW n \in Numbers, SubmitToInz(w, n) \/ EditInzSubmission(w, n)
      PROVE  IInv'
  BY <1>1, SubmitToInzStep, EditInzSubmissionStep
<1>2. ASSUME NEW w \in Workers,
             \/ RevertInzSubmission(w) \/ IssueApprovedVisa(w) \/ RecordDeclinedVisa(w)
             \/ RevertVisaRecord(w)
             \/ \E a \in Apps, to \in Statuses: UpdateStatus(w, a, to)
      PROVE  IInv'
  BY <1>2, RevertInzSubmissionStep, IssueApprovedVisaStep, RecordDeclinedVisaStep,
     RevertVisaRecordStep, UpdateStatusStep
<1>3. ASSUME NEW w \in Workers,
             \/ WriteSubmission(w) \/ WriteEdit(w) \/ WriteUnsubmission(w)
             \/ WriteOutcome(w) \/ FindVisa(w) \/ DeleteVisa(w)
      PROVE  IInv'
  BY <1>3, WriteSubmissionStep, WriteEditStep, WriteUnsubmissionStep, WriteOutcomeStep,
     FindVisaStep, DeleteVisaStep
<1>4. ASSUME NEW w \in Workers,
             \/ AssignCarer(w) \/ FindApplications(w) \/ WriteStatus(w)
             \/ \E a \in Apps: MoveApplication(w, a)
             \/ StepFails(w) \/ RequestDies(w)
      PROVE  IInv'
  BY <1>4, AssignCarerStep, FindApplicationsStep, WriteStatusStep, MoveApplicationStep,
     StepFailsStep, RequestDiesStep
<1>5. ASSUME NEW s \in Stages, UpdateCase(s)  PROVE IInv'
  BY <1>5, SetStageStep DEF UpdateCase
<1>6. CASE RecordWithdrawal
  BY <1>6, SetStageStep DEF RecordWithdrawal, Stages
<1>7. ASSUME NEW s \in Officers \cup {None}, ReassignSupport(s)  PROVE IInv'
  BY <1>7, ReassignSupportStep
<1>8. CASE UNCHANGED vars
  BY <1>8 DEF vars, IInv, TypeOK, HistoryOK, Plans, Alone, Busy, InTime, Timely, Calm,
              RecordsAgree, CompletedHasOutcome
<1> QED
  BY <1>1, <1>2, <1>3, <1>4, <1>5, <1>6, <1>7, <1>8 DEF Next

\* The inductive invariant.
THEOREM Invariant == Spec => []IInv
BY Initially, Inductive, PTL DEF Spec

\* Every reachable state is well typed.
THEOREM TypeCorrect == Spec => []TypeOK
<1>1. IInv => TypeOK
  BY DEF IInv
<1> QED
  BY <1>1, Invariant, PTL

\* Stage, number and visa row agree as long as requests do not overlap: every
\* request writes over the stage it saw, whatever fails or dies.
THEOREM OneStory == Spec => []RecordsAgree
<1>1. IInv => RecordsAgree
  BY DEF IInv
<1> QED
  BY <1>1, Invariant, PTL

\* A completed case says how it ended, also when requests overlap.
THEOREM Completed == Spec => []CompletedHasOutcome
<1>1. IInv => CompletedHasOutcome
  BY DEF IInv
<1> QED
  BY <1>1, Invariant, PTL

\* An outcome is never replaced by another, also when requests overlap.
THEOREM Outcome == Spec => OutcomeStands
<1>1. [Next]_vars => [visa # "none" => visa' \in {visa, "none"}]_vars
  BY DEF Next, vars, SubmitToInz, EditInzSubmission, RevertInzSubmission, IssueApprovedVisa,
         RecordDeclinedVisa, RevertVisaRecord, Start, UpdateStatus, WriteSubmission, WriteEdit,
         WriteUnsubmission, WriteOutcome, Recordable, FindVisa, DeleteVisa, AssignCarer,
         FindApplications, WriteStatus, MoveApplication, StepFails, RequestDies, UpdateCase,
         RecordWithdrawal, SetStage, ReassignSupport
<1> QED
  BY <1>1, PTL DEF Spec, OutcomeStands

-----------------------------------------------------------------------------
\* The statuses of the applications.

\* The moves of applications, each from the request that makes them.
Submitting == Shift("OFFER_ACCEPTED", "VISA_SUBMITTED")
Unsubmitting == Shift("VISA_SUBMITTED", "OFFER_ACCEPTED")
Approving == Shift("VISA_SUBMITTED", "VISA_APPROVED")
Refusing == Shift("VISA_SUBMITTED", "VISA_DECLINED")
Unapproving == Shift("VISA_APPROVED", "VISA_SUBMITTED")
Unrefusing == Shift("VISA_DECLINED", "VISA_SUBMITTED")
Moves == {Submitting, Unsubmitting, Approving, Refusing, Unapproving, Unrefusing}

\* What a request may have left to do.
BySet == {<<[do |-> "set", from |-> from, to |-> to]>>: from \in Statuses, to \in Statuses}
Scripts ==
  {<<>>, Submission, <<Submitting>>, Unsubmission, <<Step("unsubmit")>>,
   Approval, <<Step("care"), Approving>>, <<Approving>>, Refusal, <<Refusing>>,
   Undoing, <<Unrefusing, Step("lookup"), Step("unrecord")>>, <<Step("lookup"), Step("unrecord")>>,
   <<Step("unrecord")>>, <<Step("edit")>>} \cup BySet

\* The step a request is at.
NextStep(t) == IF t = <<>> THEN Step("none") ELSE Head(t)
At(w) == NextStep(req[w].todo)

\* What the step a request is at may assume about the record.
Placed(w) ==
  LET h == At(w) IN
  /\ req[w].todo \in Scripts
  /\ h.do = "submit" => stage = "VISA"
  /\ h \in {Submitting, Unsubmitting} \/ h.do \in {"unsubmit", "record"} => stage = "INZ_SUBMITTED"
  /\ h.do = "record" /\ req[w].todo # <<>> =>
       Head(Tail(req[w].todo)) = (IF req[w].arg = "APPROVED" THEN Step("care") ELSE Refusing)
  /\ h.do = "care" \/ h = Approving => visa = "APPROVED"
  /\ h = Refusing => visa = "DECLINED"
  /\ h.do = "unrecord" => visa # "none"
  /\ h.do = "set" => req[w].arg \in history.apps

\* How far the status of an application may be behind, or ahead of, the record
\* while a request is at step h.
Behind(h, a) ==
  /\ app[a] = "VISA_SUBMITTED" =>
       /\ h.do # "unsubmit"
       /\ \/ stage = "INZ_SUBMITTED" \/ h.do = "care" \/ h \in {Approving, Refusing}
          \/ visa # "none" /\ (h \in {Unapproving, Unrefusing} \/ h.do \in {"lookup", "unrecord"})
  /\ app[a] = "VISA_APPROVED" => visa = "APPROVED" /\ h # Unrefusing /\ h.do \notin {"lookup", "unrecord"}
  /\ app[a] = "VISA_DECLINED" => visa = "DECLINED" /\ h.do \notin {"lookup", "unrecord"}
  /\ app[a] = "OFFER_ACCEPTED" =>
       stage = "VISA" \/ h = Submitting \/ h = Unsubmitting \/ h.do = "unsubmit"

\* The applications found are those that the move is for.
Found(w) ==
  At(w).do = "shift" /\ req[w].found # {} =>
    \A a \in Apps \ history.apps: a \in req[w].found <=> app[a] = At(w).from

InStep(h) == \A a \in Apps \ history.apps: Behind(h, a)

Following(w) == Placed(w) /\ Found(w) /\ InStep(At(w))

Follows ==
  Calm => /\ \A w \in Busy: Following(w)
          /\ Rest => InStep(Step("none"))

LEMMA Names ==
  /\ \A do \in Dos \cup {"none"}: Step(do).do = do /\ Step(do) \notin Moves
  /\ \A m \in Moves: m.do = "shift"
  /\ Submitting.from = "OFFER_ACCEPTED" /\ Submitting.to = "VISA_SUBMITTED"
  /\ Unsubmitting.from = "VISA_SUBMITTED" /\ Unsubmitting.to = "OFFER_ACCEPTED"
  /\ Approving.from = "VISA_SUBMITTED" /\ Approving.to = "VISA_APPROVED"
  /\ Refusing.from = "VISA_SUBMITTED" /\ Refusing.to = "VISA_DECLINED"
  /\ Unapproving.from = "VISA_APPROVED" /\ Unapproving.to = "VISA_SUBMITTED"
  /\ Unrefusing.from = "VISA_DECLINED" /\ Unrefusing.to = "VISA_SUBMITTED"
BY DEF Step, Shift, Moves, Submitting, Unsubmitting, Approving, Refusing, Unapproving, Unrefusing, Dos

\* The steps tell each other apart.
LEMMA Apart ==
  /\ \A do \in Dos \cup {"none"}: Step(do).do = do
       /\ Step(do) # Submitting /\ Step(do) # Unsubmitting /\ Step(do) # Approving
       /\ Step(do) # Refusing /\ Step(do) # Unapproving /\ Step(do) # Unrefusing
  /\ Submitting # Unsubmitting /\ Submitting # Approving /\ Submitting # Refusing
  /\ Submitting # Unapproving /\ Submitting # Unrefusing
  /\ Unsubmitting # Approving /\ Unsubmitting # Refusing /\ Unsubmitting # Unapproving
  /\ Unsubmitting # Unrefusing
  /\ Approving # Refusing /\ Approving # Unapproving /\ Approving # Unrefusing
  /\ Refusing # Unapproving /\ Refusing # Unrefusing /\ Unapproving # Unrefusing
  /\ Submitting.do = "shift" /\ Unsubmitting.do = "shift" /\ Approving.do = "shift"
  /\ Refusing.do = "shift" /\ Unapproving.do = "shift" /\ Unrefusing.do = "shift"
<1>1. \A do \in Dos \cup {"none"}: Step(do).do = do /\ Step(do) \notin Moves
  BY Names
<1>2. \A m \in Moves: m.do = "shift"
  BY Names
<1> QED BY <1>1, <1>2, Names DEF Moves

\* What comes after a step, and after a move that fails.
ScriptStep(t) ==
  LET h == Head(t)  n == NextStep(Tail(t)) IN
  /\ h.do \in Dos /\ (h.do = "shift" => h \in Moves) /\ Tail(t) \in Scripts
  /\ h.do = "submit" => n = Submitting
  /\ h \in {Submitting, Approving, Refusing} \/ h.do \in {"unsubmit", "unrecord", "edit", "set"} =>
       Tail(t) = <<>>
  /\ h = Unsubmitting => n = Step("unsubmit")
  /\ h = Unapproving => n = Unrefusing
  /\ h = Unrefusing => n = Step("lookup")
  /\ h.do = "lookup" => n = Step("unrecord")
  /\ h.do = "care" => n = Approving
  /\ h.do = "record" => n \in {Step("care"), Refusing} /\ Tail(t) # <<>>
  /\ h.do = "shift" =>
       /\ AfterShifts(t) \in Scripts
       /\ NextStep(AfterShifts(t)) \in {Step("none"), Step("lookup"), Step("unsubmit")}
       /\ NextStep(AfterShifts(t)) = Step("unsubmit") => h = Unsubmitting

LEMMA ScriptSteps ==
  ASSUME NEW t \in Scripts, t # <<>> PROVE ScriptStep(t)
<1>1. CASE t = Submission
  <2>1. t = <<Step("submit"), Submitting>>
    BY <1>1 DEF Submission, Submitting
  <2>2. Head(t) = Step("submit") /\ Tail(t) = <<Submitting>> /\ Tail(t) # <<>> /\ Head(Tail(t)) = Submitting
    BY <2>1
  <2>3. Tail(t) \in Scripts
    BY <2>2 DEF Scripts
  <2> QED BY <2>1, <2>2, <2>3, Apart
    DEF ScriptStep, NextStep, Moves, Dos
<1>2. CASE t = <<Submitting>>
  <2>1. t = <<Submitting>>
    BY <1>2
  <2>2. Head(t) = Submitting /\ Tail(t) = <<>>
    BY <2>1
  <2>3. Tail(t) \in Scripts
    BY <2>2 DEF Scripts
  <2>5. AfterShifts(t) = <<>>
    BY <2>2 DEF AfterShifts
  <2>6. AfterShifts(t) \in Scripts /\ NextStep(AfterShifts(t)) = Step("none")
    BY <2>5 DEF Scripts, NextStep
  <2>7. Submitting \in Moves
    BY DEF Moves
  <2> QED BY <2>1, <2>2, <2>3, <2>6, <2>7, Apart
    DEF ScriptStep, NextStep, Moves, Dos
<1>3. CASE t = Unsubmission
  <2>1. t = <<Unsubmitting, Step("unsubmit")>>
    BY <1>3 DEF Unsubmission, Unsubmitting
  <2>2. Head(t) = Unsubmitting /\ Tail(t) = <<Step("unsubmit")>> /\ Tail(t) # <<>> /\ Head(Tail(t)) = Step("unsubmit")
    BY <2>1
  <2>3. Tail(t) \in Scripts
    BY <2>2 DEF Scripts
  <2>4. t[2] = Step("unsubmit") /\ Tail(Tail(t)) = <<>>
    BY <2>1, <2>2
  <2>5. AfterShifts(t) = <<Step("unsubmit")>>
    BY <2>2, <2>4, Names DEF Moves, Dos, AfterShifts
  <2>6. AfterShifts(t) \in Scripts /\ NextStep(AfterShifts(t)) = Step("unsubmit")
    BY <2>5 DEF Scripts, NextStep
  <2>7. Unsubmitting \in Moves
    BY DEF Moves
  <2> QED BY <2>1, <2>2, <2>3, <2>6, <2>7, Apart
    DEF ScriptStep, NextStep, Moves, Dos
<1>4. CASE t = <<Step("unsubmit")>>
  <2>1. t = <<Step("unsubmit")>>
    BY <1>4
  <2>2. Head(t) = Step("unsubmit") /\ Tail(t) = <<>>
    BY <2>1
  <2>3. Tail(t) \in Scripts
    BY <2>2 DEF Scripts
  <2> QED BY <2>1, <2>2, <2>3, Apart
    DEF ScriptStep, NextStep, Moves, Dos
<1>5. CASE t = Approval
  <2>1. t = <<Step("record"), Step("care"), Approving>>
    BY <1>5 DEF Approval, Approving
  <2>2. Head(t) = Step("record") /\ Tail(t) = <<Step("care"), Approving>> /\ Tail(t) # <<>> /\ Head(Tail(t)) = Step("care")
    BY <2>1
  <2>3. Tail(t) \in Scripts
    BY <2>2 DEF Scripts
  <2> QED BY <2>1, <2>2, <2>3, Apart
    DEF ScriptStep, NextStep, Moves, Dos
<1>6. CASE t = <<Step("care"), Approving>>
  <2>1. t = <<Step("care"), Approving>>
    BY <1>6
  <2>2. Head(t) = Step("care") /\ Tail(t) = <<Approving>> /\ Tail(t) # <<>> /\ Head(Tail(t)) = Approving
    BY <2>1
  <2>3. Tail(t) \in Scripts
    BY <2>2 DEF Scripts
  <2> QED BY <2>1, <2>2, <2>3, Apart
    DEF ScriptStep, NextStep, Moves, Dos
<1>7. CASE t = <<Approving>>
  <2>1. t = <<Approving>>
    BY <1>7
  <2>2. Head(t) = Approving /\ Tail(t) = <<>>
    BY <2>1
  <2>3. Tail(t) \in Scripts
    BY <2>2 DEF Scripts
  <2>5. AfterShifts(t) = <<>>
    BY <2>2 DEF AfterShifts
  <2>6. AfterShifts(t) \in Scripts /\ NextStep(AfterShifts(t)) = Step("none")
    BY <2>5 DEF Scripts, NextStep
  <2>7. Approving \in Moves
    BY DEF Moves
  <2> QED BY <2>1, <2>2, <2>3, <2>6, <2>7, Apart
    DEF ScriptStep, NextStep, Moves, Dos
<1>8. CASE t = Refusal
  <2>1. t = <<Step("record"), Refusing>>
    BY <1>8 DEF Refusal, Refusing
  <2>2. Head(t) = Step("record") /\ Tail(t) = <<Refusing>> /\ Tail(t) # <<>> /\ Head(Tail(t)) = Refusing
    BY <2>1
  <2>3. Tail(t) \in Scripts
    BY <2>2 DEF Scripts
  <2> QED BY <2>1, <2>2, <2>3, Apart
    DEF ScriptStep, NextStep, Moves, Dos
<1>9. CASE t = <<Refusing>>
  <2>1. t = <<Refusing>>
    BY <1>9
  <2>2. Head(t) = Refusing /\ Tail(t) = <<>>
    BY <2>1
  <2>3. Tail(t) \in Scripts
    BY <2>2 DEF Scripts
  <2>5. AfterShifts(t) = <<>>
    BY <2>2 DEF AfterShifts
  <2>6. AfterShifts(t) \in Scripts /\ NextStep(AfterShifts(t)) = Step("none")
    BY <2>5 DEF Scripts, NextStep
  <2>7. Refusing \in Moves
    BY DEF Moves
  <2> QED BY <2>1, <2>2, <2>3, <2>6, <2>7, Apart
    DEF ScriptStep, NextStep, Moves, Dos
<1>10. CASE t = Undoing
  <2>1. t = <<Unapproving, Unrefusing, Step("lookup"), Step("unrecord")>>
    BY <1>10 DEF Undoing, Unapproving, Unrefusing
  <2>2. Head(t) = Unapproving /\ Tail(t) = <<Unrefusing, Step("lookup"), Step("unrecord")>> /\ Tail(t) # <<>> /\ Head(Tail(t)) = Unrefusing
    BY <2>1
  <2>3. Tail(t) \in Scripts
    BY <2>2 DEF Scripts
  <2>4. t[2] = Unrefusing /\ Tail(Tail(t)) = <<Step("lookup"), Step("unrecord")>>
    BY <2>1, <2>2
  <2>5. AfterShifts(t) = <<Step("lookup"), Step("unrecord")>>
    BY <2>2, <2>4, Names DEF Moves, Dos, AfterShifts
  <2>6. AfterShifts(t) \in Scripts /\ NextStep(AfterShifts(t)) = Step("lookup")
    BY <2>5 DEF Scripts, NextStep
  <2>7. Unapproving \in Moves
    BY DEF Moves
  <2> QED BY <2>1, <2>2, <2>3, <2>6, <2>7, Apart
    DEF ScriptStep, NextStep, Moves, Dos
<1>11. CASE t = <<Unrefusing, Step("lookup"), Step("unrecord")>>
  <2>1. t = <<Unrefusing, Step("lookup"), Step("unrecord")>>
    BY <1>11
  <2>2. Head(t) = Unrefusing /\ Tail(t) = <<Step("lookup"), Step("unrecord")>> /\ Tail(t) # <<>> /\ Head(Tail(t)) = Step("lookup")
    BY <2>1
  <2>3. Tail(t) \in Scripts
    BY <2>2 DEF Scripts
  <2>4. t[2] = Step("lookup") /\ Tail(Tail(t)) = <<Step("unrecord")>>
    BY <2>1, <2>2
  <2>5. AfterShifts(t) = <<Step("lookup"), Step("unrecord")>>
    BY <2>2, <2>4, Names DEF Moves, Dos, AfterShifts
  <2>6. AfterShifts(t) \in Scripts /\ NextStep(AfterShifts(t)) = Step("lookup")
    BY <2>5 DEF Scripts, NextStep
  <2>7. Unrefusing \in Moves
    BY DEF Moves
  <2> QED BY <2>1, <2>2, <2>3, <2>6, <2>7, Apart
    DEF ScriptStep, NextStep, Moves, Dos
<1>12. CASE t = <<Step("lookup"), Step("unrecord")>>
  <2>1. t = <<Step("lookup"), Step("unrecord")>>
    BY <1>12
  <2>2. Head(t) = Step("lookup") /\ Tail(t) = <<Step("unrecord")>> /\ Tail(t) # <<>> /\ Head(Tail(t)) = Step("unrecord")
    BY <2>1
  <2>3. Tail(t) \in Scripts
    BY <2>2 DEF Scripts
  <2> QED BY <2>1, <2>2, <2>3, Apart
    DEF ScriptStep, NextStep, Moves, Dos
<1>13. CASE t = <<Step("unrecord")>>
  <2>1. t = <<Step("unrecord")>>
    BY <1>13
  <2>2. Head(t) = Step("unrecord") /\ Tail(t) = <<>>
    BY <2>1
  <2>3. Tail(t) \in Scripts
    BY <2>2 DEF Scripts
  <2> QED BY <2>1, <2>2, <2>3, Apart
    DEF ScriptStep, NextStep, Moves, Dos
<1>14. CASE t = <<Step("edit")>>
  <2>1. t = <<Step("edit")>>
    BY <1>14
  <2>2. Head(t) = Step("edit") /\ Tail(t) = <<>>
    BY <2>1
  <2>3. Tail(t) \in Scripts
    BY <2>2 DEF Scripts
  <2> QED BY <2>1, <2>2, <2>3, Apart
    DEF ScriptStep, NextStep, Moves, Dos
<1>15. ASSUME NEW from \in Statuses, NEW to \in Statuses, t = <<[do |-> "set", from |-> from, to |-> to]>>
       PROVE  ScriptStep(t)
  <2>1. Head(t).do = "set" /\ Tail(t) = <<>> /\ Tail(t) \in Scripts
    BY <1>15 DEF Scripts
  <2>2. Head(t) \notin Moves
    BY <2>1, Names
  <2> QED BY <2>1, <2>2 DEF ScriptStep, NextStep, Moves, Dos
<1> QED BY <1>1, <1>2, <1>3, <1>4, <1>5, <1>6, <1>7, <1>8, <1>9, <1>10, <1>11, <1>12, <1>13, <1>14, <1>15
  DEF Scripts, BySet

-----------------------------------------------------------------------------
\* The request that takes a step, alone.

LEMMA Alone1 ==
  ASSUME IInv, Follows, Calm, NEW w \in Workers, req[w].todo # <<>>
  PROVE  /\ Following(w) /\ \A v \in Workers \ {w}: req[v] = Idle
         /\ At(w) = Head(req[w].todo) /\ ScriptStep(req[w].todo)
<1>1. w \in Busy
  BY DEF Busy, Idle
<1>2. Following(w) /\ \A v \in Workers \ {w}: req[v] = Idle
  BY <1>1 DEF IInv, Alone, Calm, Busy, Follows
<1>3. ScriptStep(req[w].todo)
  BY <1>2, ScriptSteps DEF Following, Placed
<1> QED BY <1>2, <1>3 DEF At, NextStep

\* What remains to be shown after a step of a request that is alone.
LEMMA StillFollows ==
  ASSUME NEW w \in Workers, \A v \in Workers \ {w}: req'[v] = Idle, Following(w)'
  PROVE  Follows'
<1>1. \A v \in Busy': v = w
  BY DEF Busy
<1>2. ASSUME Rest' PROVE InStep(Step("none"))'
  <2>1. req'[w] = Idle
    BY <1>2 DEF Rest, Busy
  <2>2. At(w)' = Step("none")
    BY <2>1 DEF At, NextStep, Idle
  <2> QED BY <2>2 DEF Following, InStep, Behind
<1> QED BY <1>1, <1>2 DEF Follows

\* Going on, or ending.
LEMMA MovesOn ==
  ASSUME IInv, Follows, Calm, NEW w \in Workers, req[w].todo # <<>>, NEW steps \in Scripts, Goto(w, steps)
  PROVE  /\ \A v \in Workers \ {w}: req'[v] = Idle
         /\ req'[w].todo = steps /\ At(w)' = NextStep(steps) /\ Found(w)'
         /\ steps # <<>> => req'[w].arg = req[w].arg
<1>1. req' = [req EXCEPT ![w] = IF steps = <<>> THEN Idle
                                ELSE [todo |-> steps, arg |-> req[w].arg, found |-> {}]]
  BY DEF Goto
<1>2. req'[w] = IF steps = <<>> THEN Idle ELSE [todo |-> steps, arg |-> req[w].arg, found |-> {}]
  BY <1>1 DEF IInv, Plans
<1>3. req'[w].todo = steps /\ req'[w].found = {} /\ (steps # <<>> => req'[w].arg = req[w].arg)
  BY <1>2 DEF Idle
<1>4. \A v \in Workers \ {w}: req'[v] = Idle
  BY <1>1, Alone1 DEF IInv, Plans
<1> QED BY <1>3, <1>4 DEF At, Found

\* A request with nothing left needs nothing; some steps need no more.
LEMMA PlacedAt ==
  ASSUME NEW w \in Workers, req'[w].todo \in Scripts,
         \/ At(w)' \in {Step("none"), Step("lookup"), Step("edit")}
         \/ At(w)' \in {Submitting, Unsubmitting, Step("unsubmit")} /\ stage' = "INZ_SUBMITTED"
         \/ At(w)' \in {Step("care"), Approving} /\ visa' = "APPROVED"
         \/ At(w)' = Refusing /\ visa' = "DECLINED"
         \/ At(w)' \in {Unapproving, Unrefusing}
         \/ At(w)' = Step("unrecord") /\ visa' # "none"
  PROVE  Placed(w)'
<1>1. {"none", "lookup", "edit", "unsubmit", "care", "unrecord"} \subseteq Dos \cup {"none"}
  BY DEF Dos
<1> QED BY <1>1, Apart DEF Placed

LEMMA SomeDos == {"submit", "edit", "unsubmit", "record", "lookup", "unrecord", "care", "shift", "set", "none"}
                   = Dos \cup {"none"}
  BY DEF Dos

\* Steps that end a request and leave the record and the statuses alone.
LEMMA EndFollows ==
  ASSUME IInv, Follows, Calm, NEW w \in Workers, req[w].todo # <<>>, Ends(w),
         UNCHANGED <<stage, visa, app>>, Apps \ history'.apps \subseteq Apps \ history.apps,
         Apps \ history'.apps = {} \/ At(w).do \in {"submit", "edit", "record", "set"}
           \/ (At(w).do = "lookup" /\ visa = "none")
  PROVE  Follows'
<1>1. <<>> \in Scripts
  BY DEF Scripts
<1>2. /\ \A v \in Workers \ {w}: req'[v] = Idle
      /\ req'[w].todo = <<>> /\ At(w)' = Step("none") /\ Found(w)'
  BY <1>1, MovesOn DEF Ends, NextStep
<1>3. Placed(w)'
  BY <1>1, <1>2, PlacedAt
<1>4. InStep(At(w))'
  <2>1. Following(w)
    BY Alone1
  <2>2. ASSUME NEW a \in Apps \ history'.apps PROVE Behind(Step("none"), a)'
    <3>1. Behind(At(w), a)
      BY <2>1, <2>2 DEF Following, InStep
    <3>2. /\ At(w).do \in {"submit", "edit", "record", "set", "lookup"}
          /\ At(w).do = "lookup" => visa = "none"
      BY <2>2
    <3>3. At(w) \notin Moves
      BY <3>2, Names
    <3> QED BY <3>1, <3>2, <3>3, SomeDos, Apart DEF Behind, Moves
  <2> QED BY <1>2, <2>2 DEF InStep
<1> QED BY <1>2, <1>3, <1>4, StillFollows DEF Following

-----------------------------------------------------------------------------
\* Requests begin on a case at rest.

\* A request that begins: what its first step may assume holds at rest.
LEMMA BeginFollows ==
  ASSUME IInv, Follows, NEW w \in Workers, req[w] = Idle, NEW r, req' = [req EXCEPT ![w] = r],
         r.todo \in Scripts, r.todo # <<>>, r.found = {},
         history'.overlap = (history.overlap \/ Busy # {}), history'.stage = history.stage,
         history.apps \subseteq history'.apps, UNCHANGED <<stage, visa, app>>,
         Head(r.todo).do \notin {"unsubmit", "lookup", "unrecord"}, Head(r.todo) # Unrefusing,
         Calm => Placed(w)'
  PROVE  Follows'
<1> SUFFICES ASSUME Calm' PROVE Follows'
  BY DEF Follows
<1>1. Calm /\ Rest
  BY DEF Calm, Rest
<1>2. InStep(Step("none")) /\ \A v \in Workers \ {w}: req'[v] = Idle
  BY <1>1 DEF Follows, Rest, Busy, IInv, Plans
<1>3. req'[w] = r /\ At(w)' = Head(r.todo) /\ Found(w)'
  BY DEF IInv, Plans, At, NextStep, Found
<1>4. ASSUME NEW a \in Apps \ history'.apps PROVE Behind(Head(r.todo), a)'
  <2>1. Behind(Step("none"), a)
    BY <1>2, <1>4 DEF InStep
  <2>2. Step("none").do = "none" /\ Step("none") \notin Moves
    BY Names
  <2> QED BY <2>1, <2>2 DEF Behind, Moves
<1> QED BY <1>1, <1>2, <1>3, <1>4, StillFollows DEF Following, InStep

\* The same for a request whose first read is its guard.
LEMMA StartFollows ==
  ASSUME IInv, Follows, NEW w \in Workers, NEW steps \in Scripts, NEW arg, Start(w, steps, arg),
         steps # <<>>,
         Head(steps).do \notin {"unsubmit", "lookup", "unrecord"}, Head(steps) # Unrefusing,
         Calm /\ req'[w].todo = steps /\ req'[w].arg = arg /\ At(w)' = Head(steps)
           /\ UNCHANGED <<stage, visa>> => Placed(w)'
  PROVE  Follows'
<1> DEFINE r == [todo |-> steps, arg |-> arg, found |-> {}]
<1>1. r.todo = steps /\ r.arg = arg /\ r.found = {}
  OBVIOUS
<1>2. /\ req[w] = Idle /\ req' = [req EXCEPT ![w] = r] /\ UNCHANGED <<stage, visa, app>>
      /\ history' = [history EXCEPT !.overlap = history.overlap \/ Busy # {}]
  BY DEF Start
<1>3. /\ history'.overlap = (history.overlap \/ Busy # {}) /\ history'.stage = history.stage
      /\ history.apps \subseteq history'.apps
  BY <1>2 DEF IInv, HistoryOK
<1> HIDE DEF r
<1>4. req'[w].todo = steps /\ req'[w].arg = arg /\ At(w)' = Head(steps)
  BY <1>1, <1>2 DEF IInv, Plans, At, NextStep
<1> QED BY <1>1, <1>2, <1>3, <1>4, BeginFollows

LEMMA SubmitToInzFollows ==
  ASSUME IInv, Follows, NEW w \in Workers, NEW n \in Numbers, SubmitToInz(w, n)
  PROVE  Follows'
<1>1. Submission \in Scripts /\ Submission # <<>> /\ Head(Submission) = Step("submit")
  BY DEF Scripts, Submission
<1>2. stage = "VISA" /\ Start(w, Submission, n)
  BY DEF SubmitToInz
<1>3. Step("submit").do = "submit" /\ Step("submit") \notin Moves
  BY Names DEF Dos
<1>4. ASSUME req'[w].todo = Submission, At(w)' = Step("submit"), stage' = stage PROVE Placed(w)'
  BY <1>1, <1>2, <1>3, <1>4 DEF Placed, Moves
<1> QED BY <1>1, <1>2, <1>3, <1>4, StartFollows DEF Moves

LEMMA EditInzSubmissionFollows ==
  ASSUME IInv, Follows, NEW w \in Workers, NEW n \in Numbers, EditInzSubmission(w, n)
  PROVE  Follows'
<1> DEFINE steps == <<Step("edit")>>
<1>1. steps \in Scripts /\ steps # <<>> /\ Head(steps) = Step("edit")
  BY DEF Scripts
<1>2. Start(w, steps, n)
  BY DEF EditInzSubmission
<1> HIDE DEF steps
<1>3. Step("edit").do = "edit" /\ Step("edit") \notin Moves
  BY Names DEF Dos
<1>4. ASSUME req'[w].todo = steps, At(w)' = Step("edit") PROVE Placed(w)'
  BY <1>1, <1>4, PlacedAt
<1> QED BY <1>1, <1>2, <1>3, <1>4, StartFollows DEF Moves

LEMMA RevertInzSubmissionFollows ==
  ASSUME IInv, Follows, NEW w \in Workers, RevertInzSubmission(w)
  PROVE  Follows'
<1>1. Unsubmission \in Scripts /\ Unsubmission # <<>> /\ Head(Unsubmission) = Unsubmitting
  BY DEF Scripts, Unsubmission, Unsubmitting
<1>2. stage = "INZ_SUBMITTED" /\ Start(w, Unsubmission, None)
  BY DEF RevertInzSubmission
<1>4. ASSUME req'[w].todo = Unsubmission, At(w)' = Unsubmitting, stage' = stage PROVE Placed(w)'
  BY <1>1, <1>2, <1>4, PlacedAt
<1> QED BY <1>1, <1>2, <1>4, StartFollows, Apart

LEMMA IssueApprovedVisaFollows ==
  ASSUME IInv, Follows, NEW w \in Workers, IssueApprovedVisa(w)
  PROVE  Follows'
<1>1. /\ Approval \in Scripts /\ Approval # <<>> /\ Head(Approval) = Step("record")
      /\ Head(Tail(Approval)) = Step("care")
  BY DEF Scripts, Approval
<1>2. stage = "INZ_SUBMITTED" /\ Start(w, Approval, "APPROVED")
  BY DEF IssueApprovedVisa, Decidable
<1>3. Step("record").do = "record" /\ Step("record") \notin Moves
  BY Names DEF Dos
<1>4. ASSUME req'[w].todo = Approval, req'[w].arg = "APPROVED", At(w)' = Step("record"), stage' = stage
      PROVE  Placed(w)'
  BY <1>1, <1>2, <1>3, <1>4 DEF Placed, Moves
<1> QED BY <1>1, <1>2, <1>3, <1>4, StartFollows DEF Moves

LEMMA RecordDeclinedVisaFollows ==
  ASSUME IInv, Follows, NEW w \in Workers, RecordDeclinedVisa(w)
  PROVE  Follows'
<1>1. /\ Refusal \in Scripts /\ Refusal # <<>> /\ Head(Refusal) = Step("record")
      /\ Head(Tail(Refusal)) = Refusing
  BY DEF Scripts, Refusal, Refusing
<1>2. stage = "INZ_SUBMITTED" /\ Start(w, Refusal, "DECLINED")
  BY DEF RecordDeclinedVisa, Decidable
<1>3. Step("record").do = "record" /\ Step("record") \notin Moves
  BY Names DEF Dos
<1>4. ASSUME req'[w].todo = Refusal, req'[w].arg = "DECLINED", At(w)' = Step("record"), stage' = stage
      PROVE  Placed(w)'
  BY <1>1, <1>2, <1>3, <1>4 DEF Placed, Moves
<1> QED BY <1>1, <1>2, <1>3, <1>4, StartFollows DEF Moves

LEMMA RevertVisaRecordFollows ==
  ASSUME IInv, Follows, NEW w \in Workers, RevertVisaRecord(w)
  PROVE  Follows'
<1>1. Undoing \in Scripts /\ Undoing # <<>> /\ Head(Undoing) = Unapproving
  BY DEF Scripts, Undoing, Unapproving
<1>2. Start(w, Undoing, None)
  BY DEF RevertVisaRecord
<1>4. ASSUME req'[w].todo = Undoing, At(w)' = Unapproving PROVE Placed(w)'
  BY <1>1, <1>4, PlacedAt
<1> QED BY <1>1, <1>2, <1>4, StartFollows, Apart

LEMMA UpdateStatusFollows ==
  ASSUME IInv, Follows, NEW w \in Workers, NEW a \in Apps, NEW to \in Statuses, UpdateStatus(w, a, to)
  PROVE  Follows'
<1> DEFINE todo == <<[do |-> "set", from |-> app[a], to |-> to]>>
           r == [todo |-> todo, arg |-> a, found |-> {}]
<1>1. todo \in Scripts /\ todo # <<>> /\ Head(todo).do = "set"
  BY DEF Scripts, BySet, IInv, TypeOK
<1>2. Head(todo) \notin Moves
  BY <1>1, Names
<1>3. /\ req[w] = Idle /\ req' = [req EXCEPT ![w] = r] /\ UNCHANGED <<stage, visa, app>>
      /\ history' = [history EXCEPT !.overlap = history.overlap \/ Busy # {}, !.hand = @ + 1,
                                    !.apps = @ \cup {a}]
  BY DEF UpdateStatus
<1>4. /\ history'.overlap = (history.overlap \/ Busy # {}) /\ history'.stage = history.stage
      /\ history'.apps = history.apps \cup {a}
  BY <1>3 DEF IInv, HistoryOK
<1>5. r.todo = todo /\ r.arg = a /\ r.found = {}
  OBVIOUS
<1> HIDE DEF todo, r
<1>6. req'[w] = r /\ At(w)' = Head(todo)
  BY <1>1, <1>3, <1>5 DEF IInv, Plans, At, NextStep
<1>7. Placed(w)'
  BY <1>1, <1>2, <1>4, <1>5, <1>6 DEF Placed, Moves
<1> QED BY <1>1, <1>2, <1>3, <1>4, <1>5, <1>7, BeginFollows DEF Moves

-----------------------------------------------------------------------------
\* Transactions.

\* A step that goes on leaves the others idle and what it must show is local.
LEMMA OnFollows ==
  ASSUME IInv, Follows, Calm, NEW w \in Workers, req[w].todo # <<>>, Onward(w),
         NextStep(Tail(req[w].todo)) = At(w)' => Placed(w)' /\ InStep(At(w))'
  PROVE  Follows'
<1>1. Tail(req[w].todo) \in Scripts
  BY Alone1 DEF ScriptStep
<1>2. /\ \A v \in Workers \ {w}: req'[v] = Idle /\ Found(w)'
      /\ At(w)' = NextStep(Tail(req[w].todo)) /\ Found(w)'
  BY <1>1, MovesOn DEF Onward
<1> QED BY <1>2, StillFollows DEF Following

\* What is known of the step that is taken.
LEMMA Here ==
  ASSUME IInv, Follows, Calm, NEW w \in Workers, NEW do, Doing(w, do)
  PROVE  /\ req[w].todo # <<>> /\ At(w) = Head(req[w].todo) /\ At(w).do = do
         /\ do # "shift" => At(w) \notin Moves
         /\ ScriptStep(req[w].todo) /\ Placed(w) /\ Found(w) /\ InStep(At(w))
         /\ Tail(req[w].todo) \in Scripts
         /\ Onward(w) => req'[w].todo = Tail(req[w].todo)
<1>1. req[w].todo # <<>> /\ Head(req[w].todo).do = do
  BY DEF Doing
<1>2. Following(w) /\ At(w) = Head(req[w].todo) /\ ScriptStep(req[w].todo)
  BY <1>1, Alone1
<1>3. do # "shift" => At(w) \notin Moves
  BY <1>1, <1>2, Names
<1>4. Tail(req[w].todo) \in Scripts
  BY <1>2 DEF ScriptStep
<1>5. Onward(w) => req'[w].todo = Tail(req[w].todo)
  BY <1>1, <1>4, MovesOn DEF Onward
<1> QED BY <1>1, <1>2, <1>3, <1>4, <1>5 DEF Following

LEMMA WriteSubmissionFollows ==
  ASSUME IInv, Follows, NEW w \in Workers, WriteSubmission(w)
  PROVE  Follows'
<1> SUFFICES ASSUME Calm' PROVE Follows'
  BY DEF Follows
<1>1. Calm
  BY DEF Calm, WriteSubmission
<1>2. Doing(w, "submit") /\ stage' = "INZ_SUBMITTED" /\ Onward(w) /\ UNCHANGED <<visa, app, history>>
  BY DEF WriteSubmission
<1>3. stage = "VISA" /\ visa = "none" /\ NextStep(Tail(req[w].todo)) = Submitting
  BY <1>1, <1>2, Here DEF Placed, ScriptStep, IInv, RecordsAgree, Calm
<1>4. ASSUME At(w)' = Submitting PROVE Placed(w)'
  BY <1>1, <1>2, <1>4, Here, PlacedAt
<1>5. ASSUME NEW a \in Apps \ history.apps PROVE Behind(Submitting, a)'
  <2>1. Behind(At(w), a) /\ At(w).do = "submit" /\ At(w) \notin Moves
    BY <1>1, <1>2, <1>5, Here DEF InStep
  <2> QED BY <1>2, <1>3, <2>1, Apart DEF Behind, Moves
<1> QED BY <1>1, <1>2, <1>3, <1>4, <1>5, Here, OnFollows DEF InStep

LEMMA WriteEditFollows ==
  ASSUME IInv, Follows, NEW w \in Workers, WriteEdit(w)
  PROVE  Follows'
<1> SUFFICES ASSUME Calm' PROVE Follows'
  BY DEF Follows
<1>1. Calm
  BY DEF Calm, WriteEdit
<1>2. Doing(w, "edit") /\ Onward(w) /\ UNCHANGED <<stage, visa, app, history>>
  BY DEF WriteEdit
<1>3. Tail(req[w].todo) = <<>> /\ At(w).do = "edit" /\ req[w].todo # <<>>
  BY <1>1, <1>2, Here DEF ScriptStep
<1> QED BY <1>1, <1>2, <1>3, EndFollows DEF Onward, Ends

LEMMA WriteUnsubmissionFollows ==
  ASSUME IInv, Follows, NEW w \in Workers, WriteUnsubmission(w)
  PROVE  Follows'
<1> SUFFICES ASSUME Calm' PROVE Follows'
  BY DEF Follows
<1>1. Calm
  BY DEF Calm, WriteUnsubmission
<1>2. Doing(w, "unsubmit") /\ stage' = "VISA" /\ Onward(w) /\ UNCHANGED <<visa, app, history>>
  BY DEF WriteUnsubmission
<1>3. stage = "INZ_SUBMITTED" /\ visa = "none" /\ Tail(req[w].todo) = <<>>
  BY <1>1, <1>2, Here DEF Placed, ScriptStep, IInv, RecordsAgree, Calm
<1>4. ASSUME At(w)' = Step("none") PROVE Placed(w)'
  BY <1>1, <1>2, <1>4, Here, PlacedAt
<1>5. ASSUME NEW a \in Apps \ history.apps PROVE Behind(Step("none"), a)'
  <2>1. Behind(At(w), a) /\ At(w).do = "unsubmit" /\ At(w) \notin Moves
    BY <1>1, <1>2, <1>5, Here DEF InStep
  <2>2. Step("none").do = "none" /\ Step("none") \notin Moves
    BY Names
  <2> QED BY <1>2, <1>3, <2>1, <2>2, Apart DEF Behind, Moves
<1>6. NextStep(Tail(req[w].todo)) = Step("none")
  BY <1>3 DEF NextStep
<1> QED BY <1>1, <1>2, <1>4, <1>5, <1>6, Here, OnFollows DEF InStep

LEMMA WriteOutcomeFollows ==
  ASSUME IInv, Follows, NEW w \in Workers, WriteOutcome(w)
  PROVE  Follows'
<1> SUFFICES ASSUME Calm' PROVE Follows'
  BY DEF Follows
<1>1. Calm
  BY DEF Calm, WriteOutcome
<1>2. Doing(w, "record") /\ UNCHANGED <<app, history>> /\ req[w].todo # <<>>
  BY DEF WriteOutcome, Doing
<1>3. CASE ~Recordable
  <2>1. Ends(w) /\ UNCHANGED <<visa, stage>> /\ At(w).do = "record"
    BY <1>1, <1>2, <1>3, Here DEF WriteOutcome
  <2> QED BY <1>1, <1>2, <2>1, EndFollows
<1>4. CASE Recordable
  <2>1. visa = "none" /\ visa' = req[w].arg /\ stage' = "COMPLETED" /\ Onward(w)
    BY <1>4 DEF WriteOutcome, Recordable
  <2> DEFINE n == NextStep(Tail(req[w].todo))
  <2>2. stage = "INZ_SUBMITTED" /\ Tail(req[w].todo) # <<>>
        /\ n = (IF req[w].arg = "APPROVED" THEN Step("care") ELSE Refusing)
    BY <1>1, <1>2, Here DEF Placed, ScriptStep, NextStep
  <2>3. req[w].arg \in Outcomes
    BY <1>2, AtHead DEF Supplied
  <2> HIDE DEF n
  <2>4. ASSUME At(w)' = n PROVE Placed(w)'
    BY <1>1, <1>2, <2>1, <2>2, <2>3, <2>4, Here, PlacedAt DEF Outcomes
  <2>5. ASSUME NEW h \in {Step("care"), Refusing}, NEW a \in Apps \ history.apps PROVE Behind(h, a)'
    <3>1. Behind(At(w), a) /\ At(w).do = "record" /\ At(w) \notin Moves
      BY <1>1, <1>2, <2>5, Here DEF InStep
    <3>2. app[a] \notin {"VISA_APPROVED", "VISA_DECLINED", "OFFER_ACCEPTED"}
      BY <2>1, <2>2, <3>1 DEF Behind, Moves
    <3>3. h.do \in {"care", "shift"} /\ (h.do = "care" \/ h = Refusing)
      BY <2>5, Apart DEF Dos
    <3> QED BY <1>2, <3>2, <3>3 DEF Behind
  <2>6. n \in {Step("care"), Refusing}
    BY <2>2
  <2>7. ASSUME At(w)' = n PROVE InStep(At(w))'
    BY <1>2, <2>5, <2>6, <2>7 DEF InStep
  <2> QED BY <1>1, <1>2, <2>1, <2>4, <2>7, OnFollows DEF n
<1> QED BY <1>3, <1>4

LEMMA FindVisaFollows ==
  ASSUME IInv, Follows, NEW w \in Workers, FindVisa(w)
  PROVE  Follows'
<1> SUFFICES ASSUME Calm' PROVE Follows'
  BY DEF Follows
<1>1. Calm
  BY DEF Calm, FindVisa
<1>2. Doing(w, "lookup") /\ UNCHANGED <<stage, visa, app, history>>
  BY DEF FindVisa
<1>3. At(w).do = "lookup" /\ req[w].todo # <<>> /\ NextStep(Tail(req[w].todo)) = Step("unrecord")
  BY <1>1, <1>2, Here DEF ScriptStep
<1>4. CASE visa = "none"
  BY <1>1, <1>2, <1>3, <1>4, EndFollows DEF FindVisa
<1>5. CASE visa # "none"
  <2>1. Onward(w)
    BY <1>5 DEF FindVisa
  <2>2. ASSUME At(w)' = Step("unrecord") PROVE Placed(w)'
    BY <1>1, <1>2, <1>5, <2>1, <2>2, Here, PlacedAt
  <2>3. Step("unrecord").do = "unrecord" /\ Step("unrecord") \notin Moves
    BY Names DEF Dos
  <2>4. ASSUME NEW a \in Apps \ history.apps PROVE Behind(Step("unrecord"), a)'
    <3>1. Behind(At(w), a) /\ At(w) \notin Moves
      BY <1>1, <1>2, <2>4, Here DEF InStep
    <3> QED BY <1>2, <1>3, <1>5, <2>3, <3>1 DEF Behind, Moves
  <2> QED BY <1>1, <1>2, <1>3, <2>1, <2>2, <2>4, OnFollows DEF InStep
<1> QED BY <1>4, <1>5

LEMMA DeleteVisaFollows ==
  ASSUME IInv, Follows, NEW w \in Workers, DeleteVisa(w)
  PROVE  Follows'
<1> SUFFICES ASSUME Calm' PROVE Follows'
  BY DEF Follows
<1>1. Calm
  BY DEF Calm, DeleteVisa
<1>2. Doing(w, "unrecord") /\ Ends(w) /\ UNCHANGED <<app, history>>
  BY DEF DeleteVisa
<1>3. /\ At(w).do = "unrecord" /\ req[w].todo # <<>> /\ Tail(req[w].todo) = <<>>
      /\ visa # "none" /\ At(w) \notin Moves
  BY <1>1, <1>2, Here DEF Placed, ScriptStep
<1>4. stage = "COMPLETED" /\ visa' = "none" /\ stage' = "INZ_SUBMITTED"
  BY <1>1, <1>3 DEF IInv, RecordsAgree, Calm, DeleteVisa, Reopened
<1>5. Onward(w) /\ NextStep(Tail(req[w].todo)) = Step("none")
  BY <1>2, <1>3 DEF Ends, Onward, NextStep
<1>6. ASSUME At(w)' = Step("none") PROVE Placed(w)'
  BY <1>1, <1>2, <1>5, <1>6, Here, PlacedAt
<1>7. ASSUME NEW a \in Apps \ history.apps PROVE Behind(Step("none"), a)'
  <2>1. Behind(At(w), a)
    BY <1>1, <1>2, <1>7, Here DEF InStep
  <2>2. Step("none").do = "none"
    BY Names
  <2> QED BY <1>2, <1>3, <1>4, <2>1, <2>2 DEF Behind, Moves
<1> QED BY <1>1, <1>2, <1>3, <1>5, <1>6, <1>7, OnFollows DEF InStep

-----------------------------------------------------------------------------
\* The moves of applications, and the carer.

\* A step that only notes what it has found.
LEMMA NotesFollows ==
  ASSUME IInv, Follows, Calm, NEW w \in Workers, req[w].todo # <<>>, NEW found,
         req' = [req EXCEPT ![w].found = found], UNCHANGED <<stage, visa, history>>,
         At(w)' = At(w) /\ req'[w].found = found => Found(w)' /\ InStep(At(w))'
  PROVE  Follows'
<1>1. req'[w].todo = req[w].todo /\ req'[w].arg = req[w].arg /\ req'[w].found = found
  BY DEF IInv, Plans, Requests
<1>2. \A v \in Workers \ {w}: req'[v] = Idle
  BY Alone1 DEF IInv, Plans
<1>3. Placed(w)' /\ At(w)' = At(w)
  BY <1>1, Alone1 DEF Following, Placed, At
<1> QED BY <1>1, <1>2, <1>3, StillFollows DEF Following

\* With the carer settled the applications are next.
LEMMA CaredFollows ==
  ASSUME IInv, Follows, Calm, NEW w \in Workers, Doing(w, "care"), Onward(w),
         UNCHANGED <<stage, visa, app>>, history'.apps = history.apps
  PROVE  Follows'
<1>1. /\ At(w).do = "care" /\ At(w) \notin Moves /\ req[w].todo # <<>> /\ visa = "APPROVED"
      /\ NextStep(Tail(req[w].todo)) = Approving
  BY Here DEF Placed, ScriptStep
<1>2. ASSUME At(w)' = Approving PROVE Placed(w)'
  BY <1>1, <1>2, Here, PlacedAt
<1>3. ASSUME NEW a \in Apps \ history.apps PROVE Behind(Approving, a)'
  <2>1. Behind(At(w), a)
    BY <1>3, Here DEF InStep
  <2> QED BY <1>1, <2>1, Apart DEF Behind, Moves
<1> QED BY <1>1, <1>2, <1>3, OnFollows DEF InStep

LEMMA AssignCarerFollows ==
  ASSUME IInv, Follows, NEW w \in Workers, AssignCarer(w)
  PROVE  Follows'
<1> SUFFICES ASSUME Calm' PROVE Follows'
  BY DEF Follows
<1>1. Calm
  BY DEF Calm, AssignCarer
<1>2. Doing(w, "care") /\ UNCHANGED <<stage, visa, app, history>>
  BY DEF AssignCarer
<1>3. CASE Onward(w)
  BY <1>1, <1>2, <1>3, CaredFollows
<1>4. ASSUME NEW s \in PickCarer, req' = [req EXCEPT ![w].found = {s}] PROVE Follows'
  <2>1. req[w].todo # <<>> /\ At(w).do = "care" /\ InStep(At(w))
    BY <1>1, <1>2, Here
  <2>2. ASSUME At(w)' = At(w) PROVE Found(w)' /\ InStep(At(w))'
    BY <1>2, <2>1, <2>2 DEF Found, InStep, Behind
  <2> QED BY <1>1, <1>2, <1>4, <2>1, <2>2, NotesFollows
<1> QED BY <1>3, <1>4 DEF AssignCarer

\* What a move may assume, and the step after it.
Ready(h) ==
  /\ h \in Moves
  /\ h \in {Submitting, Unsubmitting} => stage = "INZ_SUBMITTED"
  /\ h = Approving => visa = "APPROVED"
  /\ h = Refusing => visa = "DECLINED"

After(h, n) ==
  /\ h \in {Submitting, Approving, Refusing} => n = Step("none")
  /\ h = Unsubmitting => n = Step("unsubmit")
  /\ h = Unapproving => n = Unrefusing
  /\ h = Unrefusing => n = Step("lookup")

\* An application that is moved keeps in step with the move.
LEMMA MovedInStep ==
  ASSUME NEW h, Ready(h), NEW a, Behind(h, a), UNCHANGED <<stage, visa>>,
         app'[a] = app[a] \/ (app[a] = h.from /\ app'[a] = h.to)
  PROVE  Behind(h, a)'
<1>1. CASE app'[a] = app[a]
  BY <1>1 DEF Behind
<1>2. CASE app[a] = h.from /\ app'[a] = h.to
  <2>1. CASE h = Submitting
    BY <1>2, <2>1, Names, Apart DEF Behind, Ready
  <2>2. CASE h = Unsubmitting
    BY <1>2, <2>2, Names, Apart DEF Behind, Ready
  <2>3. CASE h = Approving
    BY <1>2, <2>3, Names, Apart DEF Behind, Ready
  <2>4. CASE h = Refusing
    BY <1>2, <2>4, Names, Apart DEF Behind, Ready
  <2>5. CASE h = Unapproving
    BY <1>2, <2>5, Names, Apart DEF Behind, Ready
  <2>6. CASE h = Unrefusing
    BY <1>2, <2>6, Names, Apart DEF Behind, Ready
  <2> QED BY <2>1, <2>2, <2>3, <2>4, <2>5, <2>6 DEF Ready, Moves
<1> QED BY <1>1, <1>2

\* Once nothing is left to move every application is in step with what follows.
LEMMA AllMoved ==
  ASSUME NEW h, NEW n, Ready(h)', After(h, n), NEW a, Behind(h, a)', app'[a] # h.from
  PROVE  Behind(n, a)'
<1>1. /\ Step("none").do = "none" /\ Step("unsubmit").do = "unsubmit" /\ Step("lookup").do = "lookup"
      /\ Step("none") \notin Moves /\ Step("unsubmit") \notin Moves /\ Step("lookup") \notin Moves
  BY Names DEF Dos
<1>2. CASE h = Submitting
  BY <1>1, <1>2, Names, Apart DEF Behind, Ready, After, Moves
<1>3. CASE h = Unsubmitting
  BY <1>1, <1>3, Names, Apart DEF Behind, Ready, After, Moves
<1>4. CASE h = Approving
  BY <1>1, <1>4, Names, Apart DEF Behind, Ready, After, Moves
<1>5. CASE h = Refusing
  BY <1>1, <1>5, Names, Apart DEF Behind, Ready, After, Moves
<1>6. CASE h = Unapproving
  BY <1>1, <1>6, Names, Apart DEF Behind, Ready, After, Moves
<1>7. CASE h = Unrefusing
  BY <1>1, <1>7, Names, Apart DEF Behind, Ready, After, Moves
<1> QED BY <1>2, <1>3, <1>4, <1>5, <1>6, <1>7 DEF Ready, Moves

\* The move a request is at.
LEMMA MoveHere ==
  ASSUME IInv, Follows, Calm, NEW w \in Workers, Doing(w, "shift")
  PROVE  /\ req[w].todo # <<>> /\ At(w) = Head(req[w].todo) /\ Ready(At(w))
         /\ After(At(w), NextStep(Tail(req[w].todo)))
         /\ \A a \in Apps \ history.apps: Behind(At(w), a)
         /\ Found(w)
<1>1. /\ req[w].todo # <<>> /\ At(w) = Head(req[w].todo) /\ At(w) \in Moves
      /\ ScriptStep(req[w].todo) /\ Placed(w) /\ Found(w) /\ InStep(At(w))
  BY Here DEF ScriptStep
<1>2. Ready(At(w))
  BY <1>1 DEF Ready, Placed
<1>3. After(At(w), NextStep(Tail(req[w].todo)))
  BY <1>1, Apart DEF ScriptStep, After, NextStep
<1> QED BY <1>1, <1>2, <1>3 DEF InStep

\* The request goes on when no application is left to move.
LEMMA MovedOn ==
  ASSUME IInv, Follows, Calm, NEW w \in Workers, Doing(w, "shift"), Onward(w),
         UNCHANGED <<stage, visa, history>>, NEW h, h = At(w),
         \A a \in Apps \ history.apps: Behind(h, a)' /\ app'[a] # h.from
  PROVE  Follows'
<1> DEFINE n == NextStep(Tail(req[w].todo))
<1>1. Ready(h) /\ After(h, n) /\ req[w].todo # <<>>
  BY MoveHere
<1>2. Ready(h)'
  BY <1>1 DEF Ready
<1>3. n \in {Step("none"), Step("unsubmit"), Unrefusing, Step("lookup")}
      /\ (n = Step("unsubmit") => stage = "INZ_SUBMITTED")
  <2>1. Step("unsubmit") # Step("none") /\ Step("unsubmit") # Step("lookup") /\ Step("unsubmit") # Unrefusing
    BY Apart DEF Dos, Step
  <2> QED BY <1>1, <2>1 DEF Ready, After, Moves
<1> HIDE DEF n
<1>4. ASSUME At(w)' = n PROVE Placed(w)'
  BY <1>3, <1>4, Here, PlacedAt
<1>5. ASSUME At(w)' = n PROVE InStep(At(w))'
  <2>1. ASSUME NEW m, m = n, NEW a \in Apps \ history.apps PROVE Behind(m, a)'
    BY <1>1, <1>2, <2>1, AllMoved
  <2>2. \A m: m = n => \A a \in Apps \ history.apps: Behind(m, a)'
    BY <2>1
  <2> QED BY <1>5, <2>2 DEF InStep
<1> QED BY <1>1, <1>4, <1>5, OnFollows DEF n

LEMMA FindApplicationsFollows ==
  ASSUME IInv, Follows, NEW w \in Workers, FindApplications(w)
  PROVE  Follows'
<1> SUFFICES ASSUME Calm' PROVE Follows'
  BY DEF Follows
<1>1. Calm
  BY DEF Calm, FindApplications
<1>2. Doing(w, "shift") /\ UNCHANGED <<stage, visa, app, history>>
  BY DEF FindApplications
<1> DEFINE found == Candidates(Head(req[w].todo).from)
<1>3. /\ req[w].todo # <<>> /\ At(w) = Head(req[w].todo) /\ Ready(At(w))
      /\ \A a \in Apps \ history.apps: Behind(At(w), a)
  BY <1>1, <1>2, MoveHere
<1>4. \A a \in Apps: a \in found <=> app[a] = At(w).from
  BY <1>3 DEF Candidates
<1>5. ASSUME NEW h, h = At(w), NEW a \in Apps \ history.apps PROVE Behind(h, a)'
  BY <1>2, <1>3, <1>5, MovedInStep
<1>6. CASE found = {}
  <2>1. Onward(w)
    BY <1>6 DEF FindApplications
  <2>2. \A h: h = At(w) => \A a \in Apps \ history.apps: Behind(h, a)' /\ app'[a] # h.from
    BY <1>2, <1>4, <1>5, <1>6
  <2> QED BY <1>1, <1>2, <2>1, <2>2, MovedOn
<1>7. CASE found # {}
  <2>1. req' = [req EXCEPT ![w].found = found]
    BY <1>7 DEF FindApplications
  <2> HIDE DEF found
  <2>2. ASSUME At(w)' = At(w), req'[w].found = found PROVE Found(w)' /\ InStep(At(w))'
    <3>1. Found(w)'
      BY <1>2, <1>4, <2>2 DEF Found
    <3>2. \A h: h = At(w) => \A a \in Apps \ history.apps: Behind(h, a)'
      BY <1>5
    <3> QED BY <1>2, <2>2, <3>1, <3>2 DEF InStep
  <2> QED BY <1>1, <1>2, <1>3, <2>1, <2>2, NotesFollows
<1> QED BY <1>6, <1>7

LEMMA MoveApplicationFollows ==
  ASSUME IInv, Follows, NEW w \in Workers, NEW b \in Apps, MoveApplication(w, b)
  PROVE  Follows'
<1> SUFFICES ASSUME Calm' PROVE Follows'
  BY DEF Follows
<1>1. Calm
  BY DEF Calm, MoveApplication
<1>2. /\ Doing(w, "shift") /\ b \in req[w].found /\ UNCHANGED <<stage, visa, history>>
      /\ app' = [app EXCEPT ![b] = Head(req[w].todo).to]
  BY DEF MoveApplication
<1>3. /\ req[w].todo # <<>> /\ At(w) = Head(req[w].todo) /\ Ready(At(w))
      /\ \A a \in Apps \ history.apps: Behind(At(w), a)
      /\ Found(w) /\ At(w).do = "shift" /\ At(w).from # At(w).to
  <2>1. \A h \in Moves: h.from # h.to /\ h.do = "shift"
    BY Names, Apart DEF Moves
  <2> QED BY <1>1, <1>2, <2>1, MoveHere DEF Ready
<1>4. app \in [Apps -> Statuses]
  BY DEF IInv, TypeOK
<1>5. app'[b] = At(w).to /\ \A a \in Apps \ {b}: app'[a] = app[a]
  BY <1>2, <1>3, <1>4
<1>6. \A a \in Apps \ history.apps: a \in req[w].found <=> app[a] = At(w).from
  BY <1>2, <1>3 DEF Found
<1>7. \A a \in Apps \ history.apps: app'[a] = app[a] \/ (app[a] = At(w).from /\ app'[a] = At(w).to)
  BY <1>2, <1>5, <1>6
<1>8. \A a \in Apps \ history.apps: a \in req[w].found \ {b} <=> app'[a] = At(w).from
  BY <1>3, <1>5, <1>6
<1>9. ASSUME NEW h, h = At(w), NEW a \in Apps \ history.apps PROVE Behind(h, a)'
  BY <1>2, <1>3, <1>7, <1>9, MovedInStep
<1>10. CASE req[w].found = {b}
  <2>1. Onward(w)
    BY <1>10 DEF MoveApplication
  <2>2. \A h: h = At(w) => \A a \in Apps \ history.apps: Behind(h, a)' /\ app'[a] # h.from
    BY <1>8, <1>9, <1>10
  <2> QED BY <1>1, <1>2, <2>1, <2>2, MovedOn
<1>11. CASE req[w].found # {b}
  <2> DEFINE found == req[w].found \ {b}
  <2>1. req' = [req EXCEPT ![w].found = found]
    BY <1>11 DEF MoveApplication
  <2> HIDE DEF found
  <2>2. ASSUME At(w)' = At(w), req'[w].found = found PROVE Found(w)' /\ InStep(At(w))'
    <3>1. Found(w)'
      BY <1>2, <1>8, <2>2 DEF Found, found
    <3>2. \A h: h = At(w) => \A a \in Apps \ history.apps: Behind(h, a)'
      BY <1>9
    <3> QED BY <1>2, <2>2, <3>1, <3>2 DEF InStep
  <2> QED BY <1>1, <1>2, <1>3, <2>1, <2>2, NotesFollows
<1> QED BY <1>10, <1>11

LEMMA WriteStatusFollows ==
  ASSUME IInv, Follows, NEW w \in Workers, WriteStatus(w)
  PROVE  Follows'
<1> SUFFICES ASSUME Calm' PROVE Follows'
  BY DEF Follows
<1>1. Calm
  BY DEF Calm, WriteStatus
<1>2. /\ Doing(w, "set") /\ Onward(w) /\ UNCHANGED <<stage, visa, history>>
      /\ app' = [app EXCEPT ![req[w].arg] = Head(req[w].todo).to]
  BY DEF WriteStatus
<1>3. /\ req[w].arg \in history.apps /\ req[w].todo # <<>> /\ Tail(req[w].todo) = <<>>
      /\ At(w).do = "set" /\ At(w) \notin Moves
  BY <1>1, <1>2, Here DEF Placed, ScriptStep
<1>4. NextStep(Tail(req[w].todo)) = Step("none")
  BY <1>3 DEF NextStep
<1>5. ASSUME At(w)' = Step("none") PROVE Placed(w)'
  BY <1>1, <1>2, <1>5, Here, PlacedAt
<1>6. ASSUME NEW a \in Apps \ history.apps PROVE Behind(Step("none"), a)'
  <2>1. Behind(At(w), a)
    BY <1>1, <1>2, <1>6, Here DEF InStep
  <2>2. app'[a] = app[a]
    BY <1>2, <1>3, <1>6 DEF IInv, TypeOK
  <2>3. Step("none").do = "none" /\ Step("none") \notin Moves
    BY Names
  <2> QED BY <1>2, <1>3, <2>1, <2>2, <2>3 DEF Behind, Moves
<1> QED BY <1>1, <1>2, <1>3, <1>4, <1>5, <1>6, OnFollows DEF InStep

-----------------------------------------------------------------------------
\* Accidents, and the world outside of the requests.

\* A request that is given up: no application has to be in step any more.
LEMMA GivenUp ==
  ASSUME IInv, Follows, Calm, NEW w \in Workers, NEW steps \in Scripts, Goto(w, steps),
         req[w].todo # <<>>, UNCHANGED stage, history'.apps = Apps,
         NextStep(steps) \in {Step("none"), Step("lookup")}
           \/ (NextStep(steps) = Step("unsubmit") /\ stage = "INZ_SUBMITTED")
  PROVE  Follows'
<1>1. /\ \A v \in Workers \ {w}: req'[v] = Idle
      /\ req'[w].todo = steps /\ At(w)' = NextStep(steps) /\ Found(w)'
  BY MovesOn
<1>2. Placed(w)'
  BY <1>1, PlacedAt
<1>3. InStep(At(w))'
  BY DEF InStep
<1> QED BY <1>1, <1>2, <1>3, StillFollows DEF Following

\* A request with nothing left to do, should there be one, does nothing.
LEMMA NothingLeft ==
  ASSUME IInv, Follows, Calm, NEW w \in Workers, req[w] # Idle, req[w].todo = <<>>, Ends(w),
         UNCHANGED <<stage, visa, app>>, Apps \ history'.apps \subseteq Apps \ history.apps
  PROVE  Follows'
<1>1. w \in Busy
  BY DEF Busy
<1>2. Following(w) /\ \A v \in Workers \ {w}: req[v] = Idle
  BY <1>1 DEF IInv, Alone, Calm, Busy, Follows
<1>3. req'[w] = Idle /\ \A v \in Workers \ {w}: req'[v] = Idle
  BY <1>2 DEF Ends, Goto, IInv, Plans
<1>4. At(w)' = Step("none") /\ At(w) = Step("none") /\ req'[w].todo = <<>> /\ Found(w)'
  BY <1>3 DEF At, NextStep, Idle, Found
<1>5. Placed(w)'
  <2>1. <<>> \in Scripts
    BY DEF Scripts
  <2> QED BY <1>4, <2>1, PlacedAt
<1>6. InStep(At(w))'
  BY <1>2, <1>4 DEF Following, InStep, Behind
<1> QED BY <1>3, <1>4, <1>5, <1>6, StillFollows DEF Following

LEMMA StepFailsFollows ==
  ASSUME IInv, Follows, NEW w \in Workers, StepFails(w)
  PROVE  Follows'
<1> SUFFICES ASSUME Calm' PROVE Follows'
  BY DEF Follows
<1>1. /\ req[w] # Idle /\ UNCHANGED <<stage, visa, app>>
      /\ history' = [history EXCEPT !.failures = @ + 1, !.care = @ \/ Doing(w, "care"),
                                    !.apps = IF Derived(w) THEN Apps ELSE @]
  BY DEF StepFails
<1>2. /\ history'.overlap = history.overlap /\ history'.stage = history.stage
      /\ history'.apps = (IF Derived(w) THEN Apps ELSE history.apps) /\ history.apps \subseteq Apps
  BY <1>1 DEF IInv, HistoryOK
<1>3. Calm
  BY <1>2 DEF Calm
<1>4. CASE Doing(w, "shift")
  <2>1. Derived(w) /\ ~Doing(w, "care")
    BY <1>4 DEF Derived, Doing
  <2>5. Goto(w, AfterShifts(req[w].todo))
    BY <1>4, <2>1 DEF StepFails
  <2> DEFINE n == NextStep(AfterShifts(req[w].todo))
  <2>2. /\ AfterShifts(req[w].todo) \in Scripts /\ req[w].todo # <<>>
        /\ n \in {Step("none"), Step("lookup"), Step("unsubmit")}
        /\ (n = Step("unsubmit") => At(w) = Unsubmitting)
    BY <1>3, <1>4, Here DEF ScriptStep
  <2>3. At(w) = Unsubmitting => stage = "INZ_SUBMITTED"
    BY <1>3, <1>4, MoveHere DEF Ready
  <2> QED BY <1>1, <1>2, <1>3, <2>1, <2>2, <2>3, <2>5, GivenUp
<1>5. CASE Doing(w, "care")
  <2>1. ~Derived(w) /\ ~Doing(w, "shift")
    BY <1>5 DEF Derived, Doing
  <2>2. Onward(w)
    BY <1>5, <2>1 DEF StepFails
  <2> QED BY <1>1, <1>2, <1>3, <1>5, <2>1, <2>2, CaredFollows
<1>6. CASE ~Doing(w, "shift") /\ ~Doing(w, "care")
  <2>1. Ends(w)
    BY <1>6 DEF StepFails
  <2>2. CASE req[w].todo = <<>>
    BY <1>1, <1>2, <1>3, <2>1, <2>2, NothingLeft
  <2>3. CASE req[w].todo # <<>>
    <3>1. At(w) = Head(req[w].todo) /\ At(w).do \in Dos
      BY <1>3, <2>3, Alone1 DEF ScriptStep
    <3>2. Derived(w) \/ At(w).do \in {"submit", "edit", "record", "set"}
      BY <1>6, <2>3, <3>1 DEF Doing, Derived, Dos
    <3> QED BY <1>1, <1>2, <1>3, <2>1, <2>3, <3>2, EndFollows
  <2> QED BY <2>2, <2>3
<1> QED BY <1>4, <1>5, <1>6

LEMMA RequestDiesFollows ==
  ASSUME IInv, Follows, NEW w \in Workers, RequestDies(w)
  PROVE  Follows'
<1> SUFFICES ASSUME Calm' PROVE Follows'
  BY DEF Follows
<1>1. /\ req[w] # Idle /\ Ends(w) /\ UNCHANGED <<stage, visa, app>>
      /\ history' = [history EXCEPT !.failures = @ + 1, !.care = TRUE, !.apps = Apps]
  BY DEF RequestDies
<1>2. /\ history'.overlap = history.overlap /\ history'.stage = history.stage
      /\ history'.apps = Apps
  BY <1>1 DEF IInv, HistoryOK
<1>3. Calm
  BY <1>2 DEF Calm
<1>4. CASE req[w].todo = <<>>
  BY <1>1, <1>2, <1>3, <1>4, NothingLeft
<1>5. CASE req[w].todo # <<>>
  BY <1>1, <1>2, <1>3, <1>5, EndFollows
<1> QED BY <1>4, <1>5

LEMMA SetStageFollows ==
  ASSUME IInv, NEW s, SetStage(s)
  PROVE  Follows'
<1>1. history'.stage = TRUE
  BY DEF SetStage, IInv, HistoryOK
<1> QED BY <1>1 DEF Follows, Calm

LEMMA SameFollows ==
  ASSUME Follows, UNCHANGED <<stage, visa, app, req>>, history'.overlap = history.overlap,
         history'.stage = history.stage, history'.apps = history.apps
  PROVE  Follows'
<1>1. Calm' = Calm /\ Busy' = Busy /\ Rest' = Rest
  BY DEF Calm, Busy, Rest
<1>2. ASSUME NEW h, InStep(h) PROVE InStep(h)'
  BY <1>2 DEF InStep, Behind
<1>3. ASSUME NEW w \in Busy, Following(w) PROVE Following(w)'
  <2>1. At(w)' = At(w)
    BY DEF At
  <2>2. Placed(w)' /\ Found(w)'
    BY <1>3, <2>1 DEF Following, Placed, Found
  <2>3. InStep(At(w))'
    BY <1>3, <2>1 DEF Following, InStep, Behind
  <2> QED BY <2>2, <2>3 DEF Following
<1> QED BY <1>1, <1>2, <1>3 DEF Follows

LEMMA ReassignSupportFollows ==
  ASSUME IInv, Follows, NEW s, ReassignSupport(s)
  PROVE  Follows'
<1>1. /\ history'.overlap = history.overlap /\ history'.stage = history.stage
      /\ history'.apps = history.apps /\ UNCHANGED <<stage, visa, app, req>>
  BY DEF ReassignSupport, IInv, HistoryOK
<1> QED BY <1>1, SameFollows

-----------------------------------------------------------------------------
\* No application was set past its offer before the case reached the visa stage.
NoneAhead == InitialStatuses \cap {"VISA_SUBMITTED", "VISA_APPROVED", "VISA_DECLINED"} = {}

LEMMA FollowsInitially == NoneAhead /\ Init => Follows
<1> SUFFICES ASSUME NoneAhead, Init PROVE Follows
  OBVIOUS
<1>1. Busy = {}
  BY DEF Init, Busy
<1>2. ASSUME NEW a \in Apps PROVE Behind(Step("none"), a)
  BY <1>2 DEF Init, NoneAhead, Behind
<1> QED BY <1>1, <1>2 DEF Follows, InStep

LEMMA FollowsInductive == IInv /\ Follows /\ [Next]_vars => Follows'
<1> SUFFICES ASSUME IInv, Follows, [Next]_vars PROVE Follows'
  OBVIOUS
<1>1. ASSUME NEW w \in Workers, NEW n \in Numbers, SubmitToInz(w, n) \/ EditInzSubmission(w, n)
      PROVE  Follows'
  BY <1>1, SubmitToInzFollows, EditInzSubmissionFollows
<1>2. ASSUME NEW w \in Workers,
             \/ RevertInzSubmission(w) \/ IssueApprovedVisa(w) \/ RecordDeclinedVisa(w)
             \/ RevertVisaRecord(w)
             \/ \E a \in Apps, to \in Statuses: UpdateStatus(w, a, to)
      PROVE  Follows'
  BY <1>2, RevertInzSubmissionFollows, IssueApprovedVisaFollows, RecordDeclinedVisaFollows,
     RevertVisaRecordFollows, UpdateStatusFollows
<1>3. ASSUME NEW w \in Workers,
             \/ WriteSubmission(w) \/ WriteEdit(w) \/ WriteUnsubmission(w)
             \/ WriteOutcome(w) \/ FindVisa(w) \/ DeleteVisa(w)
      PROVE  Follows'
  BY <1>3, WriteSubmissionFollows, WriteEditFollows, WriteUnsubmissionFollows, WriteOutcomeFollows,
     FindVisaFollows, DeleteVisaFollows
<1>4. ASSUME NEW w \in Workers,
             \/ AssignCarer(w) \/ FindApplications(w) \/ WriteStatus(w)
             \/ \E a \in Apps: MoveApplication(w, a)
             \/ StepFails(w) \/ RequestDies(w)
      PROVE  Follows'
  BY <1>4, AssignCarerFollows, FindApplicationsFollows, WriteStatusFollows, MoveApplicationFollows,
     StepFailsFollows, RequestDiesFollows
<1>5. ASSUME NEW s \in Stages, UpdateCase(s)  PROVE Follows'
  BY <1>5, SetStageFollows DEF UpdateCase
<1>6. CASE RecordWithdrawal
  BY <1>6, SetStageFollows DEF RecordWithdrawal
<1>7. ASSUME NEW s \in Officers \cup {None}, ReassignSupport(s)  PROVE Follows'
  BY <1>7, ReassignSupportFollows
<1>8. CASE UNCHANGED vars
  BY <1>8, SameFollows DEF vars
<1> QED
  BY <1>1, <1>2, <1>3, <1>4, <1>5, <1>6, <1>7, <1>8 DEF Next

\* The applications of a case at rest are where its record says: moved along
\* with the submission and the outcome, and moved back by their corrections.
\* The cases of the theorem are those none of whose applications had been set
\* past its offer before the visa stage: the code moves only what it finds at
\* the status the step starts from.
THEOREM StatusesKeepUp == NoneAhead => (Spec => []StatusesFollow)
<1> SUFFICES ASSUME NoneAhead PROVE Spec => []StatusesFollow
  OBVIOUS
<1>1. Follows => StatusesFollow
  <2> SUFFICES ASSUME Follows, Rest, Calm, NEW a \in Apps \ history.apps
               PROVE  /\ app[a] = "VISA_SUBMITTED" => stage = "INZ_SUBMITTED"
                      /\ app[a] = "VISA_APPROVED" => visa = "APPROVED"
                      /\ app[a] = "VISA_DECLINED" => visa = "DECLINED"
                      /\ app[a] = "OFFER_ACCEPTED" => stage = "VISA"
    BY DEF StatusesFollow, Calm
  <2>1. Behind(Step("none"), a) /\ Step("none").do = "none" /\ Step("none") \notin Moves
    BY Names DEF Follows, InStep
  <2> QED BY <2>1 DEF Behind, Moves
<1>2. Init => Follows
  BY FollowsInitially
<1>3. Follows /\ IInv /\ [Next]_vars => Follows'
  BY FollowsInductive
<1> QED BY <1>1, <1>2, <1>3, Invariant, PTL DEF Spec
=============================================================================
