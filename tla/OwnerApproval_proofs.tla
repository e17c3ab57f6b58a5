------------------------ MODULE OwnerApproval_proofs ------------------------
(***************************************************************************)
(* The two-person rule of approval requests for every number of staff,     *)
(* requests, payloads and concurrent HTTP requests, whatever is approved,  *)
(* promoted, deleted or swept meanwhile.                                   *)
(*                                                                         *)
(* MayApprove looks at requestedById when the request comes in, and        *)
(* doneBy is written several steps later.  In between only the request's   *)
(* own locals remember the check: LocalOK says what they are worth.        *)
(***************************************************************************)
EXTENDS OwnerApproval, TLAPS, FiniteSetTheorems

\* What the locals of a request t stand for, step by step.
LocalOK(t) ==
  /\ t.step \in {"approve", "execute"} =>
       /\ t.actor \in Staff /\ t.load \in Payloads
       /\ t.req # None => filedBy[t.req] \notin {None, t.actor}
  /\ t.step \in {"approve", "expire", "reject", "executed", "failed"} => t.req # None
  /\ t.step \in {"executed", "close", "pick", "open", "opening"} /\ t.req # None =>
       doneBy[t.req] # {}
  /\ t.step \in {"pick", "open", "opening"} => t.left # 0

Locals == \A w \in Workers: LocalOK(task[w])

\* The rows agree with who filed and who carried out.
RowsOK ==
  \A r \in Requests:
    /\ filedBy[r] = None <=> row[r].status = "none"
    /\ row[r].status = "EXECUTED" => doneBy[r] # {}

IInv == TypeOK /\ Locals /\ RowsOK

\* Nobody's filing is changed and nothing done is undone.
Grows ==
  \A r \in Requests:
    /\ filedBy[r] # None => filedBy'[r] = filedBy[r]
    /\ doneBy[r] \subseteq doneBy'[r]

-----------------------------------------------------------------------------
\* A request that moves on leaves the locals of the others as good as they were.
LEMMA OneMoves ==
  ASSUME IInv, Grows, NEW w \in Workers,
         task' = [task EXCEPT ![w] = task'[w]], task'[w] \in TaskType, LocalOK(task[w])'
  PROVE  task' \in [Workers -> TaskType] /\ Locals'
<1>1. task \in [Workers -> TaskType]
  BY DEF IInv, TypeOK
<1>2. task' \in [Workers -> TaskType]
  BY <1>1
<1>3. ASSUME NEW v \in Workers, v # w
      PROVE  LocalOK(task[v])'
  <2>1. task'[v] = task[v] /\ task[v] \in TaskType /\ LocalOK(task[v])
    BY <1>1, <1>3 DEF IInv, Locals
  <2>2. task[v].req \in Requests \cup {None}
    BY <2>1 DEF TaskType
  <2> QED
    BY <2>1, <2>2 DEF LocalOK, Grows
<1> QED
  BY <1>2, <1>3 DEF Locals

\* Steps that touch no locals and change no history.
LEMMA NobodyMoves ==
  ASSUME IInv, Grows, UNCHANGED task
  PROVE  task' \in [Workers -> TaskType] /\ Locals'
<1>1. ASSUME NEW v \in Workers
      PROVE  LocalOK(task[v])'
  <2>1. task[v] \in TaskType /\ LocalOK(task[v])
    BY DEF IInv, TypeOK, Locals
  <2>2. task[v].req \in Requests \cup {None}
    BY <2>1 DEF TaskType
  <2> QED
    BY <2>1, <2>2 DEF LocalOK, Grows
<1> QED
  BY <1>1 DEF IInv, TypeOK, Locals

\* A request that answers is idle again.
LEMMA FinishOK ==
  ASSUME IInv, Grows, NEW w \in Workers, Finish(w)
  PROVE  task' \in [Workers -> TaskType] /\ Locals'
<1>1. Idle \in TaskType
  BY DEF Idle, TaskType, Steps
<1>2. task \in [Workers -> TaskType]
  BY DEF IInv, TypeOK
<1>3. task'[w] = Idle /\ task' = [task EXCEPT ![w] = task'[w]]
  BY <1>2 DEF Finish
<1>4. LocalOK(task[w])'
  BY <1>3 DEF LocalOK, Idle
<1> QED
  BY <1>1, <1>3, <1>4, OneMoves

\* A request that goes on to another step, if its locals are good for it.
LEMMA StepOK ==
  ASSUME IInv, Grows, NEW w \in Workers, NEW s \in Steps, Step(w, s),
         s \notin {"approve", "execute", "pick", "open", "opening"},
         s \in {"expire", "reject", "executed", "failed"} => task[w].req # None,
         s \in {"executed", "close"} /\ task[w].req # None => doneBy'[task[w].req] # {}
  PROVE  task' \in [Workers -> TaskType] /\ Locals'
<1>1. task \in [Workers -> TaskType] /\ task[w] \in TaskType
  BY DEF IInv, TypeOK
<1>2. task'[w] = [task[w] EXCEPT !.step = s] /\ task' = [task EXCEPT ![w] = task'[w]]
  BY <1>1 DEF Step
<1>3. task'[w] \in TaskType /\ task'[w].step = s /\ task'[w].req = task[w].req
  BY <1>1, <1>2 DEF TaskType
<1>4. LocalOK(task[w])'
  BY <1>3 DEF LocalOK
<1> QED
  BY <1>2, <1>3, <1>4, OneMoves

LEMMA ReportOK ==
  ASSUME IInv, Grows, NEW w \in Workers, NEW s \in {"executed", "failed"}, Report(w, s),
         s = "executed" /\ task[w].req # None => doneBy'[task[w].req] # {}
  PROVE  task' \in [Workers -> TaskType] /\ Locals'
<1>1. CASE task[w].req = None
  BY <1>1, FinishOK DEF Report
<1>2. CASE task[w].req # None
  BY <1>2, StepOK DEF Report, Steps
<1> QED
  BY <1>1, <1>2

\* Refilling the slots somebody left, if there are any.
LEMMA RefillOK ==
  ASSUME IInv, Grows, NEW w \in Workers, NEW n \in Nat, Refill(w, n),
         task[w].req # None => doneBy'[task[w].req] # {}
  PROVE  task' \in [Workers -> TaskType] /\ Locals'
<1>1. CASE n = 0
  BY <1>1, ReportOK DEF Refill
<1>2. CASE n # 0
  <2>1. task \in [Workers -> TaskType] /\ task[w] \in TaskType
    BY DEF IInv, TypeOK
  <2>2. task' = [task EXCEPT ![w].step = "pick", ![w].left = n]
    BY <1>2 DEF Refill
  <2>3. task'[w] = [task[w] EXCEPT !.step = "pick", !.left = n] /\ task' = [task EXCEPT ![w] = task'[w]]
    BY <2>1, <2>2
  <2>4. /\ task'[w] \in TaskType /\ task'[w].step = "pick"
        /\ task'[w].req = task[w].req /\ task'[w].left = n
    BY <2>1, <2>3 DEF TaskType, Steps
  <2>5. LocalOK(task[w])'
    BY <1>2, <2>4 DEF LocalOK
  <2> QED
    BY <2>3, <2>4, <2>5, OneMoves
<1> QED
  BY <1>1, <1>2

\* Somebody holds a number of rows.
LEMMA HeldIsCounted ==
  ASSUME NEW s PROVE Cardinality(HeldBy(s)) \in Nat
BY ApprovalAssumption, FS_Subset, FS_CardinalityType DEF HeldBy

\* The rows as TypeOK has them.
RowsTyped ==
  /\ row \in [Requests -> RowType]
  /\ \A r \in Requests: Exists(r) => row[r].load # None /\ row[r].by = filedBy[r]

\* An update by id leaves the rows in order, whatever has become of its row.
LEMMA MarkOK ==
  ASSUME IInv, NEW w \in Workers, NEW status \in RowStatuses \ {"none", "deleted"},
         task[w].req \in Requests, Mark(w, status), UNCHANGED <<filedBy, doneBy>>,
         status = "EXECUTED" => doneBy[task[w].req] # {}
  PROVE  RowsTyped' /\ RowsOK'
<1> DEFINE r == task[w].req
<1>1. RowsTyped /\ RowsOK /\ task[w].actor \in Staff \cup {None}
  BY DEF IInv, TypeOK, RowsTyped, TaskType
<1>2. CASE ~Exists(r)
  BY <1>1, <1>2 DEF Mark, RowsTyped, RowsOK, Exists
<1>3. CASE Exists(r)
  <2>1. PICK d \in Staff \cup {None}:
          row' = [row EXCEPT ![r] = [row[r] EXCEPT !.status = status, !.decider = d]]
    <3>1. row[r] \in RowType
      BY <1>1 DEF RowsTyped
    <3>2. row[r].decider \in Staff \cup {None}
      BY <3>1 DEF RowType
    <3>3. CASE status \in {"APPROVED", "REJECTED"}
      BY <1>1, <1>3, <3>3 DEF Mark
    <3>4. CASE status \notin {"APPROVED", "REJECTED"}
      BY <1>3, <3>2, <3>4 DEF Mark
    <3> QED
      BY <3>3, <3>4
  <2>2. row \in [Requests -> RowType] /\ row[r] \in RowType
    BY <1>1 DEF RowsTyped
  <2>3. /\ row' \in [Requests -> RowType]
        /\ row'[r].status = status /\ row'[r].load = row[r].load /\ row'[r].by = row[r].by
        /\ \A q \in Requests \ {r}: row'[q] = row[q]
    BY <2>1, <2>2 DEF RowType
  <2>4. RowsTyped'
    BY <1>1, <1>3, <2>3 DEF RowsTyped, Exists
  <2>5. RowsOK'
    BY <1>1, <1>3, <2>3 DEF RowsOK, Exists
  <2> QED
    BY <2>4, <2>5
<1> QED
  BY <1>2, <1>3

\* What a step that leaves rows and history alone keeps.
LEMMA RowsSame ==
  ASSUME IInv, UNCHANGED <<row, filedBy>>, Grows
  PROVE  RowsTyped' /\ RowsOK'
BY DEF IInv, TypeOK, RowsTyped, RowsOK, Grows, Exists

\* Every initial state is in order.
LEMMA InitInv == Init => IInv
<1> SUFFICES ASSUME Init PROVE IInv
  OBVIOUS
<1>1. NoRow \in RowType /\ Idle \in TaskType
  BY DEF NoRow, RowType, RowStatuses, Idle, TaskType, Steps
<1>2. holder \in [Rows -> Staff \cup {None}]
  BY DEF Init
<1>3. TypeOK
  BY <1>1, <1>2, ApprovalAssumption DEF Init, TypeOK, NoRow, Exists
<1>4. Locals
  BY DEF Init, Locals, LocalOK, Idle
<1>5. RowsOK
  BY DEF Init, RowsOK, NoRow
<1> QED
  BY <1>3, <1>4, <1>5 DEF IInv

-----------------------------------------------------------------------------
\* Filing: the only step that names a requester.
LEMMA RequestInv ==
  ASSUME IInv, NEW r \in Requests, NEW s \in Staff, NEW p \in Payloads, RequestApproval(r, s, p)
  PROVE  IInv'
<1>1. /\ row[r].status = "none" /\ filedBy[r] = None
      /\ row' = [row EXCEPT ![r] = [status |-> "PENDING", by |-> s, load |-> p, decider |-> None]]
      /\ filedBy' = [filedBy EXCEPT ![r] = s]
      /\ UNCHANGED <<role, active, late, holder, used, task, acts, mishaps, doneBy>>
  BY DEF RequestApproval, IInv, RowsOK, NoRow
<1>2. /\ row \in [Requests -> RowType] /\ filedBy \in [Requests -> Staff \cup {None}]
      /\ None \notin Staff \cup Payloads
  BY ApprovalAssumption DEF IInv, TypeOK
<1>3. Grows
  BY <1>1, <1>2 DEF Grows
<1>4. row' \in [Requests -> RowType]
  BY <1>1, <1>2 DEF RowType, RowStatuses
<1>5. TypeOK'
  BY <1>1, <1>2, <1>4 DEF IInv, TypeOK, Exists
<1>6. RowsOK'
  BY <1>1, <1>2 DEF IInv, RowsOK
<1> QED
  BY <1>1, <1>3, <1>5, <1>6, NobodyMoves DEF IInv

\* Taking a decision up: the approver is compared with the requester.
LEMMA ApproveInv ==
  ASSUME IInv, NEW w \in Workers, NEW o \in Staff, NEW r \in Requests, Approve(w, o, r)
  PROVE  IInv'
<1>1. /\ row[r].status = "PENDING" /\ row[r].by # o
      /\ UNCHANGED <<role, active, row, late, holder, used, acts, mishaps, filedBy, doneBy>>
  BY DEF Approve, MayApprove
<1>2. row[r] \in RowType /\ row[r].load \in Payloads /\ filedBy[r] \notin {None, o}
  <2>1. row[r] \in RowType /\ row[r].load # None /\ row[r].by = filedBy[r] /\ filedBy[r] # None
    BY <1>1 DEF IInv, TypeOK, Exists, RowsOK
  <2> QED
    BY <1>1, <2>1 DEF RowType
<1>3. PICK s \in {"expire", "approve"}:
        task' = [task EXCEPT ![w] = [Idle EXCEPT !.step = s, !.req = r, !.actor = o,
                                                 !.load = row[r].load]]
  BY DEF Approve, Begin
<1>4. Grows
  BY <1>1 DEF Grows
<1>5. task \in [Workers -> TaskType]
  BY DEF IInv, TypeOK
<1>6. /\ task'[w] = [Idle EXCEPT !.step = s, !.req = r, !.actor = o, !.load = row[r].load]
      /\ task' = [task EXCEPT ![w] = task'[w]]
  BY <1>3, <1>5
<1>7. task'[w] \in TaskType
  <2>1. task'[w] = [step |-> s, req |-> r, actor |-> o, load |-> row[r].load,
                    left |-> 0, pick |-> None, prior |-> None, stale |-> {}]
    BY <1>6 DEF Idle
  <2> QED
    BY <1>2, <2>1 DEF TaskType, Steps
<1>8. LocalOK(task[w])'
  <2>1. /\ task'[w].step = s /\ task'[w].req = r /\ task'[w].actor = o
        /\ task'[w].load = row[r].load /\ r # None /\ filedBy'[r] = filedBy[r]
    BY <1>1, <1>6, ApprovalAssumption DEF Idle
  <2> QED
    BY <1>2, <2>1 DEF LocalOK
<1>9. task' \in [Workers -> TaskType] /\ Locals'
  BY <1>4, <1>6, <1>7, <1>8, OneMoves
<1> QED
  BY <1>1, <1>4, <1>9, RowsSame DEF IInv, TypeOK, RowsTyped

\* Requests that begin without a row of their own to approve.
LEMMA BeginInv ==
  ASSUME IInv, NEW w \in Workers, NEW t \in TaskType, Begin(w, t), LocalOK(t),
         acts' \in 0..MaxActs,
         UNCHANGED <<role, active, row, late, holder, used, mishaps, filedBy, doneBy>>
  PROVE  IInv'
<1>1. task \in [Workers -> TaskType]
  BY DEF IInv, TypeOK
<1>2. task'[w] = t /\ task' = [task EXCEPT ![w] = task'[w]]
  BY <1>1 DEF Begin
<1>3. Grows
  BY DEF Grows
<1>4. LocalOK(task[w])'
  BY <1>2 DEF LocalOK
<1>5. task' \in [Workers -> TaskType] /\ Locals'
  BY <1>2, <1>3, <1>4, OneMoves
<1> QED
  BY <1>3, <1>5, RowsSame DEF IInv, TypeOK, RowsTyped

LEMMA BeginningsInv ==
  ASSUME IInv, NEW w \in Workers,
         \/ SweepExpired(w)
         \/ \E o \in Staff:
              \/ \E r \in Requests: Reject(w, o, r)
              \/ \E s \in Staff: ManualAssign(w, o, s)
              \/ \E p \in Payloads: ActDirectly(w, o, p)
  PROVE  IInv'
<1>1. acts \in 0..MaxActs /\ MaxActs \in Nat /\ late \subseteq Requests
  BY ApprovalAssumption DEF IInv, TypeOK
<1>2. CASE SweepExpired(w)
  <2>1. PICK t : t = [Idle EXCEPT !.step = "sweep", !.stale = {r \in late: row[r].status = "PENDING"}]
    OBVIOUS
  <2>2. t \in TaskType /\ LocalOK(t)
    BY <1>1, <2>1 DEF Idle, TaskType, Steps, LocalOK
  <2> QED
    BY <1>1, <1>2, <2>1, <2>2, BeginInv DEF SweepExpired
<1>3. ASSUME NEW o \in Staff, NEW r \in Requests, Reject(w, o, r)
      PROVE  IInv'
  <2>1. PICK t : t = [Idle EXCEPT !.step = "reject", !.req = r, !.actor = o]
    OBVIOUS
  <2>2. t \in TaskType /\ LocalOK(t)
    BY <2>1, ApprovalAssumption DEF Idle, TaskType, Steps, LocalOK
  <2> QED
    BY <1>1, <1>3, <2>1, <2>2, BeginInv DEF Reject
<1>4. ASSUME NEW o \in Staff, NEW s \in Staff, ManualAssign(w, o, s)
      PROVE  IInv'
  <2>1. PICK t : t = [Idle EXCEPT !.step = "open", !.actor = o, !.left = 1, !.pick = s]
    OBVIOUS
  <2>2. t = [step |-> "open", req |-> None, actor |-> o, load |-> None,
             left |-> 1, pick |-> s, prior |-> None, stale |-> {}]
    BY <2>1 DEF Idle
  <2>3. t \in TaskType
    BY <2>2 DEF TaskType, Steps
  <2>4. LocalOK(t)
    BY <2>2 DEF LocalOK
  <2>5. Begin(w, t)
    BY <1>4, <2>1 DEF ManualAssign
  <2>6. acts' \in 0..MaxActs
    <3>1. acts < MaxActs /\ acts' = acts + 1
      BY <1>4 DEF ManualAssign, Act
    <3> QED
      BY <1>1, <3>1
  <2> QED
    BY <1>4, <2>3, <2>4, <2>5, <2>6, BeginInv DEF ManualAssign
<1>5. ASSUME NEW o \in Staff, NEW p \in Payloads, ActDirectly(w, o, p)
      PROVE  IInv'
  <2>1. PICK t : t = [Idle EXCEPT !.step = "execute", !.actor = o, !.load = p]
    OBVIOUS
  <2>2. t \in TaskType /\ LocalOK(t)
    BY <2>1 DEF Idle, TaskType, Steps, LocalOK
  <2>3. Begin(w, t)
    BY <1>5, <2>1 DEF ActDirectly
  <2>4. acts' \in 0..MaxActs
    <3>1. acts < MaxActs /\ acts' = acts + 1
      BY <1>5 DEF ActDirectly, Act
    <3> QED
      BY <1>1, <3>1
  <2> QED
    BY <1>5, <2>2, <2>3, <2>4, BeginInv DEF ActDirectly
<1> QED
  BY <1>2, <1>3, <1>4, <1>5

-----------------------------------------------------------------------------
\* Writing the decision or the outcome.
LEMMA MarkApprovedInv ==
  ASSUME IInv, NEW w \in Workers, MarkApproved(w)
  PROVE  IInv'
<1> DEFINE r == task[w].req
<1>1. /\ task \in [Workers -> TaskType] /\ task[w] \in TaskType /\ task[w].step = "approve"
      /\ UNCHANGED <<role, active, late, holder, used, acts, mishaps, filedBy, doneBy>>
      /\ Mark(w, "APPROVED")
  BY DEF MarkApproved, At, IInv, TypeOK
<1>2. /\ r \in Requests /\ task[w].actor \in Staff /\ task[w].load \in Payloads
      /\ filedBy[r] \notin {None, task[w].actor}
  BY <1>1 DEF IInv, Locals, LocalOK, TaskType
<1>3. Grows
  BY <1>1 DEF Grows
<1>4. RowsTyped' /\ RowsOK'
  BY <1>1, <1>2, MarkOK DEF RowStatuses
<1>5. task' \in [Workers -> TaskType] /\ Locals'
  <2>1. CASE ~Exists(r)
    BY <1>3, <2>1, FinishOK DEF MarkApproved
  <2>2. CASE Exists(r)
    <3>1. task'[w] = [task[w] EXCEPT !.step = "execute"] /\ task' = [task EXCEPT ![w] = task'[w]]
      BY <1>1, <2>2 DEF MarkApproved, Step
    <3>2. /\ task'[w] \in TaskType /\ task'[w].step = "execute" /\ task'[w].req = r
          /\ task'[w].actor = task[w].actor /\ task'[w].load = task[w].load
      BY <1>1, <3>1 DEF TaskType, Steps
    <3>3. LocalOK(task[w])'
      BY <1>1, <1>2, <3>2 DEF LocalOK
    <3> QED
      BY <1>3, <3>1, <3>2, <3>3, OneMoves
  <2> QED
    BY <2>1, <2>2
<1> QED
  BY <1>1, <1>4, <1>5 DEF IInv, TypeOK, RowsTyped

LEMMA MarkOutcomeInv ==
  ASSUME IInv, NEW w \in Workers, MarkOutcome(w)
  PROVE  IInv'
<1> DEFINE r == task[w].req
<1>1. /\ task[w] \in TaskType
      /\ task[w].step \in {"expire", "reject", "executed", "failed"}
      /\ Mark(w, Outcomes[task[w].step]) /\ Finish(w)
      /\ UNCHANGED <<role, active, late, holder, used, acts, mishaps, filedBy, doneBy>>
  BY DEF MarkOutcome, Outcomes, IInv, TypeOK
<1>2. r \in Requests /\ (task[w].step = "executed" => doneBy[r] # {})
  BY <1>1 DEF IInv, Locals, LocalOK, TaskType
<1>3. /\ Outcomes[task[w].step] \in RowStatuses \ {"none", "deleted"}
      /\ Outcomes[task[w].step] = "EXECUTED" => task[w].step = "executed"
  BY <1>1 DEF Outcomes, RowStatuses
<1>4. RowsTyped' /\ RowsOK'
  BY <1>1, <1>2, <1>3, MarkOK
<1>5. Grows
  BY <1>1 DEF Grows
<1> QED
  BY <1>1, <1>4, <1>5, FinishOK DEF IInv, TypeOK, RowsTyped

LEMMA MarkSweptInv ==
  ASSUME IInv, NEW w \in Workers, MarkSwept(w)
  PROVE  IInv'
<1>1. /\ Finish(w)
      /\ row' = [r \in Requests |-> IF r \in task[w].stale /\ Exists(r)
                                    THEN [row[r] EXCEPT !.status = "EXPIRED"] ELSE row[r]]
      /\ UNCHANGED <<role, active, late, holder, used, acts, mishaps, filedBy, doneBy>>
  BY DEF MarkSwept
<1>2. row \in [Requests -> RowType]
  BY DEF IInv, TypeOK
<1>3. \A r \in Requests:
        /\ row'[r] \in RowType /\ row'[r].load = row[r].load /\ row'[r].by = row[r].by
        /\ row'[r] = row[r] \/ (Exists(r) /\ row'[r].status = "EXPIRED")
  <2> TAKE r \in Requests
  <2>1. row[r] \in RowType
    BY <1>2
  <2>2. CASE r \in task[w].stale /\ Exists(r)
    BY <1>1, <2>1, <2>2 DEF RowType, RowStatuses
  <2>3. CASE ~(r \in task[w].stale /\ Exists(r))
    BY <1>1, <2>1, <2>3
  <2> QED
    BY <2>2, <2>3
<1>4. row' \in [Requests -> RowType]
  BY <1>1, <1>3
<1>5. RowsTyped'
  BY <1>1, <1>3, <1>4 DEF IInv, TypeOK, RowsTyped, Exists
<1>6. RowsOK'
  BY <1>1, <1>3 DEF IInv, RowsOK, Exists
<1>7. Grows
  BY <1>1 DEF Grows
<1> QED
  BY <1>1, <1>5, <1>6, <1>7, FinishOK DEF IInv, TypeOK, RowsTyped

-----------------------------------------------------------------------------
\* Carrying out: the one step that adds a name to doneBy.
LEMMA DoneGrows ==
  ASSUME IInv, NEW w \in Workers, task[w].step = "execute", Done(w), UNCHANGED filedBy
  PROVE  /\ Grows /\ doneBy' \in [Requests -> SUBSET Staff]
         /\ task[w].req # None => doneBy'[task[w].req] # {}
<1>1. task[w] \in TaskType /\ LocalOK(task[w]) /\ doneBy \in [Requests -> SUBSET Staff]
  BY DEF IInv, TypeOK, Locals
<1>2. task[w].req \in Requests \cup {None} /\ task[w].actor \in Staff
  BY <1>1 DEF TaskType, LocalOK
<1> QED
  BY <1>1, <1>2 DEF Done, Grows

\* Rows and history, where only doneBy may have grown.
LEMMA DoneRows ==
  ASSUME IInv, NEW w \in Workers, task[w].step = "execute", Done(w), UNCHANGED <<filedBy, row>>
  PROVE  RowsTyped' /\ RowsOK'
BY DoneGrows, RowsSame

LEMMA PayloadOK ==
  ASSUME IInv, NEW w \in Workers, NEW kinds, Executing(w, kinds)
  PROVE  /\ task[w].step = "execute" /\ task[w].load \in Payloads /\ task[w].load.kind \in kinds
         /\ task[w].load.kind \in StaffKinds => task[w].load.about \in Staff
         /\ task[w].load.kind = "CHANGE_STAFF_ROLE" => task[w].load.to \in Roles
BY ApprovalAssumption DEF Executing, At, IInv, Locals, LocalOK

LEMMA ExecuteInv ==
  ASSUME IInv, NEW w \in Workers,
         \/ ExecRefused(w) \/ ExecChangeStaffRole(w) \/ ExecDeactivateStaff(w)
         \/ CloseAllAssignments(w) \/ ExecOneOff(w)
  PROVE  IInv'
<1>1. CASE ExecRefused(w)
  <2>1. Grows
    BY <1>1 DEF ExecRefused, Grows
  <2>2. task' \in [Workers -> TaskType] /\ Locals'
    BY <1>1, <2>1, ReportOK DEF ExecRefused
  <2> QED
    BY <1>1, <2>1, <2>2, RowsSame DEF ExecRefused, IInv, TypeOK, RowsTyped
<1>2. CASE ExecChangeStaffRole(w)
  <2>1. task[w].step = "execute" /\ task[w].load.to \in Roles
    BY <1>2, PayloadOK DEF ExecChangeStaffRole
  <2>2. Grows /\ doneBy' \in [Requests -> SUBSET Staff] /\ RowsTyped' /\ RowsOK'
    BY <1>2, <2>1, DoneGrows, DoneRows DEF ExecChangeStaffRole
  <2>3. task' \in [Workers -> TaskType] /\ Locals'
    BY <1>2, <2>1, <2>2, DoneGrows, ReportOK DEF ExecChangeStaffRole
  <2>4. role' \in [Staff -> Roles \cup {"gone"}]
    BY <1>2, <2>1 DEF ExecChangeStaffRole, IInv, TypeOK
  <2> QED
    BY <1>2, <2>2, <2>3, <2>4 DEF ExecChangeStaffRole, IInv, TypeOK, RowsTyped
<1>3. CASE ExecDeactivateStaff(w)
  <2>1. task[w].step = "execute"
    BY <1>3, PayloadOK DEF ExecDeactivateStaff
  <2>2. Grows /\ doneBy' \in [Requests -> SUBSET Staff] /\ RowsTyped' /\ RowsOK'
    BY <1>3, <2>1, DoneGrows, DoneRows DEF ExecDeactivateStaff
  <2>3. task' \in [Workers -> TaskType] /\ Locals'
    BY <1>3, <2>1, <2>2, DoneGrows, StepOK DEF ExecDeactivateStaff, Steps
  <2> QED
    BY <1>3, <2>2, <2>3 DEF ExecDeactivateStaff, IInv, TypeOK, RowsTyped
<1>4. CASE CloseAllAssignments(w)
  <2>1. task[w].step = "close" /\ LocalOK(task[w])
    BY <1>4 DEF CloseAllAssignments, At, IInv, Locals
  <2>2. task[w].req # None => doneBy'[task[w].req] # {}
    BY <1>4, <2>1 DEF CloseAllAssignments, LocalOK
  <2>3. Grows
    BY <1>4 DEF CloseAllAssignments, Grows
  <2>4. task' \in [Workers -> TaskType] /\ Locals'
    BY <1>4, <2>2, <2>3, HeldIsCounted, RefillOK DEF CloseAllAssignments
  <2>5. holder' \in [Rows -> Staff \cup {None}]
    BY <1>4 DEF CloseAllAssignments, Vacate, IInv, TypeOK
  <2> QED
    BY <1>4, <2>3, <2>4, <2>5, RowsSame DEF CloseAllAssignments, IInv, TypeOK, RowsTyped
<1>5. CASE ExecOneOff(w)
  <2>1. task[w].step = "execute"
    BY <1>5, PayloadOK DEF ExecOneOff
  <2>2. Grows /\ doneBy' \in [Requests -> SUBSET Staff] /\ RowsTyped' /\ RowsOK'
    BY <1>5, <2>1, DoneGrows, DoneRows DEF ExecOneOff
  <2>3. task' \in [Workers -> TaskType] /\ Locals'
    BY <1>5, <2>1, <2>2, DoneGrows, ReportOK DEF ExecOneOff
  <2>4. mishaps' \in 0..MaxMishaps
    <3>1. mishaps \in 0..MaxMishaps /\ MaxMishaps \in Nat
      BY ApprovalAssumption DEF IInv, TypeOK
    <3>2. mishaps' = mishaps \/ (mishaps < MaxMishaps /\ mishaps' = mishaps + 1)
      BY <1>5 DEF ExecOneOff, Mishap
    <3> QED
      BY <3>1, <3>2
  <2> QED
    BY <1>5, <2>2, <2>3, <2>4 DEF ExecOneOff, IInv, TypeOK, RowsTyped
<1> QED
  BY <1>1, <1>2, <1>3, <1>4, <1>5

\* The person's requests go with the person; what they did stays on record.
LEMMA HardDeleteInv ==
  ASSUME IInv, NEW w \in Workers, ExecHardDeleteStaff(w)
  PROVE  IInv'
<1> DEFINE s == task[w].load.about
<1>1. /\ task[w].step = "execute" /\ s \in Staff
      /\ UNCHANGED <<late, used, acts, mishaps, filedBy>>
  BY PayloadOK DEF ExecHardDeleteStaff, StaffKinds
<1>2. CASE /\ Report(w, "failed")
           /\ UNCHANGED <<role, active, row, holder, doneBy>>
  <2>1. Grows
    BY <1>1, <1>2 DEF Grows
  <2>2. task' \in [Workers -> TaskType] /\ Locals'
    BY <1>2, <2>1, ReportOK
  <2> QED
    BY <1>1, <1>2, <2>1, <2>2, RowsSame DEF IInv, TypeOK, RowsTyped
<1>3. CASE /\ role' = [role EXCEPT ![s] = "gone"]
           /\ active' = active \ {s}
           /\ row' = [r \in Requests |->
                IF Exists(r) /\ row[r].by = s THEN [NoRow EXCEPT !.status = "deleted"]
                ELSE IF row[r].decider = s THEN [row[r] EXCEPT !.decider = None] ELSE row[r]]
           /\ Vacate(s)
           /\ Refill(w, Cardinality(HeldBy(s)))
           /\ Done(w)
  <2>1. /\ Grows /\ doneBy' \in [Requests -> SUBSET Staff]
        /\ task[w].req # None => doneBy'[task[w].req] # {}
    BY <1>1, <1>3, DoneGrows
  <2>2. task' \in [Workers -> TaskType] /\ Locals'
    BY <1>3, <2>1, HeldIsCounted, RefillOK
  <2>3. row \in [Requests -> RowType]
    BY DEF IInv, TypeOK
  <2>4. \A r \in Requests:
          /\ row'[r] \in RowType
          /\ \/ Exists(r) /\ row'[r].status = "deleted"
             \/ /\ row'[r].status = row[r].status
                /\ row'[r].load = row[r].load /\ row'[r].by = row[r].by
    <3> TAKE r \in Requests
    <3>1. row[r] \in RowType
      BY <2>3
    <3>2. CASE Exists(r) /\ row[r].by = s
      BY <1>3, <3>2 DEF NoRow, RowType, RowStatuses
    <3>3. CASE ~(Exists(r) /\ row[r].by = s) /\ row[r].decider = s
      BY <1>3, <3>1, <3>3 DEF RowType
    <3>4. CASE ~(Exists(r) /\ row[r].by = s) /\ row[r].decider # s
      BY <1>3, <3>1, <3>4
    <3> QED
      BY <3>2, <3>3, <3>4
  <2>5. row' \in [Requests -> RowType]
    BY <1>3, <2>4
  <2>6. RowsTyped'
    BY <1>1, <2>4, <2>5 DEF IInv, TypeOK, RowsTyped, Exists
  <2>7. RowsOK'
    BY <1>1, <2>1, <2>4 DEF IInv, RowsOK, Exists, Grows
  <2>8. /\ role' \in [Staff -> Roles \cup {"gone"}] /\ active' \subseteq Staff
        /\ holder' \in [Rows -> Staff \cup {None}]
    BY <1>1, <1>3 DEF IInv, TypeOK, Vacate
  <2> QED
    BY <1>1, <2>1, <2>2, <2>6, <2>7, <2>8 DEF IInv, TypeOK, RowsTyped
<1> QED
  BY <1>2, <1>3 DEF ExecHardDeleteStaff

-----------------------------------------------------------------------------
\* Assignments move locals and holders only.
LEMMA AssignmentInv ==
  ASSUME IInv, NEW w \in Workers, AutoAllocate(w) \/ OpenRead(w) \/ OpenWrite(w)
  PROVE  IInv'
<1>1. /\ UNCHANGED <<role, active, row, late, used, acts, mishaps, filedBy, doneBy>>
      /\ task[w].step \in {"pick", "open", "opening"}
  BY DEF AutoAllocate, OpenRead, OpenWrite, At
<1>2. Grows
  BY <1>1 DEF Grows
<1>3. task \in [Workers -> TaskType] /\ task[w] \in TaskType /\ LocalOK(task[w])
  BY DEF IInv, TypeOK, Locals
<1>4. /\ task[w].left \in Nat \ {0} /\ task[w].left - 1 \in Nat
      /\ task[w].req # None => doneBy'[task[w].req] # {}
  BY <1>1, <1>3 DEF LocalOK, TaskType
<1>5. task' \in [Workers -> TaskType] /\ Locals'
  <2>1. CASE AutoAllocate(w) /\ \E s \in Staff: MayHold(s)
    <3>1. PICK s \in Staff: task' = [task EXCEPT ![w].step = "open", ![w].pick = s]
      BY <2>1 DEF AutoAllocate
    <3>2. task'[w] = [task[w] EXCEPT !.step = "open", !.pick = s] /\ task' = [task EXCEPT ![w] = task'[w]]
      BY <1>3, <3>1
    <3>3. /\ task'[w] \in TaskType /\ task'[w].step = "open"
          /\ task'[w].req = task[w].req /\ task'[w].left = task[w].left
      BY <1>3, <3>2 DEF TaskType, Steps
    <3>4. LocalOK(task[w])'
      BY <1>4, <3>3 DEF LocalOK
    <3> QED
      BY <1>2, <3>2, <3>3, <3>4, OneMoves
  <2>2. CASE AutoAllocate(w) /\ ~\E s \in Staff: MayHold(s)
    BY <1>2, <1>4, <2>2, ReportOK DEF AutoAllocate
  <2>3. CASE OpenRead(w)
    <3>1. PICK x \in OpenRows \cup {None}:
            \/ Refill(w, task[w].left - 1)
            \/ task' = [task EXCEPT ![w].step = "opening", ![w].prior = x]
      BY <2>3 DEF OpenRead
    <3>2. CASE Refill(w, task[w].left - 1)
      BY <1>2, <1>4, <3>2, RefillOK
    <3>3. CASE task' = [task EXCEPT ![w].step = "opening", ![w].prior = x]
      <4>1. /\ task'[w] = [task[w] EXCEPT !.step = "opening", !.prior = x]
            /\ task' = [task EXCEPT ![w] = task'[w]]
        BY <1>3, <3>3
      <4>2. x \in Rows \cup {None}
        BY DEF OpenRows
      <4>3. /\ task'[w] \in TaskType /\ task'[w].step = "opening"
            /\ task'[w].req = task[w].req /\ task'[w].left = task[w].left
        BY <1>3, <4>1, <4>2 DEF TaskType, Steps
      <4>4. LocalOK(task[w])'
        BY <1>4, <4>3 DEF LocalOK
      <4> QED
        BY <1>2, <4>1, <4>3, <4>4, OneMoves
    <3> QED
      BY <3>1, <3>2, <3>3
  <2>4. CASE OpenWrite(w)
    BY <1>2, <1>4, <2>4, RefillOK DEF OpenWrite
  <2> QED
    BY <2>1, <2>2, <2>3, <2>4
<1>6. holder' \in [Rows -> Staff \cup {None}]
  <2>1. holder \in [Rows -> Staff \cup {None}]
    BY DEF IInv, TypeOK
  <2>2. CASE UNCHANGED holder
    BY <2>1, <2>2
  <2>3. CASE OpenWrite(w) /\ ~UNCHANGED holder
    <3>1. PICK x \in Rows \ OpenRows:
            holder' = [y \in Rows |-> IF y = x THEN task[w].pick
                                      ELSE IF y = task[w].prior THEN None ELSE holder[y]]
      BY <2>3 DEF OpenWrite
    <3>2. task[w].pick \in Staff \cup {None}
      BY <1>3 DEF TaskType
    <3> QED
      BY <2>1, <3>1, <3>2
  <2> QED
    BY <2>2, <2>3 DEF AutoAllocate, OpenRead
<1> QED
  BY <1>1, <1>2, <1>5, <1>6, RowsSame DEF IInv, TypeOK, RowsTyped

\* A week passes, somebody is reactivated, or the process dies.
LEMMA SurroundingsInv ==
  ASSUME IInv,
         \/ \E r \in Requests: WeekPasses(r)
         \/ \E o, s \in Staff: Reactivate(o, s)
         \/ \E w \in Workers: Die(w)
  PROVE  IInv'
<1>1. ASSUME NEW r \in Requests, WeekPasses(r)
      PROVE  IInv'
  <2>1. Grows
    BY <1>1 DEF WeekPasses, Grows
  <2> QED
    BY <1>1, <2>1, NobodyMoves, RowsSame DEF WeekPasses, IInv, TypeOK, RowsTyped
<1>2. ASSUME NEW o \in Staff, NEW s \in Staff, Reactivate(o, s)
      PROVE  IInv'
  <2>1. Grows
    BY <1>2 DEF Reactivate, Grows
  <2>2. acts' \in 0..MaxActs
    <3>1. acts \in 0..MaxActs /\ MaxActs \in Nat /\ acts < MaxActs /\ acts' = acts + 1
      BY <1>2, ApprovalAssumption DEF Reactivate, Act, IInv, TypeOK
    <3> QED
      BY <3>1
  <2> QED
    BY <1>2, <2>1, <2>2, NobodyMoves, RowsSame DEF Reactivate, IInv, TypeOK, RowsTyped
<1>3. ASSUME NEW w \in Workers, Die(w)
      PROVE  IInv'
  <2>1. Grows
    BY <1>3 DEF Die, Grows
  <2>2. mishaps' \in 0..MaxMishaps
    <3>1. mishaps \in 0..MaxMishaps /\ MaxMishaps \in Nat /\ mishaps < MaxMishaps /\ mishaps' = mishaps + 1
      BY <1>3, ApprovalAssumption DEF Die, Mishap, IInv, TypeOK
    <3> QED
      BY <3>1
  <2>3. task' \in [Workers -> TaskType] /\ Locals'
    BY <1>3, <2>1, FinishOK DEF Die
  <2> QED
    BY <1>3, <2>1, <2>2, <2>3, RowsSame DEF Die, IInv, TypeOK, RowsTyped
<1> QED
  BY <1>1, <1>2, <1>3

-----------------------------------------------------------------------------
\* Every step keeps the invariant.
LEMMA NextInv ==
  ASSUME IInv, [Next]_vars
  PROVE  IInv'
<1>1. CASE UNCHANGED vars
  <2>1. Grows
    BY <1>1 DEF vars, Grows
  <2> QED
    BY <1>1, <2>1, NobodyMoves, RowsSame DEF vars, IInv, TypeOK, RowsTyped
<1>2. CASE Next
  BY <1>2, RequestInv, ApproveInv, BeginningsInv, MarkApprovedInv, MarkOutcomeInv, MarkSweptInv,
     ExecuteInv, HardDeleteInv, AssignmentInv, SurroundingsInv DEF Next, Advance, Execute
<1> QED
  BY <1>1, <1>2

LEMMA Invariant == Spec => []IInv
<1>1. Init => IInv
  BY InitInv
<1>2. IInv /\ [Next]_vars => IInv'
  BY NextInv
<1> QED
  BY <1>1, <1>2, PTL DEF Spec

\* Whatever requests, decisions and executions interleave, rows, locals and
\* history keep their types and a row names who filed it.
THEOREM TypeCorrect == Spec => []TypeOK
<1>1. IInv => TypeOK
  BY DEF IInv
<1> QED
  BY <1>1, Invariant, PTL

\* A row says EXECUTED only of an action that took place (owner-approval's
\* markExecuted after the executor returned).
THEOREM ExecutedIsTrue == Spec => []ExecutedTookPlace
<1>1. IInv => ExecutedTookPlace
  BY DEF IInv, RowsOK, ExecutedTookPlace
<1> QED
  BY <1>1, Invariant, PTL

-----------------------------------------------------------------------------
\* Carrying an approved request out is a step of the abstract rule: the
\* approver did not file it.
LEMMA DoneIsCarriedOut ==
  ASSUME IInv, NEW w \in Workers, task[w].step = "execute", Done(w), UNCHANGED filedBy
  PROVE  [Rule!Next]_<<filedBy, doneBy>>
<1> DEFINE r == task[w].req
<1>1. task[w] \in TaskType /\ LocalOK(task[w])
  BY DEF IInv, TypeOK, Locals
<1>2. CASE r = None
  BY <1>2 DEF Done
<1>3. CASE r # None
  <2>1. r \in Requests /\ task[w].actor \in Staff /\ filedBy[r] \notin {None, task[w].actor}
    BY <1>1, <1>3 DEF TaskType, LocalOK
  <2>2. Rule!CarryOut(r, task[w].actor)
    BY <1>3, <2>1 DEF Done, Rule!CarryOut
  <2> QED
    BY <2>1, <2>2 DEF Rule!Next
<1> QED
  BY <1>2, <1>3

\* Only filing and execution touch who filed and who carried out.
LEMMA AdvanceKeeps ==
  ASSUME NEW w \in Workers, Advance(w)
  PROVE  \/ UNCHANGED <<filedBy, doneBy>>
         \/ ExecChangeStaffRole(w) \/ ExecDeactivateStaff(w) \/ ExecOneOff(w)
         \/ ExecHardDeleteStaff(w) /\ Done(w)
<1>1. MarkApproved(w) \/ MarkOutcome(w) \/ MarkSwept(w) => UNCHANGED <<filedBy, doneBy>>
  BY DEF MarkApproved, MarkOutcome, MarkSwept
<1>2. AutoAllocate(w) \/ OpenRead(w) \/ OpenWrite(w) => UNCHANGED <<filedBy, doneBy>>
  BY DEF AutoAllocate, OpenRead, OpenWrite
<1>3. ExecRefused(w) \/ CloseAllAssignments(w) => UNCHANGED <<filedBy, doneBy>>
  BY DEF ExecRefused, CloseAllAssignments
<1>4. ExecHardDeleteStaff(w) => Done(w) \/ UNCHANGED <<filedBy, doneBy>>
  BY DEF ExecHardDeleteStaff
<1> QED
  BY <1>1, <1>2, <1>3, <1>4 DEF Advance, Execute

LEMMA OthersKeep ==
  /\ \A r \in Requests: WeekPasses(r) => UNCHANGED <<filedBy, doneBy>>
  /\ \A w \in Workers: Die(w) \/ SweepExpired(w) => UNCHANGED <<filedBy, doneBy>>
  /\ \A w \in Workers, o \in Staff, r \in Requests:
       Approve(w, o, r) \/ Reject(w, o, r) => UNCHANGED <<filedBy, doneBy>>
  /\ \A w \in Workers, o, s \in Staff: ManualAssign(w, o, s) => UNCHANGED <<filedBy, doneBy>>
  /\ \A w \in Workers, o \in Staff, p \in Payloads:
       ActDirectly(w, o, p) => UNCHANGED <<filedBy, doneBy>>
  /\ \A o, s \in Staff: Reactivate(o, s) => UNCHANGED <<filedBy, doneBy>>
<1>1. \A r \in Requests: WeekPasses(r) => UNCHANGED <<filedBy, doneBy>>
  BY DEF WeekPasses
<1>2. \A w \in Workers: Die(w) \/ SweepExpired(w) => UNCHANGED <<filedBy, doneBy>>
  BY DEF Die, SweepExpired
<1>3. \A w \in Workers, o \in Staff, r \in Requests:
        Approve(w, o, r) \/ Reject(w, o, r) => UNCHANGED <<filedBy, doneBy>>
  BY DEF Approve, Reject
<1>4. \A w \in Workers, o, s \in Staff: ManualAssign(w, o, s) => UNCHANGED <<filedBy, doneBy>>
  BY DEF ManualAssign
<1>5. \A w \in Workers, o \in Staff, p \in Payloads:
        ActDirectly(w, o, p) => UNCHANGED <<filedBy, doneBy>>
  BY DEF ActDirectly
<1>6. \A o, s \in Staff: Reactivate(o, s) => UNCHANGED <<filedBy, doneBy>>
  BY DEF Reactivate
<1> QED
  BY <1>1, <1>2, <1>3, <1>4, <1>5, <1>6

LEMMA NextIsAllowed ==
  ASSUME IInv, [Next]_vars
  PROVE  [Rule!Next]_<<filedBy, doneBy>>
<1>1. CASE UNCHANGED <<filedBy, doneBy>>
  BY <1>1
<1>2. ASSUME NEW r \in Requests, NEW s \in Staff, NEW p \in Payloads, RequestApproval(r, s, p)
      PROVE  Rule!Next
  <2>1. filedBy[r] = None
    BY <1>2 DEF RequestApproval, NoRow, IInv, RowsOK
  <2>2. Rule!Open(r, s)
    BY <1>2, <2>1 DEF RequestApproval, Rule!Open
  <2> QED
    BY <2>2 DEF Rule!Next
<1>3. ASSUME NEW w \in Workers,
             \/ ExecChangeStaffRole(w) \/ ExecDeactivateStaff(w) \/ ExecOneOff(w)
             \/ ExecHardDeleteStaff(w) /\ Done(w)
      PROVE  [Rule!Next]_<<filedBy, doneBy>>
  <2>1. task[w].step = "execute" /\ Done(w) /\ UNCHANGED filedBy
    BY <1>3 DEF ExecChangeStaffRole, ExecDeactivateStaff, ExecOneOff, ExecHardDeleteStaff, Executing, At
  <2> QED
    BY <2>1, DoneIsCarriedOut
<1>4. CASE ~UNCHANGED <<filedBy, doneBy>>
  <2>1. Next
    BY <1>4 DEF vars
  <2>2. \/ \E r \in Requests, s \in Staff, p \in Payloads: RequestApproval(r, s, p)
        \/ \E w \in Workers:
             \/ ExecChangeStaffRole(w) \/ ExecDeactivateStaff(w) \/ ExecOneOff(w)
             \/ ExecHardDeleteStaff(w) /\ Done(w)
    BY <1>4, <2>1, AdvanceKeeps, OthersKeep DEF Next
  <2> QED
    BY <1>2, <1>3, <2>2
<1> QED
  BY <1>1, <1>4

\* "The approver must never be the requester": the whole procedure is an
\* implementation of the two-person rule.
THEOREM TwoPeople == Spec => ImplementsTwoPersonRule
<1>1. Init => Rule!Init
  BY DEF Init, Rule!Init
<1>2. IInv /\ [Next]_vars => [Rule!Next]_<<filedBy, doneBy>>
  BY NextIsAllowed
<1> QED
  BY <1>1, <1>2, Invariant, PTL DEF Spec, ImplementsTwoPersonRule, Rule!Spec
=============================================================================
