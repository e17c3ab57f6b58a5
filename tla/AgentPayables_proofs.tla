------------------------ MODULE AgentPayables_proofs ------------------------
(***************************************************************************)
(* Proofs about module AgentPayables, for any number of staff, choices,    *)
(* payables and concurrent requests.                                       *)
(*                                                                         *)
(* TwoPeoplePay is not inductive: the separation of the two persons is     *)
(* tested when a release reads the row and relied upon when it writes.     *)
(* What carries it from the one step to the other is ReleaseIsSeparated: a *)
(* payable once approved keeps its approver, so the test stays true.       *)
(*                                                                         *)
(* The second part is the ledger of claims and commissions underneath.  A  *)
(* claim is approved after its commission was created, in two statements;  *)
(* what the worker between them relies upon (Grounded) no other step takes *)
(* away (LedgerKeeps).                                                     *)
(***************************************************************************)
EXTENDS AgentPayables, TLAPS

\* What a release that has read its payable may still rely upon.
ReleaseIsSeparated ==
  \A j \in Jobs: job[j].at = "release" =>
    /\ MayRelease(job[j].by)
    /\ payable[job[j].row].status \in {"APPROVED", "PAID"}
    /\ payable[job[j].row].approvedBy # job[j].by

\* Every payable past the approval has its approver.
ApprovedBySomebody ==
  \A p \in Payables: payable[p].status \in {"APPROVED", "PAID"} => payable[p].approvedBy \in Staff

IInv == PayablesTypeOK /\ ReleaseIsSeparated /\ ApprovedBySomebody /\ TwoPeoplePay /\ OneLivePayable

-----------------------------------------------------------------------------
\* The initial state, and steps of the commission ledger.

LEMMA InitInv == PayablesInit => IInv
<1> SUFFICES ASSUME PayablesInit PROVE IInv
  OBVIOUS
<1>1. PayablesTypeOK
  BY DEF PayablesInit, PayablesTypeOK, NoPayable, NoJob, PayableStatuses
<1>2. ReleaseIsSeparated /\ ApprovedBySomebody /\ TwoPeoplePay /\ OneLivePayable
  BY DEF PayablesInit, ReleaseIsSeparated, ApprovedBySomebody, TwoPeoplePay, OneLivePayable,
         NoPayable, NoJob
<1>3. QED
  BY <1>1, <1>2 DEF IInv

LEMMA StutterInv == IInv /\ UNCHANGED payableVars => IInv'
<1> SUFFICES ASSUME IInv, UNCHANGED payableVars PROVE IInv'
  OBVIOUS
<1>1. payable' = payable /\ job' = job
  BY DEF payableVars
<1>2. QED
  BY <1>1 DEF IInv, PayablesTypeOK, ReleaseIsSeparated, ApprovedBySomebody, TwoPeoplePay,
              OneLivePayable

-----------------------------------------------------------------------------
\* Steps that only read: a request starts, ends, or dies.

\* A request that starts with a well-formed local state, and with the release
\* test passed if it is a release, keeps the invariant.
LEMMA StartInv ==
  ASSUME IInv, NEW j \in Jobs, NEW local,
         local \in [at: {"idle", "sync", "approve", "reject", "release"}, by: Staff \cup {None},
                    row: Payables \cup {None}, todo: SUBSET Introduced],
         local.at \in {"approve", "reject", "release"} => local.by \in Staff /\ local.row \in Payables,
         local.at = "release" =>
           /\ MayRelease(local.by)
           /\ payable[local.row].status \in {"APPROVED", "PAID"}
           /\ payable[local.row].approvedBy # local.by,
         job' = [job EXCEPT ![j] = local], payable' = payable
  PROVE IInv'
<1>1. \A k \in Jobs: job'[k] = IF k = j THEN local ELSE job[k]
  BY DEF IInv, PayablesTypeOK
<1>2. PayablesTypeOK'
  BY <1>1 DEF IInv, PayablesTypeOK
<1>3. ReleaseIsSeparated'
  <2> SUFFICES ASSUME NEW k \in Jobs, job'[k].at = "release"
               PROVE /\ MayRelease(job'[k].by)
                     /\ payable[job'[k].row].status \in {"APPROVED", "PAID"}
                     /\ payable[job'[k].row].approvedBy # job'[k].by
    BY DEF ReleaseIsSeparated, MayRelease, Has
  <2>1. CASE k = j
    BY <1>1, <2>1
  <2>2. CASE k # j
    BY <1>1, <2>2 DEF IInv, ReleaseIsSeparated
  <2>3. QED
    BY <2>1, <2>2
<1>4. (ApprovedBySomebody /\ TwoPeoplePay /\ OneLivePayable)'
  BY DEF IInv, ApprovedBySomebody, TwoPeoplePay, OneLivePayable, MayRelease, Has
<1>5. QED
  BY <1>2, <1>3, <1>4 DEF IInv

LEMMA EndInv ==
  ASSUME IInv, NEW j \in Jobs, EndJob(j), payable' = payable
  PROVE IInv'
<1>1. job' = [job EXCEPT ![j] = NoJob]
  BY DEF EndJob
<1>2. NoJob \in [at: {"idle", "sync", "approve", "reject", "release"}, by: Staff \cup {None},
                 row: Payables \cup {None}, todo: SUBSET Introduced]
  BY DEF NoJob
<1>3. NoJob.at = "idle"
  BY DEF NoJob
<1>4. QED
  BY <1>1, <1>2, <1>3, StartInv

LEMMA SyncStartInv == ASSUME IInv, NEW j \in Jobs, SyncStart(j) PROVE IInv'
<1> DEFINE local == [NoJob EXCEPT !.at = "sync", !.todo = Candidates]
<1>1. job' = [job EXCEPT ![j] = local] /\ payable' = payable
  BY DEF SyncStart, StartJob
<1>2. local.at = "sync"
  BY DEF NoJob
<1>3. local \in [at: {"idle", "sync", "approve", "reject", "release"}, by: Staff \cup {None},
                 row: Payables \cup {None}, todo: SUBSET Introduced]
  BY DEF NoJob, Candidates
<1> HIDE DEF local
<1>4. QED
  BY <1>1, <1>2, <1>3, StartInv

LEMMA DecideStartInv ==
  ASSUME IInv, NEW j \in Jobs, NEW s \in Staff, NEW p \in Payables,
         ApproveStart(j, s, p) \/ RejectStart(j, s, p) \/ ReleaseStart(j, s, p)
  PROVE IInv'
<1> DEFINE Local(at) == [NoJob EXCEPT !.at = at, !.by = s, !.row = p]
<1>1. \A at \in {"approve", "reject", "release"}:
        /\ Local(at) \in [at: {"idle", "sync", "approve", "reject", "release"}, by: Staff \cup {None},
                          row: Payables \cup {None}, todo: SUBSET Introduced]
        /\ Local(at).at = at /\ Local(at).by = s /\ Local(at).row = p
  BY DEF NoJob
<1>2. payable' = payable
  BY DEF ApproveStart, RejectStart, ReleaseStart
<1>3. CASE ApproveStart(j, s, p)
  <2>1. job' = [job EXCEPT ![j] = Local("approve")]
    BY <1>3 DEF ApproveStart, StartJob, Actor, NoJob
  <2> HIDE DEF Local
  <2>2. QED
    BY <1>1, <1>2, <2>1, StartInv
<1>4. CASE RejectStart(j, s, p)
  <2>1. job' = [job EXCEPT ![j] = Local("reject")]
    BY <1>4 DEF RejectStart, StartJob, Actor, NoJob
  <2> HIDE DEF Local
  <2>2. QED
    BY <1>1, <1>2, <2>1, StartInv
<1>5. CASE ReleaseStart(j, s, p)
  <2>1. job' = [job EXCEPT ![j] = Local("release")]
    BY <1>5 DEF ReleaseStart, StartJob, Actor, NoJob
  <2>2. MayRelease(s) /\ payable[p].status = "APPROVED" /\ payable[p].approvedBy # s
    BY <1>5 DEF ReleaseStart, SamePerson
  <2> HIDE DEF Local
  <2>3. QED
    BY <1>1, <1>2, <2>1, <2>2, StartInv
<1>6. QED
  BY <1>3, <1>4, <1>5

-----------------------------------------------------------------------------
\* Steps that write a payable.

\* Types and OneLivePayable after one row was replaced and request j moved on:
\* the new row is no duplicate of a live one.
LEMMA WriteTypes ==
  ASSUME IInv, NEW p \in Payables, NEW j \in Jobs, NEW local, NEW new,
         new \in [choice: Introduced, status: PayableStatuses \ {"none"},
                  approvedBy: Staff \cup {None}, paidBy: Staff \cup {None}],
         \A q \in Payables \ {p}:
           payable[q].status \in {"PENDING", "APPROVED", "PAID"}
           /\ new.status \in {"PENDING", "APPROVED", "PAID"}
           => payable[q].choice # new.choice,
         local.at \in {"idle", "sync"},
         local \in [at: {"idle", "sync", "approve", "reject", "release"}, by: Staff \cup {None},
                    row: Payables \cup {None}, todo: SUBSET Introduced],
         payable' = [payable EXCEPT ![p] = new], job' = [job EXCEPT ![j] = local]
  PROVE  PayablesTypeOK' /\ OneLivePayable'
<1>1. \A q \in Payables: payable'[q] = IF q = p THEN new ELSE payable[q]
  BY DEF IInv, PayablesTypeOK
<1>2. \A k \in Jobs: job'[k] = IF k = j THEN local ELSE job[k]
  BY DEF IInv, PayablesTypeOK
<1>3. PayablesTypeOK'
  <2>1. payable' \in [Payables -> [choice: Introduced \cup {None}, status: PayableStatuses,
                                   approvedBy: Staff \cup {None}, paidBy: Staff \cup {None}]]
    BY DEF IInv, PayablesTypeOK
  <2>2. \A q \in Payables: payable'[q].status # "none" => payable'[q].choice \in Introduced
    BY <1>1 DEF IInv, PayablesTypeOK
  <2>3. job' \in [Jobs -> [at: {"idle", "sync", "approve", "reject", "release"},
                           by: Staff \cup {None}, row: Payables \cup {None},
                           todo: SUBSET Introduced]]
    BY DEF IInv, PayablesTypeOK
  <2>4. \A k \in Jobs: job'[k].at \in {"approve", "reject", "release"} =>
          job'[k].by \in Staff /\ job'[k].row \in Payables
    BY <1>2 DEF IInv, PayablesTypeOK
  <2>5. QED
    BY <2>1, <2>2, <2>3, <2>4 DEF PayablesTypeOK
<1>4. OneLivePayable'
  <2> SUFFICES ASSUME NEW q \in Payables, NEW r \in Payables, q # r,
                      {payable'[q].status, payable'[r].status} \subseteq {"PENDING", "APPROVED", "PAID"}
               PROVE  payable'[q].choice # payable'[r].choice
    BY DEF OneLivePayable
  <2>1. CASE q # p /\ r # p
    BY <1>1, <2>1 DEF IInv, OneLivePayable
  <2>2. CASE q = p
    BY <1>1, <2>2
  <2>3. CASE r = p
    BY <1>1, <2>3
  <2>4. QED
    BY <2>1, <2>2, <2>3
<1>5. QED
  BY <1>3, <1>4

\* The local state a request is left in by SyncInsert or by its end.
LEMMA NoJobType ==
  /\ NoJob \in [at: {"idle", "sync", "approve", "reject", "release"}, by: Staff \cup {None},
                row: Payables \cup {None}, todo: SUBSET Introduced]
  /\ NoJob.at = "idle"
BY DEF NoJob

LEMMA SyncInsertInv == ASSUME IInv, NEW j \in Jobs, SyncInsert(j) PROVE IInv'
<1>1. PICK c \in job[j].todo:
        /\ \/ LivePayable(c) /\ UNCHANGED payable
           \/ /\ ~LivePayable(c)
              /\ \E p \in Payables:
                   /\ payable[p].status = "none"
                   /\ payable' = [payable EXCEPT ![p] =
                        [NoPayable EXCEPT !.choice = c, !.status = "PENDING"]]
        /\ IF job[j].todo = {c} THEN EndJob(j) ELSE job' = [job EXCEPT ![j].todo = @ \ {c}]
  BY DEF SyncInsert
<1> DEFINE local == IF job[j].todo = {c} THEN NoJob ELSE [job[j] EXCEPT !.todo = @ \ {c}]
<1>2. job' = [job EXCEPT ![j] = local]
  BY <1>1 DEF EndJob, IInv, PayablesTypeOK
<1>3. c \in Introduced /\ job[j].at = "sync"
  BY DEF SyncInsert, IInv, PayablesTypeOK
<1>4. /\ local \in [at: {"idle", "sync", "approve", "reject", "release"}, by: Staff \cup {None},
                    row: Payables \cup {None}, todo: SUBSET Introduced]
      /\ local.at \in {"idle", "sync"}
  BY <1>3, NoJobType DEF IInv, PayablesTypeOK
<1> HIDE DEF local
<1>5. CASE UNCHANGED payable
  BY <1>2, <1>4, <1>5, StartInv
<1>6. CASE ~LivePayable(c) /\ ~UNCHANGED payable
  <2> DEFINE new == [NoPayable EXCEPT !.choice = c, !.status = "PENDING"]
  <2>0. /\ new.choice = c /\ new.status = "PENDING"
        /\ new \in [choice: Introduced, status: PayableStatuses \ {"none"},
                    approvedBy: Staff \cup {None}, paidBy: Staff \cup {None}]
    BY <1>3 DEF NoPayable, PayableStatuses
  <2>1. PICK p \in Payables: payable[p].status = "none" /\ payable' = [payable EXCEPT ![p] = new]
    BY <1>1, <1>6
  <2> HIDE DEF new
  <2>2. \A q \in Payables: payable'[q] = IF q = p THEN new ELSE payable[q]
    BY <2>1 DEF IInv, PayablesTypeOK
  <2>3. PayablesTypeOK' /\ OneLivePayable'
    <3>1. \A q \in Payables: payable[q].status \in {"PENDING", "APPROVED", "PAID"}
                             => payable[q].choice # new.choice
      BY <1>6, <2>0 DEF LivePayable
    <3>2. QED
      BY <1>2, <1>4, <2>0, <2>1, <3>1, WriteTypes
  <2>4. ReleaseIsSeparated'
    BY <1>2, <1>4, <2>0, <2>1, <2>2 DEF IInv, ReleaseIsSeparated, PayablesTypeOK, MayRelease, Has
  <2>5. ApprovedBySomebody' /\ TwoPeoplePay'
    BY <2>0, <2>2 DEF IInv, ApprovedBySomebody, TwoPeoplePay, MayRelease, Has
  <2>6. QED
    BY <2>3, <2>4, <2>5 DEF IInv
<1>7. QED
  BY <1>1, <1>5, <1>6

LEMMA ApproveInv == ASSUME IInv, NEW j \in Jobs, Approve(j) PROVE IInv'
<1> DEFINE p == job[j].row
<1>1. p \in Payables /\ job[j].by \in Staff
  BY DEF Approve, IInv, PayablesTypeOK
<1>2. CASE ~Still(p, "PENDING")
  BY <1>2, EndInv DEF Approve
<1>3. CASE Still(p, "PENDING")
  <2> DEFINE new == [payable[p] EXCEPT !.status = "APPROVED", !.approvedBy = job[j].by]
  <2>1. payable[p].status = "PENDING" /\ payable' = [payable EXCEPT ![p] = new]
    BY <1>1, <1>3 DEF Approve, Still, IInv, PayablesTypeOK
  <2>2. job' = [job EXCEPT ![j] = NoJob]
    BY DEF Approve, EndJob
  <2>3. /\ new.status = "APPROVED" /\ new.approvedBy = job[j].by
        /\ new.choice = payable[p].choice /\ new.choice \in Introduced
        /\ new \in [choice: Introduced, status: PayableStatuses \ {"none"},
                    approvedBy: Staff \cup {None}, paidBy: Staff \cup {None}]
    <3>1. /\ payable[p] \in [choice: Introduced \cup {None}, status: PayableStatuses,
                            approvedBy: Staff \cup {None}, paidBy: Staff \cup {None}]
          /\ payable[p].choice \in Introduced
      BY <1>1, <2>1 DEF IInv, PayablesTypeOK
    <3> HIDE DEF p
    <3>2. QED
      BY <1>1, <3>1 DEF PayableStatuses
  <2>4. \A q \in Payables: payable'[q] = IF q = p THEN new ELSE payable[q]
    BY <1>1, <2>1 DEF IInv, PayablesTypeOK
  <2>5. \A q \in Payables \ {p}: payable[q].status \in {"PENDING", "APPROVED", "PAID"}
                                 => payable[q].choice # new.choice
    BY <1>1, <2>1, <2>3 DEF IInv, OneLivePayable
  <2> HIDE DEF new
  <2>6. PayablesTypeOK' /\ OneLivePayable'
    BY <1>1, <2>1, <2>2, <2>3, <2>5, NoJobType, WriteTypes
  <2>7. ReleaseIsSeparated'
    BY <1>1, <2>1, <2>2, <2>4, NoJobType
       DEF IInv, ReleaseIsSeparated, PayablesTypeOK, MayRelease, Has
  <2>8. ApprovedBySomebody' /\ TwoPeoplePay'
    BY <1>1, <2>3, <2>4 DEF IInv, ApprovedBySomebody, TwoPeoplePay, MayRelease, Has
  <2>9. QED
    BY <2>6, <2>7, <2>8 DEF IInv
<1>4. QED
  BY <1>2, <1>3

LEMMA RejectInv == ASSUME IInv, NEW j \in Jobs, Reject(j) PROVE IInv'
<1> DEFINE p == job[j].row
<1>1. p \in Payables
  BY DEF Reject, IInv, PayablesTypeOK
<1>2. CASE ~Still(p, "PENDING")
  BY <1>2, EndInv DEF Reject
<1>3. CASE Still(p, "PENDING")
  <2> DEFINE new == [payable[p] EXCEPT !.status = "REJECTED"]
  <2>1. payable[p].status = "PENDING" /\ payable' = [payable EXCEPT ![p] = new]
    BY <1>1, <1>3 DEF Reject, Still, IInv, PayablesTypeOK
  <2>2. job' = [job EXCEPT ![j] = NoJob]
    BY DEF Reject, EndJob
  <2>3. /\ new.status = "REJECTED"
        /\ new \in [choice: Introduced, status: PayableStatuses \ {"none"},
                    approvedBy: Staff \cup {None}, paidBy: Staff \cup {None}]
    <3>1. /\ payable[p] \in [choice: Introduced \cup {None}, status: PayableStatuses,
                            approvedBy: Staff \cup {None}, paidBy: Staff \cup {None}]
          /\ payable[p].choice \in Introduced
      BY <1>1, <2>1 DEF IInv, PayablesTypeOK
    <3> HIDE DEF p
    <3>2. QED
      BY <1>1, <3>1 DEF PayableStatuses
  <2>4. \A q \in Payables: payable'[q] = IF q = p THEN new ELSE payable[q]
    BY <1>1, <2>1 DEF IInv, PayablesTypeOK
  <2> HIDE DEF new
  <2>5. PayablesTypeOK' /\ OneLivePayable'
    BY <1>1, <2>1, <2>2, <2>3, NoJobType, WriteTypes
  <2>6. ReleaseIsSeparated'
    BY <1>1, <2>1, <2>2, <2>4, NoJobType
       DEF IInv, ReleaseIsSeparated, PayablesTypeOK, MayRelease, Has
  <2>7. ApprovedBySomebody' /\ TwoPeoplePay'
    BY <1>1, <2>3, <2>4 DEF IInv, ApprovedBySomebody, TwoPeoplePay, MayRelease, Has
  <2>8. QED
    BY <2>5, <2>6, <2>7 DEF IInv
<1>4. QED
  BY <1>2, <1>3

LEMMA ReleaseInv == ASSUME IInv, NEW j \in Jobs, Release(j) PROVE IInv'
<1> DEFINE p == job[j].row
<1>1. p \in Payables /\ job[j].by \in Staff
  BY DEF Release, IInv, PayablesTypeOK
<1>2. CASE ~Still(p, "APPROVED")
  BY <1>2, EndInv DEF Release
<1>3. CASE Still(p, "APPROVED")
  <2> DEFINE new == [payable[p] EXCEPT !.status = "PAID", !.paidBy = job[j].by]
  <2>1. payable[p].status = "APPROVED" /\ payable' = [payable EXCEPT ![p] = new]
    BY <1>1, <1>3 DEF Release, Still, IInv, PayablesTypeOK
  <2>2. job' = [job EXCEPT ![j] = NoJob]
    BY DEF Release, EndJob
  <2>3. /\ new.status = "PAID" /\ new.paidBy = job[j].by /\ new.approvedBy = payable[p].approvedBy
        /\ new.choice = payable[p].choice /\ new.choice \in Introduced
        /\ new \in [choice: Introduced, status: PayableStatuses \ {"none"},
                    approvedBy: Staff \cup {None}, paidBy: Staff \cup {None}]
    <3>1. /\ payable[p] \in [choice: Introduced \cup {None}, status: PayableStatuses,
                            approvedBy: Staff \cup {None}, paidBy: Staff \cup {None}]
          /\ payable[p].choice \in Introduced
      BY <1>1, <2>1 DEF IInv, PayablesTypeOK
    <3> HIDE DEF p
    <3>2. QED
      BY <1>1, <3>1 DEF PayableStatuses
  <2>4. \A q \in Payables: payable'[q] = IF q = p THEN new ELSE payable[q]
    BY <1>1, <2>1 DEF IInv, PayablesTypeOK
  <2>5. \A q \in Payables \ {p}: payable[q].status \in {"PENDING", "APPROVED", "PAID"}
                                 => payable[q].choice # new.choice
    BY <1>1, <2>1, <2>3 DEF IInv, OneLivePayable
  <2>6. /\ MayRelease(job[j].by) /\ payable[p].approvedBy \in Staff
        /\ payable[p].approvedBy # job[j].by
    BY <1>1, <2>1 DEF Release, IInv, ReleaseIsSeparated, ApprovedBySomebody
  <2> HIDE DEF new
  <2>7. PayablesTypeOK' /\ OneLivePayable'
    BY <1>1, <2>1, <2>2, <2>3, <2>5, NoJobType, WriteTypes
  <2>8. ReleaseIsSeparated'
    BY <1>1, <2>2, <2>3, <2>4, NoJobType
       DEF IInv, ReleaseIsSeparated, PayablesTypeOK, MayRelease, Has
  <2>9. ApprovedBySomebody' /\ TwoPeoplePay'
    BY <1>1, <2>3, <2>4, <2>6 DEF IInv, ApprovedBySomebody, TwoPeoplePay, MayRelease, Has
  <2>10. QED
    BY <2>7, <2>8, <2>9 DEF IInv
<1>4. QED
  BY <1>2, <1>3

LEMMA NextInv == IInv /\ [PayablesNext]_vars => IInv'
<1> SUFFICES ASSUME IInv, [PayablesNext]_vars PROVE IInv'
  OBVIOUS
<1>1. CASE Next /\ UNCHANGED payableVars
  BY <1>1, StutterInv
<1>2. ASSUME NEW j \in Jobs, SyncStart(j) PROVE IInv'
  BY <1>2, SyncStartInv
<1>3. ASSUME NEW j \in Jobs, SyncInsert(j) PROVE IInv'
  BY <1>3, SyncInsertInv
<1>4. ASSUME NEW j \in Jobs, Approve(j) PROVE IInv'
  BY <1>4, ApproveInv
<1>5. ASSUME NEW j \in Jobs, Reject(j) PROVE IInv'
  BY <1>5, RejectInv
<1>6. ASSUME NEW j \in Jobs, Release(j) PROVE IInv'
  BY <1>6, ReleaseInv
<1>7. ASSUME NEW j \in Jobs, JobFails(j) PROVE IInv'
  BY <1>7, EndInv DEF JobFails
<1>8. ASSUME NEW j \in Jobs, NEW s \in Staff, NEW p \in Payables,
             ApproveStart(j, s, p) \/ RejectStart(j, s, p) \/ ReleaseStart(j, s, p)
      PROVE IInv'
  BY <1>8, DecideStartInv
<1>9. CASE UNCHANGED vars
  BY <1>9, StutterInv DEF vars
<1>10. QED
  BY <1>1, <1>2, <1>3, <1>4, <1>5, <1>6, <1>7, <1>8, <1>9 DEF PayablesNext

-----------------------------------------------------------------------------
\* Decisions are never overwritten: the conditional update writes only rows that
\* still have the status the request read.

StandsStep ==
  \A p \in Payables:
    /\ payable[p].status \in {"PAID", "REJECTED"} => payable'[p] = payable[p]
    /\ payable[p].status = "APPROVED" =>
         /\ payable'[p].status \in {"APPROVED", "PAID"}
         /\ payable'[p].approvedBy = payable[p].approvedBy

\* A step that leaves the payables alone, or only replaces one that is unused or
\* pending, overwrites no decision.
LEMMA UndecidedWrite ==
  ASSUME NEW p \in Payables, payable[p].status \in {"none", "PENDING"},
         \A q \in Payables \ {p}: payable'[q] = payable[q]
  PROVE  StandsStep
BY DEF StandsStep

LEMMA StandsNext == IInv /\ [PayablesNext]_vars => StandsStep
<1> SUFFICES ASSUME IInv, [PayablesNext]_vars PROVE StandsStep
  OBVIOUS
<1>1. CASE UNCHANGED payable
  BY <1>1 DEF StandsStep
<1>2. ASSUME NEW j \in Jobs, SyncInsert(j) PROVE StandsStep
  <2>1. CASE UNCHANGED payable
    BY <2>1, <1>1
  <2>2. CASE ~UNCHANGED payable
    <3>1. PICK p \in Payables:
            payable[p].status = "none" /\ \A q \in Payables \ {p}: payable'[q] = payable[q]
      BY <1>2, <2>2 DEF SyncInsert, IInv, PayablesTypeOK
    <3>2. QED
      BY <3>1, UndecidedWrite
  <2>3. QED
    BY <2>1, <2>2
<1>3. ASSUME NEW j \in Jobs, Approve(j) \/ Reject(j) PROVE StandsStep
  <2> DEFINE p == job[j].row
  <2>1. p \in Payables
    BY <1>3 DEF Approve, Reject, IInv, PayablesTypeOK
  <2>2. CASE ~Still(p, "PENDING")
    BY <1>1, <1>3, <2>2 DEF Approve, Reject
  <2>3. CASE Still(p, "PENDING")
    <3>1. payable[p].status = "PENDING"
      BY <2>3 DEF Still
    <3>2. \A q \in Payables \ {p}: payable'[q] = payable[q]
      BY <1>3, <2>1, <2>3 DEF Approve, Reject, IInv, PayablesTypeOK
    <3>3. QED
      BY <2>1, <3>1, <3>2, UndecidedWrite
  <2>4. QED
    BY <2>2, <2>3
<1>4. ASSUME NEW j \in Jobs, Release(j) PROVE StandsStep
  <2> DEFINE p == job[j].row
  <2>1. p \in Payables
    BY <1>4 DEF Release, IInv, PayablesTypeOK
  <2>2. CASE ~Still(p, "APPROVED")
    BY <1>1, <1>4, <2>2 DEF Release
  <2>3. CASE Still(p, "APPROVED")
    <3>1. payable[p].status = "APPROVED"
      BY <2>3 DEF Still
    <3>2. /\ payable'[p].status = "PAID" /\ payable'[p].approvedBy = payable[p].approvedBy
          /\ \A q \in Payables \ {p}: payable'[q] = payable[q]
      BY <1>4, <2>1, <2>3 DEF Release, IInv, PayablesTypeOK
    <3>3. QED
      BY <2>1, <3>1, <3>2 DEF StandsStep, IInv, PayablesTypeOK
  <2>4. QED
    BY <2>2, <2>3
<1>5. QED
  BY <1>1, <1>2, <1>3, <1>4
     DEF PayablesNext, payableVars, vars, SyncStart, JobFails, ApproveStart, RejectStart, ReleaseStart

-----------------------------------------------------------------------------
\* What the specification guarantees.

\* The inductive invariant holds of AgentPayablesService in every reachable state.
THEOREM Invariant == PayablesSpec => []IInv
BY InitInv, NextInv, PTL DEF PayablesSpec

\* Payables and the requests on them are well formed.
THEOREM TypeCorrect == PayablesSpec => []PayablesTypeOK
<1>1. IInv => PayablesTypeOK
  BY DEF IInv
<1>2. QED
  BY <1>1, Invariant, PTL

\* release: nobody is paid by the person who approved the debt, however many
\* approvals and releases of a row are under way at once.
THEOREM TwoPeople == PayablesSpec => []TwoPeoplePay
<1>1. IInv => TwoPeoplePay
  BY DEF IInv
<1>2. QED
  BY <1>1, Invariant, PTL

\* syncFromCommissions: the partial index keeps one live payable per commission
\* through any number of concurrent ledger reads and decisions.
THEOREM OneLive == PayablesSpec => []OneLivePayable
<1>1. IInv => OneLivePayable
  BY DEF IInv
<1>2. QED
  BY <1>1, Invariant, PTL

\* transition: of two callers racing on one row the later never overwrites the
\* decision of the earlier.
THEOREM Decisions == PayablesSpec => DecisionsStand
<1>1. IInv /\ [PayablesNext]_vars => StandsStep
  BY StandsNext
<1>2. QED
  BY <1>1, Invariant, PTL DEF PayablesSpec, DecisionsStand, StandsStep

-----------------------------------------------------------------------------
\* The ledger underneath: claims and commissions, whatever the payables do.
\*
\* A decision is read in one step and written by id in a later one.  What the
\* later step may rely upon is that a claim keeps its choice and a commission,
\* once created, is never deleted.

LedgerLocals ==
  [at: {"idle", "attend", "submit", "approve", "decide", "move"}, by: Staff \cup {None},
   choice: Choices \cup {None}, claim: Claims \cup {None}, to: Statuses \cup ClaimStatuses]

\* What worker w's next step may rely upon.
Grounded(w) ==
  LET l == work[w] IN
  /\ l.at \in {"attend", "submit", "approve", "move"} => l.choice \in Choices
  /\ l.at \in {"approve", "decide"} =>
       /\ l.claim \in Claims /\ l.to \in {"APPROVED", "REJECTED"}
       /\ claim[l.claim].status # "none" /\ claim[l.claim].choice = l.choice
  /\ l.at = "approve" => l.to = "APPROVED"
  /\ l.at = "decide" /\ l.to = "APPROVED" => commission[l.choice].status # "none"
  /\ l.at = "move" => l.to \in Statuses \ {"none"}

LedgerIInv ==
  /\ TypeOK /\ work \in [Workers -> LedgerLocals]
  /\ \A w \in Workers: Grounded(w)
  /\ ApprovedHasCommission /\ OneLiveClaim

\* What every step of the ledger leaves true for the other workers.
LedgerKeeps ==
  /\ \A t \in Claims: claim[t].status # "none" =>
       claim'[t].status # "none" /\ claim'[t].choice = claim[t].choice
  /\ \A c \in Choices: commission[c].status # "none" => commission'[c].status # "none"

LEMMA LedgerIdle == Idle \in LedgerLocals /\ Idle.at = "idle"
  BY DEF Idle, LedgerLocals, Statuses

LEMMA LedgerInitInv == Init => LedgerIInv
<1> SUFFICES ASSUME Init PROVE LedgerIInv
  OBVIOUS
<1>1. TypeOK
  BY CommissionsAssumption DEF Init, TypeOK, NoClaim, Idle, ClaimStatuses, Statuses
<1>2. work \in [Workers -> LedgerLocals] /\ \A w \in Workers: Grounded(w)
  BY LedgerIdle DEF Init, Grounded
<1>3. ApprovedHasCommission /\ OneLiveClaim
  BY DEF Init, ApprovedHasCommission, OneLiveClaim, NoClaim
<1> QED BY <1>1, <1>2, <1>3 DEF LedgerIInv

\* Worker w moves to the local state l: what has to be shown.
LEMMA LedgerMoves ==
  ASSUME LedgerIInv, LedgerKeeps, NEW w \in Workers, NEW l \in LedgerLocals,
         work' = [work EXCEPT ![w] = l], Grounded(w)', l.at # "idle" => l.by \in Staff,
         attended' \in [Choices -> {"none", "recent", "old"}],
         claim' \in [Claims -> [choice: Choices \cup {None}, by: Staff \cup {None},
                                status: ClaimStatuses, decidedBy: Staff \cup {None}]],
         \A t \in Claims: claim'[t].status # "none" => claim'[t].choice \in Choices /\ claim'[t].by \in Staff,
         commission' \in [Choices -> [status: Statuses, priced: BOOLEAN]],
         failures' \in 0..MaxFailures, ApprovedHasCommission', OneLiveClaim'
  PROVE  LedgerIInv'
<1>1. \A v \in Workers: work'[v] = IF v = w THEN l ELSE work[v]
  BY DEF LedgerIInv
<1>2. work' \in [Workers -> LedgerLocals]
  BY DEF LedgerIInv
<1>3. \A v \in Workers: work'[v].at # "idle" => work'[v].by \in Staff
  BY <1>1 DEF LedgerIInv, TypeOK
<1>4. ASSUME NEW v \in Workers, v # w PROVE Grounded(v)'
  <2>1. work'[v] = work[v] /\ work[v] \in LedgerLocals /\ Grounded(v)
    BY <1>1, <1>4 DEF LedgerIInv
  <2>2. work[v].at \in {"approve", "decide"} =>
          claim'[work[v].claim].status # "none" /\ claim'[work[v].claim].choice = work[v].choice
    BY <2>1 DEF Grounded, LedgerKeeps
  <2>3. work[v].at = "decide" /\ work[v].to = "APPROVED" => commission'[work[v].choice].status # "none"
    <3>1. work[v].at = "decide" => work[v].choice \in Choices
      BY <2>1 DEF Grounded, LedgerIInv, TypeOK
    <3> QED BY <2>1, <3>1 DEF Grounded, LedgerKeeps
  <2> QED BY <2>1, <2>2, <2>3 DEF Grounded
<1>5. TypeOK'
  BY <1>3 DEF TypeOK
<1> QED BY <1>2, <1>4, <1>5 DEF LedgerIInv

\* A worker moves and writes none of the rows.
LEMMA LedgerReads ==
  ASSUME LedgerIInv, NEW w \in Workers, NEW l \in LedgerLocals,
         work' = [work EXCEPT ![w] = l], Grounded(w)', l.at # "idle" => l.by \in Staff,
         UNCHANGED <<attended, claim, commission>>, failures' \in 0..MaxFailures
  PROVE  LedgerIInv'
<1>1. LedgerKeeps /\ ApprovedHasCommission' /\ OneLiveClaim'
  BY DEF LedgerKeeps, LedgerIInv, ApprovedHasCommission, OneLiveClaim
<1> QED BY <1>1, LedgerMoves DEF LedgerIInv, TypeOK

LEMMA LedgerFinish ==
  ASSUME LedgerIInv, NEW w \in Workers, Finish(w)
  PROVE  work' = [work EXCEPT ![w] = Idle] /\ Grounded(w)'
  BY LedgerIdle DEF Finish, LedgerIInv, Grounded

\* isValidStatusTransition never leads back to "no commission".
LEMMA NeverBackToNone == \A from \in Statuses: "none" \notin Transitions[from]
<1> SUFFICES ASSUME NEW from \in Statuses PROVE "none" \notin Transitions[from]
  OBVIOUS
<1>1. CASE from = "none"
  BY <1>1 DEF Transitions
<1>2. CASE from = "ESTIMATED"
  BY <1>2 DEF Transitions
<1>3. CASE from = "CONFIRMED"
  BY <1>3 DEF Transitions
<1>4. CASE from = "INVOICED"
  BY <1>4 DEF Transitions
<1>5. CASE from = "PAID"
  BY <1>5 DEF Transitions
<1>6. CASE from = "CANCELLED"
  BY <1>6 DEF Transitions
<1> QED BY <1>1, <1>2, <1>3, <1>4, <1>5, <1>6 DEF Statuses

LEMMA LedgerStartsInv ==
  ASSUME LedgerIInv, NEW w \in Workers, NEW s \in Staff,
         \/ \E c \in Choices: \/ AttendStart(w, s, c) \/ SubmitStart(w, s, c)
                              \/ \E to \in Statuses: MoveStart(w, s, c, to)
         \/ \E t \in Claims, to \in {"APPROVED", "REJECTED"}: DecideStart(w, s, t, to)
  PROVE  LedgerIInv'
<1>1. ASSUME NEW c \in Choices, NEW at \in {"attend", "submit"},
             work' = [work EXCEPT ![w] = [Idle EXCEPT !.at = at, !.by = s, !.choice = c]],
             UNCHANGED <<attended, claim, commission, failures>>
      PROVE  LedgerIInv'
  <2> DEFINE l == [Idle EXCEPT !.at = at, !.by = s, !.choice = c]
  <2>1. l \in LedgerLocals /\ l.at = at /\ l.by = s /\ l.choice = c
    BY DEF LedgerLocals, Idle, Statuses
  <2>2. work' = [work EXCEPT ![w] = l] /\ UNCHANGED <<attended, claim, commission>>
    BY <1>1
  <2> HIDE DEF l
  <2>3. work'[w] = l /\ failures' \in 0..MaxFailures
    BY <1>1, <2>2 DEF LedgerIInv, TypeOK
  <2>4. Grounded(w)'
    BY <2>1, <2>3 DEF Grounded
  <2> QED BY <2>1, <2>2, <2>3, <2>4, LedgerReads
<1>2. ASSUME NEW c \in Choices, NEW to \in Statuses, MoveStart(w, s, c, to) PROVE LedgerIInv'
  <2> DEFINE l == [Idle EXCEPT !.at = "move", !.by = s, !.choice = c, !.to = to]
  <2>1. l \in LedgerLocals /\ l.at = "move" /\ l.by = s /\ l.choice = c /\ l.to = to
    BY DEF LedgerLocals, Idle
  <2>2. work' = [work EXCEPT ![w] = l]
    BY <1>2 DEF MoveStart, Start, Actor
  <2> HIDE DEF l
  <2>3. to # "none"
    BY <1>2, NeverBackToNone DEF MoveStart, LedgerIInv, TypeOK
  <2>4. work'[w] = l
    BY <2>2 DEF LedgerIInv
  <2>5. Grounded(w)'
    BY <2>1, <2>3, <2>4 DEF Grounded
  <2> QED BY <1>2, <2>1, <2>2, <2>5, LedgerReads DEF MoveStart, LedgerIInv, TypeOK
<1>3. ASSUME NEW t \in Claims, NEW to \in {"APPROVED", "REJECTED"}, DecideStart(w, s, t, to)
      PROVE  LedgerIInv'
  <2> DEFINE at == IF to = "APPROVED" THEN "approve" ELSE "decide"
             l == [Idle EXCEPT !.at = at, !.by = s, !.claim = t, !.choice = claim[t].choice, !.to = to]
  <2>1. claim[t].choice \in Choices /\ claim[t].status = "PENDING"
    BY <1>3 DEF DecideStart, LedgerIInv, TypeOK
  <2>2. /\ l \in LedgerLocals /\ l.at = at /\ l.by = s /\ l.claim = t
        /\ l.choice = claim[t].choice /\ l.to = to
    BY <2>1 DEF LedgerLocals, Idle, ClaimStatuses
  <2>3. work' = [work EXCEPT ![w] = l] /\ UNCHANGED <<attended, claim, commission, failures>>
    BY <1>3 DEF DecideStart, Start, Actor
  <2>4. (at = "approve" /\ to = "APPROVED") \/ (at = "decide" /\ to = "REJECTED")
    OBVIOUS
  <2> HIDE DEF l, at
  <2>5. work'[w] = l
    BY <2>3 DEF LedgerIInv
  <2>6. Grounded(w)'
    BY <2>1, <2>2, <2>3, <2>4, <2>5 DEF Grounded
  <2> QED BY <2>2, <2>3, <2>6, LedgerReads DEF LedgerIInv, TypeOK
<1> QED BY <1>1, <1>2, <1>3 DEF AttendStart, SubmitStart, Start, Actor

LEMMA LedgerFailuresTyped == ASSUME LedgerIInv, NEW w \in Workers, Fail(w) PROVE failures' \in 0..MaxFailures
  BY CommissionsAssumption DEF Fail, LedgerIInv, TypeOK

\* The first class: no claim and no commission is touched.
LEMMA AttendWriteInv == ASSUME LedgerIInv, NEW w \in Workers, AttendWrite(w) PROVE LedgerIInv'
<1>1. work' = [work EXCEPT ![w] = Idle] /\ Grounded(w)'
  BY LedgerFinish DEF AttendWrite
<1>2. attended' \in [Choices -> {"none", "recent", "old"}] /\ UNCHANGED <<claim, commission, failures>>
  BY DEF AttendWrite, LedgerIInv, TypeOK
<1>3. LedgerKeeps /\ ApprovedHasCommission' /\ OneLiveClaim'
  BY <1>2 DEF LedgerKeeps, LedgerIInv, ApprovedHasCommission, OneLiveClaim
<1> QED BY <1>1, <1>2, <1>3, LedgerIdle, LedgerMoves DEF LedgerIInv, TypeOK

\* The insert of a claim: the partial index saw no live one of the choice.
LEMMA SubmitWriteInv == ASSUME LedgerIInv, NEW w \in Workers, SubmitWrite(w) PROVE LedgerIInv'
<1> DEFINE c == work[w].choice
<1>1. work' = [work EXCEPT ![w] = Idle] /\ Grounded(w)'
  BY LedgerFinish DEF SubmitWrite
<1>2. c \in Choices /\ work[w].by \in Staff
  BY DEF SubmitWrite, LedgerIInv, TypeOK, Grounded
<1>3. UNCHANGED <<attended, commission, failures>>
  BY DEF SubmitWrite
<1>4. CASE LiveClaims(c) # {}
  BY <1>1, <1>3, <1>4, LedgerIdle, LedgerReads DEF SubmitWrite, LedgerIInv, TypeOK
<1>5. CASE LiveClaims(c) = {}
  <2> DEFINE new == [NoClaim EXCEPT !.choice = c, !.by = work[w].by, !.status = "PENDING"]
             Row == [choice: Choices \cup {None}, by: Staff \cup {None},
                     status: ClaimStatuses, decidedBy: Staff \cup {None}]
  <2>1. PICK t \in Claims: claim[t].status = "none" /\ claim' = [claim EXCEPT ![t] = new]
    BY <1>5 DEF SubmitWrite
  <2>2. new \in Row /\ new.status = "PENDING" /\ new.choice = c /\ new.by \in Staff
    BY <1>2 DEF NoClaim, ClaimStatuses
  <2>3. claim \in [Claims -> Row]
    BY DEF LedgerIInv, TypeOK
  <2> HIDE DEF new, Row
  <2>4. claim' \in [Claims -> Row] /\ \A u \in Claims: claim'[u] = IF u = t THEN new ELSE claim[u]
    BY <2>1, <2>2, <2>3
  <2>5. \A u \in Claims: claim'[u].status # "none" => claim'[u].choice \in Choices /\ claim'[u].by \in Staff
    BY <1>2, <2>2, <2>4 DEF LedgerIInv, TypeOK
  <2>6. LedgerKeeps
    BY <1>3, <2>1, <2>4 DEF LedgerKeeps
  <2>7. ApprovedHasCommission'
    BY <1>3, <2>2, <2>4 DEF LedgerIInv, ApprovedHasCommission
  <2>8. OneLiveClaim'
    BY <1>5, <2>2, <2>4 DEF LedgerIInv, OneLiveClaim, LiveClaims
  <2>9. claim' \in [Claims -> [choice: Choices \cup {None}, by: Staff \cup {None},
                               status: ClaimStatuses, decidedBy: Staff \cup {None}]]
    BY <2>4 DEF Row
  <2> QED BY <1>1, <1>3, <2>5, <2>6, <2>7, <2>8, <2>9, LedgerIdle, LedgerMoves DEF LedgerIInv, TypeOK
<1> QED BY <1>4, <1>5

\* A row of the commissions is written and never to "none".
LEMMA CommissionWritten ==
  ASSUME LedgerIInv, NEW c \in Choices, NEW row \in [status: Statuses \ {"none"}, priced: BOOLEAN],
         commission' = [commission EXCEPT ![c] = row], claim' = claim
  PROVE  /\ commission' \in [Choices -> [status: Statuses, priced: BOOLEAN]]
         /\ commission'[c].status # "none"
         /\ LedgerKeeps /\ ApprovedHasCommission' /\ OneLiveClaim'
<1>1. /\ commission' \in [Choices -> [status: Statuses, priced: BOOLEAN]]
      /\ \A d \in Choices: commission'[d] = IF d = c THEN row ELSE commission[d]
  BY DEF LedgerIInv, TypeOK
<1>2. row.status # "none"
  OBVIOUS
<1>3. LedgerKeeps
  BY <1>1, <1>2 DEF LedgerKeeps
<1>4. ApprovedHasCommission'
  <2> SUFFICES ASSUME NEW t \in Claims, claim[t].status = "APPROVED"
               PROVE  commission'[claim[t].choice].status # "none"
    BY DEF ApprovedHasCommission
  <2>1. claim[t].choice \in Choices /\ commission[claim[t].choice].status # "none"
    BY DEF LedgerIInv, TypeOK, ApprovedHasCommission
  <2> QED BY <1>1, <1>2, <2>1
<1>5. OneLiveClaim'
  BY DEF LedgerIInv, OneLiveClaim
<1> QED BY <1>1, <1>2, <1>3, <1>4, <1>5

LEMMA CreateWrites ==
  ASSUME LedgerIInv, NEW c \in Choices, Create(c), claim' = claim
  PROVE  /\ commission' \in [Choices -> [status: Statuses, priced: BOOLEAN]]
         /\ commission'[c].status # "none"
         /\ LedgerKeeps /\ ApprovedHasCommission' /\ OneLiveClaim'
<1>1. PICK priced \in BOOLEAN:
        commission' = [commission EXCEPT ![c] = [status |-> "ESTIMATED", priced |-> priced]]
  BY DEF Create
<1>2. [status |-> "ESTIMATED", priced |-> priced] \in [status: Statuses \ {"none"}, priced: BOOLEAN]
  BY DEF Statuses
<1> QED BY <1>1, <1>2, CommissionWritten

\* The approval creates the commission first, and only then decides.
LEMMA ApproveCreateInv == ASSUME LedgerIInv, NEW w \in Workers, ApproveCreate(w) PROVE LedgerIInv'
<1> DEFINE c == work[w].choice  l == [work[w] EXCEPT !.at = "decide"]
<1>1. /\ c \in Choices /\ work[w].by \in Staff /\ work[w] \in LedgerLocals
      /\ work[w].claim \in Claims /\ work[w].to \in {"APPROVED", "REJECTED"}
      /\ claim[work[w].claim].status # "none" /\ claim[work[w].claim].choice = c
  BY DEF ApproveCreate, LedgerIInv, TypeOK, Grounded
<1>2. UNCHANGED <<attended, claim, failures>>
  BY DEF ApproveCreate
<1>3. CASE Finish(w) /\ UNCHANGED commission
  BY <1>2, <1>3, LedgerFinish, LedgerIdle, LedgerReads DEF LedgerIInv, TypeOK
<1>4. CASE Create(c) /\ Goto(w, "decide")
  <2>1. /\ commission' \in [Choices -> [status: Statuses, priced: BOOLEAN]]
        /\ commission'[c].status # "none"
        /\ LedgerKeeps /\ ApprovedHasCommission' /\ OneLiveClaim'
    BY <1>1, <1>2, <1>4, CreateWrites
  <2>2. /\ l \in LedgerLocals /\ l.at = "decide" /\ l.by = work[w].by /\ l.choice = c
        /\ l.claim = work[w].claim /\ l.to = work[w].to
        /\ work' = [work EXCEPT ![w] = l]
    BY <1>1, <1>4 DEF LedgerLocals, Goto, LedgerIInv
  <2> HIDE DEF l
  <2>3. work'[w] = l
    BY <2>2 DEF LedgerIInv
  <2>4. Grounded(w)'
    BY <1>1, <1>2, <2>1, <2>2, <2>3 DEF Grounded
  <2> QED BY <1>1, <1>2, <2>1, <2>2, <2>4, LedgerMoves DEF LedgerIInv, TypeOK
<1> QED BY <1>3, <1>4 DEF ApproveCreate

\* The decision, written by id unless the index refuses to revive the claim.
LEMMA DecideWriteInv == ASSUME LedgerIInv, NEW w \in Workers, DecideWrite(w) PROVE LedgerIInv'
<1> DEFINE t == work[w].claim  to == work[w].to
<1>1. /\ t \in Claims /\ to \in {"APPROVED", "REJECTED"} /\ work[w].by \in Staff
      /\ claim[t].status # "none" /\ claim[t].choice = work[w].choice
      /\ to = "APPROVED" => commission[work[w].choice].status # "none"
  BY DEF DecideWrite, LedgerIInv, TypeOK, Grounded
<1>2. UNCHANGED <<attended, commission, failures>> /\ Finish(w)
  BY DEF DecideWrite
<1>3. work' = [work EXCEPT ![w] = Idle] /\ Grounded(w)'
  BY <1>2, LedgerFinish
<1>4. CASE UNCHANGED claim
  BY <1>2, <1>3, <1>4, LedgerIdle, LedgerReads DEF LedgerIInv, TypeOK
<1>5. CASE /\ claim' = [claim EXCEPT ![t] = [@ EXCEPT !.status = to, !.decidedBy = work[w].by]]
           /\ to = "APPROVED" => LiveClaims(work[w].choice) \ {t} = {}
  <2> DEFINE new == [claim[t] EXCEPT !.status = to, !.decidedBy = work[w].by]
             Row == [choice: Choices \cup {None}, by: Staff \cup {None},
                     status: ClaimStatuses, decidedBy: Staff \cup {None}]
  <2>1. claim \in [Claims -> Row] /\ claim' = [claim EXCEPT ![t] = new]
    BY <1>1, <1>5 DEF LedgerIInv, TypeOK
  <2>2. new \in Row /\ new.status = to /\ new.choice = claim[t].choice /\ new.by = claim[t].by
    BY <1>1, <2>1 DEF ClaimStatuses
  <2> HIDE DEF new, Row
  <2>3. claim' \in [Claims -> Row] /\ \A u \in Claims: claim'[u] = IF u = t THEN new ELSE claim[u]
    BY <1>1, <2>1, <2>2
  <2>4. \A u \in Claims: claim'[u].status # "none" => claim'[u].choice \in Choices /\ claim'[u].by \in Staff
    BY <1>1, <2>2, <2>3 DEF LedgerIInv, TypeOK
  <2>5. LedgerKeeps
    BY <1>1, <1>2, <2>2, <2>3 DEF LedgerKeeps
  <2>6. ApprovedHasCommission'
    BY <1>1, <1>2, <2>2, <2>3 DEF LedgerIInv, ApprovedHasCommission
  <2>7. OneLiveClaim'
    <3> SUFFICES ASSUME NEW u \in Claims, NEW v \in Claims, u # v,
                        claim'[u].status \in {"PENDING", "APPROVED"},
                        claim'[v].status \in {"PENDING", "APPROVED"},
                        claim'[u].choice = claim'[v].choice
                 PROVE  FALSE
      BY DEF OneLiveClaim
    <3>1. CASE u # t /\ v # t
      BY <2>3, <3>1 DEF LedgerIInv, OneLiveClaim
    <3>2. CASE u = t
      <4>1. to = "APPROVED" /\ v \in LiveClaims(work[w].choice) \ {t}
        BY <1>1, <2>2, <2>3, <3>2 DEF LiveClaims
      <4> QED BY <1>5, <4>1
    <3>3. CASE v = t
      <4>1. to = "APPROVED" /\ u \in LiveClaims(work[w].choice) \ {t}
        BY <1>1, <2>2, <2>3, <3>3 DEF LiveClaims
      <4> QED BY <1>5, <4>1
    <3> QED BY <3>1, <3>2, <3>3
  <2>8. claim' \in [Claims -> [choice: Choices \cup {None}, by: Staff \cup {None},
                               status: ClaimStatuses, decidedBy: Staff \cup {None}]]
    BY <2>3 DEF Row
  <2> QED BY <1>2, <1>3, <2>4, <2>5, <2>6, <2>7, <2>8, LedgerIdle, LedgerMoves DEF LedgerIInv, TypeOK
<1> QED BY <1>4, <1>5 DEF DecideWrite

LEMMA MoveWriteInv == ASSUME LedgerIInv, NEW w \in Workers, MoveWrite(w) PROVE LedgerIInv'
<1> DEFINE c == work[w].choice  row == [commission[c] EXCEPT !.status = work[w].to]
<1>1. c \in Choices /\ work[w].to \in Statuses \ {"none"}
  BY DEF MoveWrite, LedgerIInv, TypeOK, Grounded
<1>2. UNCHANGED <<attended, claim, failures>>
  BY DEF MoveWrite
<1>3. work' = [work EXCEPT ![w] = Idle] /\ Grounded(w)'
  BY LedgerFinish DEF MoveWrite
<1>4. row \in [status: Statuses \ {"none"}, priced: BOOLEAN] /\ commission' = [commission EXCEPT ![c] = row]
  BY <1>1 DEF MoveWrite, LedgerIInv, TypeOK
<1> HIDE DEF row
<1>5. /\ commission' \in [Choices -> [status: Statuses, priced: BOOLEAN]]
      /\ LedgerKeeps /\ ApprovedHasCommission' /\ OneLiveClaim'
  BY <1>1, <1>2, <1>4, CommissionWritten
<1> QED BY <1>2, <1>3, <1>5, LedgerIdle, LedgerMoves DEF LedgerIInv, TypeOK

\* Nobody's request moves: the Record button, and time.
LEMMA LedgerStays ==
  ASSUME LedgerIInv, LedgerKeeps, work' = work, ApprovedHasCommission', OneLiveClaim', TypeOK'
  PROVE  LedgerIInv'
<1>1. ASSUME NEW v \in Workers PROVE Grounded(v)'
  <2>1. work[v] \in LedgerLocals /\ Grounded(v)
    BY DEF LedgerIInv
  <2>2. work[v].at \in {"approve", "decide"} =>
          claim'[work[v].claim].status # "none" /\ claim'[work[v].claim].choice = work[v].choice
    BY <2>1 DEF Grounded, LedgerKeeps
  <2>3. work[v].at = "decide" /\ work[v].to = "APPROVED" => commission'[work[v].choice].status # "none"
    <3>1. work[v].at = "decide" => work[v].choice \in Choices
      BY <2>1 DEF Grounded, LedgerIInv, TypeOK
    <3> QED BY <2>1, <3>1 DEF Grounded, LedgerKeeps
  <2> QED BY <2>1, <2>2, <2>3 DEF Grounded
<1> QED BY <1>1 DEF LedgerIInv

LEMMA LedgerNextInv == LedgerIInv /\ [Next]_ledgerVars => LedgerIInv'
<1> SUFFICES ASSUME LedgerIInv, [Next]_ledgerVars PROVE LedgerIInv'
  OBVIOUS
<1>1. ASSUME NEW w \in Workers, Fail(w) PROVE LedgerIInv'
  BY <1>1, LedgerFailuresTyped, LedgerFinish, LedgerIdle, LedgerReads DEF Fail
<1>2. ASSUME NEW s \in Staff, NEW c \in Choices, RecordCommission(s, c) PROVE LedgerIInv'
  <2>1. /\ commission' \in [Choices -> [status: Statuses, priced: BOOLEAN]]
        /\ LedgerKeeps /\ ApprovedHasCommission' /\ OneLiveClaim'
    BY <1>2, CreateWrites DEF RecordCommission
  <2>2. TypeOK'
    BY <1>2, <2>1 DEF RecordCommission, LedgerIInv, TypeOK
  <2> QED BY <1>2, <2>1, <2>2, LedgerStays DEF RecordCommission
<1>3. ASSUME NEW c \in Choices, FortnightPasses(c) PROVE LedgerIInv'
  <2>1. TypeOK' /\ LedgerKeeps /\ ApprovedHasCommission' /\ OneLiveClaim'
    BY <1>3 DEF FortnightPasses, LedgerIInv, TypeOK, LedgerKeeps, ApprovedHasCommission, OneLiveClaim
  <2> QED BY <1>3, <2>1, LedgerStays DEF FortnightPasses
<1>4. CASE UNCHANGED ledgerVars
  <2>1. TypeOK' /\ LedgerKeeps /\ ApprovedHasCommission' /\ OneLiveClaim'
    BY <1>4 DEF ledgerVars, LedgerIInv, TypeOK, LedgerKeeps, ApprovedHasCommission, OneLiveClaim
  <2> QED BY <1>4, <2>1, LedgerStays DEF ledgerVars
<1>5. ASSUME NEW w \in Workers,
             \/ AttendWrite(w) \/ SubmitWrite(w) \/ ApproveCreate(w) \/ DecideWrite(w) \/ MoveWrite(w)
      PROVE  LedgerIInv'
  BY <1>5, AttendWriteInv, SubmitWriteInv, ApproveCreateInv, DecideWriteInv, MoveWriteInv
<1> QED BY <1>1, <1>2, <1>3, <1>4, <1>5, LedgerStartsInv DEF Next

\* A step of the composed system is a step of the ledger, or counts a failure.
LEMMA LedgerUnderPayables == LedgerIInv /\ [PayablesNext]_vars => LedgerIInv'
<1> SUFFICES ASSUME LedgerIInv, [PayablesNext]_vars PROVE LedgerIInv'
  OBVIOUS
<1>1. ASSUME NEW j \in Jobs, JobFails(j) PROVE LedgerIInv'
  <2>1. failures' \in 0..MaxFailures /\ UNCHANGED <<attended, claim, commission, work>>
    BY <1>1, CommissionsAssumption DEF JobFails, LedgerIInv, TypeOK
  <2>2. TypeOK' /\ LedgerKeeps /\ ApprovedHasCommission' /\ OneLiveClaim'
    BY <2>1 DEF LedgerIInv, TypeOK, LedgerKeeps, ApprovedHasCommission, OneLiveClaim
  <2> QED BY <2>1, <2>2, LedgerStays
<1>2. ASSUME NEW j \in Jobs,
             \/ SyncStart(j) \/ SyncInsert(j) \/ Approve(j) \/ Reject(j) \/ Release(j)
             \/ \E s \in Staff, p \in Payables:
                  ApproveStart(j, s, p) \/ RejectStart(j, s, p) \/ ReleaseStart(j, s, p)
      PROVE  UNCHANGED ledgerVars
  BY <1>2 DEF SyncStart, SyncInsert, Approve, Reject, Release, ApproveStart, RejectStart, ReleaseStart
<1>3. CASE UNCHANGED vars
  BY <1>3, LedgerNextInv DEF vars
<1> QED BY <1>1, <1>2, <1>3, LedgerNextInv DEF PayablesNext

\* The ledger's invariant, alone and under the payables.
THEOREM LedgerInvariant == (Spec => []LedgerIInv) /\ (PayablesSpec => []LedgerIInv)
<1>1. Spec => []LedgerIInv
  BY LedgerInitInv, LedgerNextInv, PTL DEF Spec
<1>2. PayablesInit => LedgerIInv
  BY LedgerInitInv DEF PayablesInit
<1>3. PayablesSpec => []LedgerIInv
  BY <1>2, LedgerUnderPayables, PTL DEF PayablesSpec
<1> QED BY <1>1, <1>3

\* approve: "an approved trigger with no commission is a claim everyone believes
\* was actioned" never arises, whatever races or dies between the creation of the
\* commission and the decision.
THEOREM ApprovalHasCommission == PayablesSpec => []ApprovedHasCommission
<1>1. LedgerIInv => ApprovedHasCommission
  BY DEF LedgerIInv
<1> QED BY <1>1, LedgerInvariant, PTL

\* submit and approve: one live claim per programme choice, through refusals,
\* re-submissions and late decisions that would revive a refused claim.
THEOREM ClaimIsOne == PayablesSpec => []OneLiveClaim
<1>1. LedgerIInv => OneLiveClaim
  BY DEF LedgerIInv
<1> QED BY <1>1, LedgerInvariant, PTL

\* The ledger's rows and requests are well formed.
THEOREM LedgerTypeCorrect == PayablesSpec => []TypeOK
<1>1. LedgerIInv => TypeOK
  BY DEF LedgerIInv
<1> QED BY <1>1, LedgerInvariant, PTL
=============================================================================
