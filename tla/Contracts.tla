----------------------------- MODULE Contracts -----------------------------
(***************************************************************************)
(* The engagement contract of one lead: sent through an external signing   *)
(* provider, signed in the order client, LIA, director, and turned by the  *)
(* provider's webhooks into a case, a staffed case, a student account and  *)
(* an invoice.  A delivery is only a hint: the handler reads its row,      *)
(* fetches the provider's state and writes row by row, so deliveries that  *)
(* overlap act on different pictures of the same contract.                 *)
(***************************************************************************)
EXTENDS CaseStaffing

CONSTANTS
  Submissions,  \* submissions or envelopes the provider may create
  Providers,    \* values of CONTRACT_PROVIDER to consider
  Accounts,     \* whether the client has a user when the lead is taken up
  Flags         \* whether the lead is red-flagged

ASSUME ContractsAssumption ==
  /\ None \notin Submissions
  /\ Providers \subseteq {"docuseal", "docusign"}
  /\ Accounts \subseteq {"none", "LEAD"}
  /\ Flags \subseteq BOOLEAN

VARIABLES
  via,       \* the configured provider
  gate,      \* what the lead has cleared: consultations and the execution gate
  envelope,  \* the provider: created, how many have signed, declined
  due,       \* deliveries the provider still owes, counting retries, at most two
  contract,  \* contracts rows, by submission, with their signer rows
  invoice,   \* the ENG-<caseId> invoice of each case
  filed,     \* what was captured from the signed contract, per case
  account,   \* role of the client's user, if there is one
  promoted,  \* CLIENT_PROMOTED_TO_STUDENT was recorded
  hook,      \* request-local state beyond what staffing needs
  excused    \* a best-effort step gave up and said 200, or somebody intervened

docVars == <<via, gate, envelope, due, contract, invoice, filed, account, promoted>>
vars == <<staffingVars, docVars, hook, excused>>

NoContract == [status |-> "none", byLead |-> FALSE, case |-> None, lia |-> None,
               signed |-> 0, signedAt |-> FALSE]
NoHook == [sub |-> None, delivery |-> FALSE, status |-> "none", seen |-> 0,
           state |-> "none", hasLia |-> FALSE, lia |-> None, countersigned |-> FALSE]

Client == 1
Lia == 2
Director == 3

Init ==
  /\ StaffingInit
  /\ via \in Providers
  /\ gate \in [free15: {FALSE}, flagged: Flags, verdict: {"none"}, cleared: {FALSE}, exec: {TRUE}]
  /\ envelope = [s \in Submissions |-> [made |-> FALSE, signed |-> 0, halted |-> FALSE]]
  /\ due = [s \in Submissions |-> 0]
  /\ contract = [s \in Submissions |-> NoContract]
  /\ invoice = [c \in Cases |-> "none"]
  /\ filed = [c \in Cases |-> {}]
  /\ account \in Accounts
  /\ promoted = FALSE
  /\ hook = [w \in Workers |-> NoHook]
  /\ excused = FALSE

Sent == {s \in Submissions: contract[s].status # "none"}

\* Bound: a delivery carries no data, so of those that wait two are kept.
Announce(s, n) == due' = [due EXCEPT ![s] = IF @ + n > 2 THEN 2 ELSE @ + n]

\* A request that has nothing left to do forgets its locals.
Forget(w) == hook' = IF work'[w] = Idle THEN [hook EXCEPT ![w] = NoHook] ELSE hook
Finish(w) == work' = [work EXCEPT ![w] = Idle] /\ hook' = [hook EXCEPT ![w] = NoHook]

\* One that knows what follows forgets what it decided it from.
Decided(h) == [NoHook EXCEPT !.sub = h.sub, !.delivery = h.delivery, !.status = h.status]
SettleOn(w, h) ==
  hook' = [hook EXCEPT ![w] =
    CASE work'[w] = Idle -> NoHook
      [] work'[w].todo = <<"find">> -> h
      [] OTHER -> Decided(h)]

-----------------------------------------------------------------------------
\* The lead.

FreeSessionCompleted ==
  /\ ~gate.free15
  /\ gate' = [gate EXCEPT !.free15 = TRUE]
  /\ UNCHANGED <<staffingVars, via, envelope, due, contract, invoice, filed, account, promoted, hook, excused>>

\* An LIA session ends with a verdict; the latest one counts.
LiaDecides(verdict) ==
  /\ gate.flagged
  /\ gate.verdict # verdict
  /\ gate.verdict # "none" => mishaps < MaxMishaps
  /\ mishaps' = IF gate.verdict = "none" THEN mishaps ELSE mishaps + 1
  /\ gate' = [gate EXCEPT !.verdict = verdict, !.cleared = @ \/ verdict = "APPROVED"]
  /\ UNCHANGED <<case, active, work, via, envelope, due, contract, invoice, filed, account, promoted, hook, excused>>

\* hardStopFlag is raised.
HardStop ==
  /\ mishaps < MaxMishaps
  /\ gate.exec
  /\ gate' = [gate EXCEPT !.exec = FALSE]
  /\ mishaps' = mishaps + 1
  /\ UNCHANGED <<case, active, work, via, envelope, due, contract, invoice, filed, account, promoted, hook, excused>>

ClientRegisters ==
  /\ account = "none"
  /\ account' = "LEAD"
  /\ UNCHANGED <<staffingVars, via, gate, envelope, due, contract, invoice, filed, promoted, hook, excused>>

-----------------------------------------------------------------------------
\* Sending.

\* assertContractSendAllowed.
SendAllowed(g) == g.free15 /\ (g.flagged => g.verdict = "APPROVED")

\* Bound: Submissions are used up.
CanSubmit == \E s \in Submissions: ~envelope[s].made

\* prepareEngagementSend for a lead: nothing is written.
SendToLead(w) ==
  /\ CanSubmit
  /\ Existing = {}
  /\ \A s \in Sent: contract[s].case # None
  /\ SendAllowed(gate)
  /\ StartWork(w, [Idle EXCEPT !.todo = <<"submit", "insert">>])
  /\ \E s \in Staff: Pick("lia", s) /\ hook' = [hook EXCEPT ![w].lia = s]
  /\ UNCHANGED <<case, active, mishaps, docVars, excused>>

\* For a case its staff are assigned first.
SendToCase(w, c) ==
  /\ CanSubmit
  /\ c \in Existing
  /\ \A s \in Sent: contract[s].case # c
  /\ SendAllowed(gate)
  /\ StartWork(w, [Idle EXCEPT !.todo = <<"lia", "owner", "finance", "submit", "insert">>, !.case = c])
  /\ UNCHANGED <<case, active, mishaps, docVars, hook, excused>>

\* createSubmission or createEnvelope: from here on the client has an e-mail;
\* or the provider refuses and the request fails.
Submit(w) ==
  /\ Doing(w, "submit")
  /\ \/ /\ \A s \in Submissions: envelope[s].made
        /\ Finish(w) /\ UNCHANGED envelope
     \/ \E s \in Submissions:
          /\ ~envelope[s].made
          /\ envelope' = [envelope EXCEPT ![s].made = TRUE]
          /\ hook' = [hook EXCEPT ![w].sub = s]
          /\ Onward(w)
  /\ UNCHANGED <<case, active, mishaps, via, gate, due, contract, invoice, filed, account, promoted, excused>>

\* contracts_caseId_key and contracts_leadId_active_key.
LiveContract(c) == \E s \in Sent: contract[s].case = c

\* The contract and its signers; a unique violation leaves the submission orphaned.
InsertContract(w) ==
  LET c == work[w].case IN
  /\ Doing(w, "insert")
  /\ contract' = IF LiveContract(c) THEN contract
                 ELSE [contract EXCEPT ![hook[w].sub] =
                        [NoContract EXCEPT !.status = "SENT", !.byLead = c = None,
                                           !.case = c, !.lia = hook[w].lia]]
  /\ Finish(w)
  /\ UNCHANGED <<case, active, mishaps, via, gate, envelope, due, invoice, filed, account, promoted, excused>>

-----------------------------------------------------------------------------
\* The provider.

\* Signatures come in the order client, LIA, director; DocuSeal announces each
\* and the completion, DocuSign each change of the envelope.
Sign(s) ==
  /\ envelope[s].made /\ ~envelope[s].halted /\ envelope[s].signed < Director
  /\ envelope' = [envelope EXCEPT ![s].signed = @ + 1]
  /\ Announce(s, IF envelope[s].signed = Lia THEN 2 ELSE 1)
  /\ UNCHANGED <<staffingVars, via, gate, contract, invoice, filed, account, promoted, hook, excused>>

Decline(s) ==
  /\ mishaps < MaxMishaps
  /\ envelope[s].made /\ ~envelope[s].halted /\ envelope[s].signed < Director
  /\ envelope' = [envelope EXCEPT ![s].halted = TRUE]
  /\ Announce(s, 1)
  /\ mishaps' = mishaps + 1
  /\ UNCHANGED <<case, active, work, via, gate, contract, invoice, filed, account, promoted, hook, excused>>

\* What DocuSign's envelope status maps to (docusignToContractStatus); SENT
\* stands for VIEWED too.
EnvelopeStatus(e) ==
  IF e.halted THEN "DECLINED" ELSE IF e.signed = Director THEN "SIGNED" ELSE "SENT"

-----------------------------------------------------------------------------
\* A delivery.

\* No row: 200 all the same, and the provider will not ask again.
DeliverUnknown(s) ==
  /\ due[s] > 0
  /\ contract[s].status = "none"
  /\ due' = [due EXCEPT ![s] = @ - 1]
  /\ excused' = TRUE
  /\ UNCHANGED <<staffingVars, via, gate, envelope, contract, invoice, filed, account, promoted, hook>>

\* The row and its signers are read once, at the head of the handler.
Deliver(w, s) ==
  /\ due[s] > 0
  /\ contract[s].status # "none"
  /\ StartWork(w, [Idle EXCEPT !.case = contract[s].case,
                   !.todo = IF via = "docuseal" THEN <<"fetch", "sync", "branch">>
                            ELSE <<"fetch", "recipients", "sync", "status">>])
  /\ due' = [due EXCEPT ![s] = @ - 1]
  /\ hook' = [hook EXCEPT ![w] = [NoHook EXCEPT !.sub = s, !.delivery = TRUE, !.status = contract[s].status]]
  /\ UNCHANGED <<case, active, mishaps, via, gate, envelope, contract, invoice, filed, account, promoted, excused>>

\* getSubmission, or syncStatus.
Fetch(w) ==
  LET e == envelope[hook[w].sub] IN
  /\ Doing(w, "fetch")
  /\ hook' = [hook EXCEPT ![w].seen = e.signed,
                          ![w].state = IF via = "docuseal" THEN "none" ELSE EnvelopeStatus(e)]
  /\ Onward(w)
  /\ UNCHANGED <<case, active, mishaps, docVars, excused>>

\* listRecipients: a second call, answered later.
FetchRecipients(w) ==
  /\ Doing(w, "recipients")
  /\ hook' = [hook EXCEPT ![w].seen = envelope[hook[w].sub].signed]
  /\ Onward(w)
  /\ UNCHANGED <<case, active, mishaps, docVars, excused>>

\* Mutant: rows take what was fetched, even when that is older.
SyncedBlindly(row, seen) == seen
\* signedAt is only ever written where the provider gave one.
Synced(row, seen) == IF seen > row THEN seen ELSE row

SyncSigners(w) ==
  /\ Doing(w, "sync")
  /\ contract' = [contract EXCEPT ![hook[w].sub].signed = Synced(@, hook[w].seen)]
  /\ Onward(w)
  /\ UNCHANGED <<case, active, mishaps, via, gate, envelope, due, invoice, filed, account, promoted, hook, excused>>

\* Mutant: the director's signature is not awaited.
CompletedByLia(seen) == seen >= Lia
Completed(seen) == seen = Director

\* Mutant: a redelivery for a contract that was marked does nothing more.
DownstreamOnce(h, c) ==
  IF c = None \/ h.status = "SIGNED" THEN <<>>
  ELSE IF Completed(h.seen)
       THEN <<"mark", "store", "lia", "owner", "finance", "promote", "invoice">>
  ELSE IF h.countersigned THEN <<"promote", "invoice", "owner">> ELSE <<>>

\* Everything that follows once the case is known.
Downstream(h, c) ==
  IF c = None THEN <<>>
  ELSE IF Completed(h.seen)
       THEN <<"mark", "store", "lia", "owner", "finance", "promote", "invoice">>
  ELSE IF h.countersigned THEN <<"promote", "invoice", "owner">> ELSE <<>>

\* handleDocusealWebhook after the sync: the rows are read again.
Branch(w) ==
  LET row == contract[hook[w].sub]
      now == [hook[w] EXCEPT !.countersigned = row.signed >= Lia]
  IN
  /\ Doing(w, "branch")
  /\ IF work[w].case = None /\ (row.signed >= Client \/ Completed(now.seen))
     THEN Goto(w, <<"find">>)
     ELSE Goto(w, Downstream(now, work[w].case))
  /\ SettleOn(w, now)
  /\ UNCHANGED <<case, active, mishaps, docVars, excused>>

-----------------------------------------------------------------------------
\* ensureCaseForLeadBasedContract.

\* Any case of the lead will do; else createCase, behind the execution gate.
FindCase(w) ==
  /\ Doing(w, "find")
  /\ \/ \E c \in Existing:
          /\ work' = [work EXCEPT ![w].todo = <<"backfill", "point">>, ![w].case = c]
          /\ hook' = [hook EXCEPT ![w].hasLia = case[c].holder.lia # None]
          /\ UNCHANGED excused
     \/ Existing = {} /\ gate.exec /\ Goto(w, <<"create">>) /\ UNCHANGED <<hook, excused>>
     \/ Existing = {} /\ ~gate.exec /\ Finish(w) /\ excused' = TRUE
  /\ UNCHANGED <<case, active, mishaps, docVars>>

CreateCase(w) ==
  /\ Doing(w, "create")
  /\ CreateCaseRow(w, LeadOwner, IF hook[w].delivery THEN <<"backfill", "point">> ELSE <<>>)
  /\ UNCHANGED <<active, mishaps, docVars, hook, excused>>

\* A unique violation is not caught: the provider gets a 500.
BackfillCase(w) ==
  LET s == hook[w].sub
      c == work[w].case
  IN
  /\ Doing(w, "backfill")
  /\ IF \E other \in Sent \ {s}: contract[other].case = c
     THEN Finish(w) /\ Announce(s, 1) /\ UNCHANGED contract
     ELSE /\ contract' = [contract EXCEPT ![s].case = c]
          /\ Onward(w)
          /\ UNCHANGED <<due, hook>>
  /\ UNCHANGED <<case, active, mishaps, via, gate, envelope, invoice, filed, account, promoted, excused>>

\* The case gets the contract's LIA, unless it had one when it was read.
PointLia(w) ==
  LET c == work[w].case IN
  /\ Doing(w, "point")
  /\ case' = IF hook[w].hasLia THEN case
             ELSE [case EXCEPT ![c].holder.lia = contract[hook[w].sub].lia]
  /\ Goto(w, Downstream(hook[w], c))
  /\ SettleOn(w, hook[w])
  /\ UNCHANGED <<active, mishaps, docVars, excused>>

-----------------------------------------------------------------------------
\* handleWebhook (DocuSign) after the sync.

\* The status is compared with the one read at the start; every helper fails on
\* a contract without a case, and swallows it.
UpdateStatus(w) ==
  LET h == hook[w] IN
  /\ Doing(w, "status")
  /\ contract' = IF h.state = h.status THEN contract
                 ELSE [contract EXCEPT ![h.sub].status = h.state,
                                       ![h.sub].signedAt = @ \/ h.state = "SIGNED"]
  /\ Goto(w, IF work[w].case = None THEN <<>>
             ELSE IF h.state = "SIGNED"
                  THEN <<"lia", "owner", "finance", "store", "promote", "invoice">>
             ELSE <<"promote", "invoice">>)
  /\ SettleOn(w, [h EXCEPT !.status = "none"])
  /\ UNCHANGED <<case, active, mishaps, via, gate, envelope, due, invoice, filed, account, promoted, excused>>

-----------------------------------------------------------------------------
\* Downstream of a signature.

MarkSigned(w) ==
  LET s == hook[w].sub IN
  /\ Doing(w, "mark")
  /\ contract' = IF hook[w].status = "SIGNED" THEN contract
                 ELSE [contract EXCEPT ![s].status = "SIGNED", ![s].signedAt = TRUE]
  /\ Onward(w)
  /\ SettleOn(w, [hook[w] EXCEPT !.status = "none"])
  /\ UNCHANGED <<case, active, mishaps, via, gate, envelope, due, invoice, filed, account, promoted, excused>>

\* storeCaseVisaType and storeSignedContractPdf: the PDF needs an uploader.
StoreArtifacts(w) ==
  LET c    == work[w].case
      held == case[c].holder.lia # None \/ case[c].holder.owner # None
  IN
  /\ Doing(w, "store")
  /\ filed' = [filed EXCEPT ![c] = @ \cup {"visaType"} \cup (IF held THEN {"pdf"} ELSE {})]
  /\ excused' = (excused \/ ("pdf" \notin filed[c] /\ ~held))
  /\ Onward(w) /\ Forget(w)
  /\ UNCHANGED <<case, active, mishaps, via, gate, envelope, due, contract, invoice, account, promoted>>

\* The LIA who will sign: the one just picked, or the case's.
SigningLia(w) == IF work[w].pick # None THEN work[w].pick ELSE case[work[w].case].holder.lia

\* A send needs an LIA; elsewhere an empty pool leaves the slot open.
AppointLia(w) ==
  LET sending == Doing(w, "lia") /\ work[w].todo[Len(work[w].todo)] = "insert" IN
  /\ IF sending /\ Pool("lia") = {} /\ ~Filled(work[w].case, "lia") /\ work[w].pick = None
     THEN Finish(w) /\ UNCHANGED <<case, active, mishaps>>
     ELSE /\ AssignLiaToCase(w)
          /\ IF sending
             THEN hook' = [hook EXCEPT ![w].lia = SigningLia(w)]
             ELSE Forget(w)
  /\ UNCHANGED <<docVars, excused>>

AppointOthers(w) ==
  /\ AssignAdmissionToCase(w) \/ AssignFinanceToCase(w) \/ AssignConsultantToCase(w)
  /\ Forget(w)
  /\ UNCHANGED <<docVars, excused>>

\* Mutant: only the client's signature is asked for.
BothSignedClientOnly(row) == row.signed >= Client
BothSigned(row) == row.signed >= Lia

\* maybePromoteClientToStudent: a client without an account is passed over.
PromoteClient(w) ==
  LET due2 == BothSigned(contract[hook[w].sub]) IN
  /\ Doing(w, "promote")
  /\ account' = IF due2 /\ account = "LEAD" THEN "STUDENT" ELSE account
  /\ promoted' = (promoted \/ (due2 /\ account = "LEAD"))
  /\ excused' = (excused \/ (due2 /\ account = "none"))
  /\ Onward(w) /\ Forget(w)
  /\ UNCHANGED <<case, active, mishaps, via, gate, envelope, due, contract, invoice, filed>>

\* maybeCreateEngagementInvoice: one ENG-<caseId>, by its unique number.
InvoiceClient(w) ==
  LET c == work[w].case IN
  /\ Doing(w, "invoice")
  /\ invoice' = IF contract[hook[w].sub].signed >= Client /\ invoice[c] = "none"
                THEN [invoice EXCEPT ![c] = "SENT"] ELSE invoice
  /\ Onward(w) /\ Forget(w)
  /\ UNCHANGED <<case, active, mishaps, via, gate, envelope, due, contract, filed, account, promoted, excused>>

\* These steps swallow their errors: no exchange rate, no storage, no database.
GivesUp(w) ==
  /\ \E step \in {"store", "promote", "invoice", "lia", "owner", "finance"}: Doing(w, step)
  /\ hook[w].delivery
  /\ mishaps < MaxMishaps
  /\ mishaps' = mishaps + 1
  /\ excused' = TRUE
  /\ Onward(w) /\ Forget(w)
  /\ UNCHANGED <<case, active, docVars>>

-----------------------------------------------------------------------------
\* Other requests that touch the case.

\* POST /cases by staff; bounded with the mishaps, as one more interference.
StaffCreateCase(w) ==
  /\ mishaps < MaxMishaps
  /\ Existing = {} /\ gate.exec
  /\ StartWork(w, [Idle EXCEPT !.todo = <<"create">>])
  /\ mishaps' = mishaps + 1
  /\ UNCHANGED <<case, active, docVars, hook, excused>>

\* QUALIFIED: an account is provisioned, then a case is looked for ...
Qualify(w) ==
  /\ account = "none"
  /\ account' = "STUDENT"
  /\ StartWork(w, [Idle EXCEPT !.todo = IF Existing = {} THEN <<"enrol">> ELSE <<>>])
  /\ UNCHANGED <<case, active, mishaps, via, gate, envelope, due, contract, invoice, filed, promoted, hook, excused>>

\* ... and created, with no owner and no look at the gate.
EnrolCase(w) ==
  /\ Doing(w, "enrol")
  /\ CreateCaseRow(w, None, <<>>)
  /\ UNCHANGED <<active, mishaps, docVars, hook, excused>>

\* Stripe's ACCOUNT_OPENING payment re-asserts the staff of a signed case.
AccountOpeningPaid(w, c) ==
  /\ invoice[c] = "SENT"
  /\ invoice' = [invoice EXCEPT ![c] = "PAID"]
  /\ StartWork(w, [Idle EXCEPT !.case = c, !.todo =
       IF \E s \in Sent: contract[s].case = c /\ contract[s].signedAt
       THEN <<"lia", "owner", "finance">> ELSE <<>>])
  /\ UNCHANGED <<case, active, mishaps, via, gate, envelope, due, contract, filed, account, promoted, hook, excused>>

\* The process dies or a statement throws: a delivery is not acknowledged.
Die(w) ==
  /\ ~IsIdle(w)
  /\ mishaps < MaxMishaps
  /\ mishaps' = mishaps + 1
  /\ IF hook[w].delivery THEN Announce(hook[w].sub, 1) ELSE UNCHANGED due
  /\ Finish(w)
  /\ UNCHANGED <<case, active, via, gate, envelope, contract, invoice, filed, account, promoted, excused>>

\* One step of a request that has been started.
Advance(w) ==
  \/ Submit(w) \/ InsertContract(w)
  \/ Fetch(w) \/ FetchRecipients(w) \/ SyncSigners(w) \/ Branch(w) \/ UpdateStatus(w)
  \/ FindCase(w) \/ CreateCase(w) \/ EnrolCase(w) \/ BackfillCase(w) \/ PointLia(w)
  \/ MarkSigned(w) \/ StoreArtifacts(w) \/ AppointLia(w) \/ AppointOthers(w)
  \/ PromoteClient(w) \/ InvoiceClient(w)
  \/ ReassignWrite(w) /\ UNCHANGED <<docVars, hook, excused>>

Manage(w, c) ==
  /\ \E s \in Staff \cup {None}:
       \/ ManualReassign(w, c, s) \/ ReassignConsultant(w, c, s) \/ ReassignOwner(w, c, s)
       \/ ReassignFinance(w, c, s) \/ ReassignSupport(w, c, s)
  /\ excused' = TRUE
  /\ UNCHANGED <<docVars, hook>>

Next ==
  \/ FreeSessionCompleted \/ HardStop \/ ClientRegisters
  \/ \E verdict \in {"APPROVED", "REJECTED"}: LiaDecides(verdict)
  \/ \E s \in Submissions: Sign(s) \/ Decline(s) \/ DeliverUnknown(s)
  \/ \E w \in Workers:
       \/ Advance(w) \/ GivesUp(w) \/ Die(w)
       \/ SendToLead(w) \/ StaffCreateCase(w) \/ Qualify(w)
       \/ \E s \in Submissions: Deliver(w, s)
       \/ \E c \in Cases: SendToCase(w, c) \/ AccountOpeningPaid(w, c) \/ Manage(w, c)
  \/ \E s \in Staff: Leaves(s) /\ excused' = TRUE /\ UNCHANGED <<docVars, hook>>

Spec == Init /\ [][Next]_vars

\* Requests run on; the provider repeats a delivery until it is answered.
Fairness ==
  /\ \A w \in Workers: WF_vars(Advance(w))
  /\ \A s \in Submissions:
       SF_vars(DeliverUnknown(s) \/ \E w \in Workers: Deliver(w, s))

FairSpec == Spec /\ Fairness

-----------------------------------------------------------------------------
\* Rows and locals are well formed; an existing contract names its LIA.
TypeOK ==
  /\ case \in [Cases -> [stage: {"none", "open"}, holder: [Slots -> Staff \cup {None}]]]
  /\ active \subseteq Staff /\ mishaps \in 0..MaxMishaps
  /\ \A w \in Workers: work[w].case \in Cases \cup {None} /\ work[w].pick \in Staff \cup {None}
  /\ contract \in [Submissions -> [status: {"none", "SENT", "DECLINED", "SIGNED"},
        byLead: BOOLEAN, case: Cases \cup {None}, lia: Staff \cup {None}, signed: 0..3, signedAt: BOOLEAN]]
  /\ \A s \in Sent: contract[s].lia \in Staff
  /\ invoice \in [Cases -> {"none", "SENT", "PAID"}]
  /\ filed \in [Cases -> SUBSET {"visaType", "pdf"}]
  /\ account \in {"none", "LEAD", "STUDENT"}

\* Who gets in and who is billed: whatever is delivered late, twice or in the
\* wrong order, an invoice means the client really signed, a promotion that the
\* client and the LIA did, and our rows never claim a signature the provider
\* does not have.
AccessWasSigned ==
  /\ (\E c \in Cases: invoice[c] # "none") => \E s \in Submissions: envelope[s].signed >= Client
  /\ promoted => \E s \in Submissions: envelope[s].signed >= Lia
  /\ \A s \in Submissions: contract[s].signed <= envelope[s].signed

\* "The DIRECTOR's final signature": a contract is SIGNED only when all three
\* have signed and, on the DocuSeal path, its case is known.
SignedIsComplete ==
  \A s \in Sent: contract[s].signedAt =>
    /\ envelope[s].signed = Director
    /\ via = "docuseal" => contract[s].case # None

\* Of all the sends that race, one contract per lead without a case and one per
\* case are ever stored.
OneLiveContract ==
  \A s, t \in Sent: contract[s].case = contract[t].case => s = t

\* A contract only goes out after the free consultation and, for a flagged
\* lead, after an LIA has approved it at least once.
SentWasCleared ==
  \A s \in Submissions: envelope[s].made => gate.free15 /\ (gate.flagged => gate.cleared)

\* Signatures are never unlearned by a delivery that fetched earlier.
SignaturesStay ==
  [][\A s \in Submissions: contract'[s].signed >= contract[s].signed]_vars

\* "must NOT create a 2nd case".
OneCasePerLead == \A c, d \in Existing: c = d

Served(s) ==
  LET c == contract[s].case IN
  /\ contract[s].status = "SIGNED"
  /\ promoted \/ account = "STUDENT"
  /\ invoice[c] # "none"
  /\ filed[c] = {"visaType", "pdf"}
  /\ \A slot \in {"lia", "owner", "finance"}: Filled(c, slot)

\* Once nothing is owed or under way, a contract everybody has signed has its
\* case with its staff, its signed PDF and its invoice, and a student, through
\* crashes, overlaps and redeliveries; unless a best-effort step gave up,
\* managers moved people meanwhile, or two deliveries made two cases: the one
\* that saw fewer signatures may point the contract at its own, unserved case.
RestIsServed ==
  OneCasePerLead => \A s \in Sent:
    via = "docuseal" /\ envelope[s].signed = Director /\ due[s] = 0
      /\ (\A w \in Workers: IsIdle(w)) /\ ~excused
    => contract[s].case # None /\ Served(s)

\* A contract everybody has signed ends in a case with its staff, its signed
\* PDF and its invoice, and in a student, through crashes and redeliveries;
\* unless a best-effort step gave up or managers moved people meanwhile.
SignedIsServed ==
  \A s \in Submissions:
    via = "docuseal" /\ s \in Sent /\ envelope[s].signed = Director
    ~> (s \in Sent /\ contract[s].case # None /\ Served(s)) \/ excused

\* "signer == owner": nobody but a manager puts another LIA on the case than the
\* one who signed.
SignerIsCaseLia ==
  ~excused /\ (\A w \in Workers: IsIdle(w)) =>
    \A s \in Sent: contract[s].byLead /\ contract[s].status = "SIGNED"
      => case[contract[s].case].holder.lia = contract[s].lia

\* A contract that was SIGNED does not become anything else.
SignedStays ==
  [][\A s \in Submissions: contract[s].status = "SIGNED" => contract'[s].status = "SIGNED"]_vars

\* Nobody is asked to sign a submission the platform does not know.
NoOrphans ==
  (\A w \in Workers: IsIdle(w)) => \A s \in Submissions: envelope[s].made => s \in Sent
=============================================================================
