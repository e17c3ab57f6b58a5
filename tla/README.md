# Sorena Visa Platform: TLA+ specifications

Specifications, model-checking configurations and proofs for the backend of the
platform (`src/backend`, NestJS + Prisma + PostgreSQL). Paths below are relative
to `src/backend/src` unless they begin with `prisma/` (then `src/backend/`).

The backend's business rules live in short request handlers that read a row,
check it, await something, and write by id. PostgreSQL runs their transactions
at READ COMMITTED, so what holds does so because of a row lock, a partial unique
index, a compare-and-set `updateMany`, or because a guard happens to be enough.
Which of these it is, and where none is there, is what the modules say.

## 1. Inventory

| Component | State | Operations | What is hard | What makes it correct |
|---|---|---|---|---|
| Client wallet (`wallet/`) | `wallet.balanceCents`, `wallet_transaction` rows | `postTransaction` called by bookings, cancellations, staff | lost update between two posts; overdraft; a second refund or debit of a booking | cached balance = ledger, never negative, once per booking |
| Bookings and calendar (`booking/`) | `consultations` rows: adviser, time, status, hold, payment | hold, free booking, checkout, wallet payment, cancel, staff marks, hold cleanup (5 min cron), new availability windows (`staff/team`) | check-then-insert under READ COMMITTED, holds outside the unique index, webhooks after the hold lapsed, windows moved under booked times | nothing is booked over what could be seen, live holds are kept, holds end |
| Settlement (`payments/`, `booking-cancellation`) | Stripe intent and refund, `payments`, `refunds`, wallet entries, the booking | webhook, wallet payment, cancellation credit, card refund | duplicate and late deliveries, crash after the idempotency row, two refund paths, Stripe's idempotency key | a captured payment is recorded and settles its booking; money returned once |
| Commission triggers, ledger (`commissions/`) | attendance date, `commission_triggers`, `commissions` | attend, submit, approve, reject, create, confirm, move | decisions checked and written in two statements, the commission created before the claim is marked | an approved claim has its commission |
| Agent payables (`commissions/agent-payables`) | `agent_payables` | derive (on every list), approve, reject, release | derivation from a stale list, racing decisions, one person with both roles | two people pay, one live payable, decisions are final |
| Case documents (`documents/`) | `documents` rows, objects in R2 | request, PUT, confirm, delete, 15 s antivirus sweep | sweep over a stale list, slow ticks, storage and scanner failures, starvation, a URL that may be put into again | CLEAN speaks for the bytes that were read, verdicts are final |
| Webinar e-mails (`webinars/`) | `webinar_email_deliveries` | register, minute sweep, dispatch at registration | stale `now`, recovered claims, lost provider answers, crashes | the row tells what the provider did, every delivery ends |
| Contracts (`contracts/`) | `contracts` with their signers, the provider's submission, the engagement invoice, stored artifacts, the client's account | send gate, sends for a lead or a case, DocuSeal and DocuSign webhooks and what a signature triggers | late, repeated, reordered and overlapping deliveries, a crash between the steps a signature triggers, best-effort steps | access and invoices follow real signatures; nothing owed to a signed client is lost |
| Who works on a case (`cases/`, `staff/`) | the five slots of a case, who is active | automatic picks, manual reassignments, staff who leave | picks computed from stale lists | part of what a signature must leave behind |
| Submission, outcome (`cases/visa`, `cases/inz`, `applications/`) | stage, INZ number, visa row, application statuses, pastoral carer | submit, edit, revert, record and revert the outcome, status moves | read-then-write by id, derived statuses moved best effort, one by one | stage, number and visa row tell one story; an outcome is never replaced |
| Visa reminders (`visa-expiry/`) | `visa_expiry_reminders_sent`, what was mailed | daily sweep, an owner's manual sweep, recording, editing, reverting visas | overlapping sweeps, edits during a sweep, unique and foreign keys that end it, a mailer that swallows refusals | what was mailed is on record, once; a complete sweep leaves nothing due |
| Owner approval (`staff/owner-approval`) | `owner_approval_requests`, roles, active flags, the assignment rows that change hands | file, approve and execute, reject, expire on read; owners' direct acts | approve, reject and expiry race; execution may run twice or die | two people; EXECUTED means done; approvals end |
| Leads, intake, scorecard (`leads/`, `scorecard/`, `public-intake/`, `webinars/`, Wix) | drafts and submissions, contact, leads, account | autosave, submit, register, forms, status moves and their undo | find-or-create without a unique key, autosave against submit (`docs/HOTFIX_SCORECARD_SUBMIT_RACE_20260821.md`) | a score matches its answers, one lead per person, filled attribution columns and manual moves stay |
| Case document reviews, P1 gate; handoffs | reviews, handoff rows | review, hand over | single updates by id | not modelled (section 6) |
| Auth (`auth/`) | tokens, users | login, magic link, reset | single use under concurrency | not modelled |
| Nurture, newsletter, submission follow-ups | step rows | select, send, record | twice, or never | not modelled; the shape of the two e-mail modules |
| Invoices and manual payments | invoices, verification status | verify, reject, reconcile | check-then-write | only the engagement invoice (in `Contracts`) |
| Student portal forms, catalogue, matching, marketing, dashboards, digests, staff CRUD, settings, frontend | data and projections | CRUD, reads | little shared state | not modelled |

Interactions: a cancellation and a wallet payment post to the wallet inside
their own transaction; the Stripe webhook writes the consultation row that holds,
the cleanup cron and staff marks also write; a card refund reads what a
cancellation credited and is also what an owner's approval may execute; every
list of agent payables derives rows from commissions, which approved claims
create; leave of an adviser removes slots, new windows move them; a webinar registration queues ledger
rows, dispatches in the request what the cron would dispatch a minute later, and
makes or reuses a lead; a qualified lead and a signed contract find or create the
case and staff it; an issued visa gives the case its pastoral carer and is what
the reminders read.

## 2. Modules

| Module | Models | Kind |
|---|---|---|
| `WalletLedger` | what the wallet promises: postings happen atomically | abstract specification |
| `Wallet` | `WalletService.postTransaction`, statement by statement | implementation of `WalletLedger` |
| `BookingCalendar` | who owns an adviser slot | component |
| `RefundPolicy` | the refund tiers of `refund-policy.ts` | pure operators |
| `BookingSettlement` | the money of one booking; EXTENDS `RefundPolicy` | component |
| `Commissions` | claims and commissions | component |
| `AgentPayables` | payables derived from commissions; EXTENDS `Commissions` and composes both next-state relations | composition |
| `DocumentScan` | uploads, deletion and the antivirus sweep | component |
| `WebinarEmails` | the delivery ledger of webinar e-mails | component |
| `CaseStaffing` | cases and the five slots of their staff: automatic picks, manual moves, leavers | component without a specification of its own |
| `Contracts` | sending, signing, webhooks and what they trigger; EXTENDS `CaseStaffing` and composes its steps | composition |
| `TwoPersonRule` | what a two-person procedure promises | abstract specification |
| `OwnerApproval` | approval requests and their execution | implementation of `TwoPersonRule` |
| `VisaOutcome` | submission, outcome, corrections and the application statuses | component |
| `VisaReminders` | the expiry sweep and its ledger | component |
| `LeadIntake` | how a person becomes a lead, and what moves it | component |
| `Wallet_proofs`, `BookingCalendar_proofs`, `BookingSettlement_proofs`, `AgentPayables_proofs`, `Contracts_proofs`, `OwnerApproval_proofs`, `VisaOutcome_proofs` | theorems about the module of that name (`AgentPayables_proofs`: also `Commissions`) | proofs |
| `AroundTheCase_proofs` | theorems about `VisaReminders`, `DocumentScan`, `WebinarEmails` and `LeadIntake` | proofs |
| `MC*` | finite instances of the module they are named after | model checking |

How state and actions correspond to the code: one variable per table (a function
from row ids to records, with a "none" record for a row that does not exist),
one per external service, and one function from requests to records for what a
handler holds in local variables between two awaits. A handler is one action per
statement that another request can observe or overtake; a field `at` (or a
sequence of steps still to do) is its program counter. Statements between which
nothing shared is read or written are one action. `PROJECT.json` ("map") names
the source lines of every definition.

A few variables are the model's own: `history`, `excused`, `mishaps`, `unseen`, in
`BookingCalendar` `missed` and `offered`, and the field `old` of a request in
`LeadIntake` record that something happened which a property speaks of (two
requests overlapped, a best-effort step gave up, a row changed after a request
had read it, a file was put after the sweep had read one, the process died). No action reads them to decide what
the code would do, except where they count towards a bound.

Deliberate abstractions:

* `Wallet` keeps a wallet's ledger as a sequence of signed amounts. Both
  per-booking indexes are one test, because each covers one kind of entry.
  `NoOne` in `holder` means nobody holds the row's `FOR UPDATE` lock.
* `BookingCalendar` measures time in units (15 minutes; sessions last 1, 2 or 3
  in the checked instances) on one day, and reduces money to the flags that decide
  a slot. An adviser has a set of disjoint windows out of `Hours`, which staff may
  replace at any time, also by moving the time zone; a window is cut into whole
  sessions from its own start, as the slot engine does. `HoldLapses` is the
  fifteen-minute limit, `DayComes` the start of the sessions. A request keeps the
  set of holds that had lapsed when it took its `now`, which is how stale clocks
  are modelled. `missed` are the bookings confirmed or held since a request last
  looked at the calendar, `offered` the windows a booking's time was listed under.
* `BookingSettlement` follows a single booking, and lets the slot be lost to an
  unnamed other booking at any check. The several reads at the head of a card
  refund are one action (`RefundStart`); so are the webhook's confirming update
  and its 200. Stripe is modelled from how the code calls it: it repeats a
  delivery until a 2xx, and answers a repeated idempotency key with the answer
  it gave first. The key's expiry at Stripe (24 hours) is not modelled.
* `Commissions` and `AgentPayables` keep amounts out: no rule compares them.
  Which lead has an introducing agent is fixed (`Introduced`).
* `DocumentScan` keeps the batch a tick took as the set of its documents, each with
  its place in the order of creation; the oldest is worked on next. The browser
  may put a clean or an infected file into a document's URL any number of times
  until the URL expires, also after the verdict.
* `WebinarEmails` keeps one registration (registrations share no row), the clock
  as "far / near / started / ended", one row of each kind, and the provider's
  memory of idempotency keys for ever. No code sets a webinar to CANCELLED or
  LIVE, so neither occurs. A missing join URL is a send that failed.
* `CaseStaffing`: how many other cases a colleague has is not state; each pick
  sees an arbitrary load from 0 to 1, so "least loaded" can fall on anyone the
  code could choose, and ties go to who was hired first.
* `Contracts`: signing is in order, so three signer rows are the number 0 to 3 of
  those who have signed. A provider owes at most two deliveries of a submission
  at a time. `GivesUp` is any step the handler wraps in a catch of its own.
  The gate before a send is three flags (free session completed, red-flagged,
  cleared by an LIA).
* `OwnerApproval`: creating staff, deleting a case and deleting a student have the
  same shape, succeed once and fail when repeated, and are one kind. One slot
  of one case stands for the assignments that deactivation closes and refills.
  Encryption of payloads and notes is left out.
* `VisaOutcome` follows one case. A visa row is its outcome. Hand-made changes of
  the stage (`updateCase`, `recordWithdrawal`) are actions, bounded by `MaxHand`,
  and excuse what they contradict (`history.stage`).
* `VisaReminders` counts days; a sweep that starts on a day finishes before the
  next or dies. Whatever SMTP refuses, `MailService.send` returns normally, so
  the sweep's own catch around it sees nothing. A step that fails ends the sweep.
* `LeadIntake` follows one person, one e-mail address. The statuses before scoring
  are one, a score is the answers it was computed from. An attribution is a
  function from columns to values: a draft's is frozen as a whole, a lead's is
  filled column by column, as in the code. Of the lead's columns three UTM fields
  are modelled; tracking link, agent, campaign and first-touch source are filled
  the same way.

## 3. Runs

Each run is one configuration; `X.cfg` belongs to run `X`. Deadlock is checked in
`MCWallet`, whose requests may always start again. The other instances are
finite in rows, so the system really stops when everything has been booked,
decided, scanned or sent; those say `CHECK_DEADLOCK FALSE`.

| Run | Instance and bounds | Shows |
|---|---|---|
| `MCWallet` | 3 bookings, 2 wallets, 2 concurrent requests, amounts 2 and 3 | balance = ledger, no overdraft, and `WalletLedger` (one refund and one spend per booking) is implemented |
| `MCCalendarMixed` | a free session (1 unit) and an LIA session (3), one adviser, one window of 3, 2 requests at once, one crash, fairness | with sessions of different length, whoever confirms a booking sees every session confirmed before it looked; no step but its client's, a verdict or the clock ends a live hold; holds end |
| `MCCalendarGapRace` | 2 gap sessions (2 units) of two clients, one adviser whose window staff move between 0..4 and 1..3, so that starts 0, 1 and 2 are offered, 2 requests at once | nothing is placed over a hold or session the request could see, also one of the old cut; the index keeps sessions listed under the same windows apart; money kept means the slot was lost or credited |
| `MCSettlement` | 1 payment intent, 2 workers, 2 refund rows, one failure at any point, fairness | a COMPLETED refund row means Stripe made the refund, a FAILED one that it did not unless a call failed; one live refund, no end without credit; every captured payment is recorded and acknowledged and, without a failure, settles its booking |
| `MCPayables` | 1 choice, 2 claims, 2 payables, 3 people of whom one owner also holds the finance role, one request on claims beside 2 on payables, one failure | approved claims have commissions, two people pay, one live payable, decisions are final |
| `MCScan` | 2 documents, any number of clean and infected files put into each, 2 ticks, batch of 1, one death | CLEAN speaks for the bytes a tick read, and a verdict is never replaced |
| `MCEmails` | 1 reminder, 2 sweeps, 3 attempts, one crash, fairness | SENT means accepted, every delivery ends |
| `MCContracts` | 1 submission, 1 case, an LIA, a consultant and a finance officer, a flagged lead whose client may register at any time, both providers, 2 requests, one mishap (a failure, a change of verdict or staff, or a case opened by staff) | no promotion, invoice or stored signature the provider does not have; SIGNED is complete; once nothing is owed or running, a signed contract has its case, staff, artifacts, invoice and student; signatures are never unlearned |
| `MCApproval` | 2 owners, an administrator, 2 LIAs, one request, 5 payloads, 2 workers, one direct act, one mishap, fairness | EXECUTED took place, approvals end, and `TwoPersonRule` is implemented |
| `MCVisa` | 2 applications, 2 officers, 2 numbers, 2 workers, 5 requests, one act by hand, one failure | stage, number and visa row agree, COMPLETED has its outcome, statuses follow, outcomes are not replaced |
| `MCReminders` | 2 visas (one of a case without LIA), 2 owners, reminders 2 and 1 days ahead, two days, visas issued between sweeps, one edit or revert at any point, one manual sweep, one failure | what was mailed is on record, nobody gets two without an overlap, a complete sweep covers what was due |
| `MCIntake` | 2 ways to answer, 2 visits (source and landing page; source and medium), 2 requests in flight, 4 in all | scores match answers, leads are not fragmented, filled columns and manual moves stay, except for the one overtaken write each property names |

Why the bounds are enough: every hazard listed in `PROJECT.json` involves two
handlers, or one handler and a cron, over one or two rows; the instances have two
of each, and one failure that may hit any step. `CardTotal` 26 and `WalletPrice`
23 make the refund tiers round in both directions. Batch 1 of 2 documents stands
for 10 of more than 10. Reminders two and one days ahead let a later sweep find
the same visa again, as 30, 14 and 7 do. `Horizon` is the latest start a client
asks for: 2 reaches every start the windows of an instance offer. `MaxSessions`, `MaxCrashes`,
`MaxFailures`, `MaxDeaths`, `MaxScans`, `MaxMishaps`, `MaxActs`, `MaxRequests`, `MaxHand`, `MaxEdits`, `MaxSweeps` and `LastDay` bound counters of
the environment; in `WebinarEmails` `MaxAttempts` is the code's constant 5 made 3.
Each module states a type invariant (`TypeOK`; `ScanTypeOK`, `EmailsTypeOK` and
`IntakeTypeOK` where one module of proofs extends several components).

Fairness. Requests that have started run to their end unless they fail (weak
fairness of `Advance`, in `WebinarEmails` `DispatchStep`): a Node process does not starve an awaited promise. Clocks
advance and crons fire (weak fairness of `HoldLapses`, `Cleanup`, `TimePasses`,
`DispatchStart`, and of a tick's steps in `DocumentScan`): they are scheduled by `@Cron` with no condition. Stripe and the
signing providers redeliver until they get a 2xx (strong fairness of `Deliver`,
since both workers may be busy). In `DocumentScan` storage and the scanner answer
infinitely often, or no liveness could be expected. No fairness is assumed of
clients and staff.

Every property of a passing run has a mutant: a definition of the model changed
the way a plausible bug would change the code, named in `PROJECT.json`, under
which TLC finds the property violated. The mutants stand next to the definitions
they replace, with a `Mutant:` comment.

Three more configurations, run by hand and not among the runs of `PROJECT.json`,
pass and vary the regular ones: `MCContractsLive`
(`MCContracts` under fairness with one request at a time: a contract everybody
has signed ends served, `SignedIsServed`), `MCSettlementTwoCheckouts` (two
payment intents of one hold) and `MCClaims` (two claims on one choice, decided
by two requests at once, with nothing derived from the commission).

## 4. Proofs

Every theorem holds for all values of the constants that satisfy the module's
named assumption, which is as weak as the code justifies (a booking has a wallet,
a price is not negative, a batch is not empty). Each component has one inductive
invariant; the sections below say why the property itself is not inductive and
what carries it. Every invariant and every action property that a run checks is
proved; what stays with TLC is listed at the end of this section.

**Wallet** (`Wallet_proofs`, any clients, bookings, amounts and requests).
"The balance equals the ledger" is not inductive: `Commit` writes a total
computed from a balance read two steps earlier. The invariant `IInv` adds
`LockedReadsAreFresh`: a request past the lock still sees the committed balance
in its local variable, because a row has one lock holder and only the holder
writes it. With `OncePerBooking` and `NeverOverdrawn` this is inductive. Proved
from `WalletAssumption` (every booking has a wallet, amounts are positive): type
correctness, the four invariants, and the refinement
`Spec => Abstract!Spec` (`Commit` is the abstract `Post`, every other step a stutter).

**Bookings and the calendar** (`BookingCalendar_proofs`, any bookings, clients,
advisers, pools, windows and requests). Nothing locks a row between a request's
reads and its write, so `IInv` says what the others cannot do meanwhile
(`Local`): a booking being placed is nobody else's, a row that was seen stays, a
hold that has lapsed or was confirmed is never live again. With every
interleaving and every change of windows allowed this proves: two confirmed
bookings of an adviser never start together (the partial unique index), a paid
booking that is not confirmed lost its slot or was credited
(`PaidUnconfirmedLostSlot`), and no step but its own client's, a verdict or the
clock ends a live hold (`LiveHoldKept`). A second invariant, `OInv`, says that
a row's time is a start of the windows it was listed under (`Dealt`), and so is
the time a request is about to write (`Chosen`): two starts of one cut are equal or a session apart, so sessions
of one type listed under the same windows never overlap (`SameTypeNeverOverlaps`).
That sessions of different length, or of different cuts, stay apart rests on the
check before the write alone, and two requests can overtake each other there
(section 5). What the checks do achieve is said of the single step: it confirms
(`SessionsApart`) or places (`HoldsApart`) a booking over another one only if that
one was written after the request last looked. A third invariant, `MInv`
(`Aware`), carries this: whatever overlaps the time a request is about to write
and was not there when it looked is in `missed`. Nothing is assumed of how
requests interleave.

**Settlement** (`BookingSettlement_proofs`, any payment intents, refund rows,
workers, failures and prices). Webhook, wallet payment, cancellation, staff mark
and card refund act on the rows of one booking in separate statements. No step
relies on being next to another: what a worker read stays true (a payment row is
never removed, money spent stays spent: `Monotone`), or the unique index decides
again. `IInv` is `Rows`, `RowsOwned` (which refund row belongs to whom) and, per
worker, `Sure`: what its next step may still assume. Proved: `RefundRowTruthful`
(COMPLETED only of a refund that was made; FAILED only of one that was not, as
long as no call or handler has failed: after a lost answer it is otherwise,
section 5), `OneLiveRefund`, `NoUncreditedEnd`, and beyond the runs that at most the price is
debited and never more credited than was paid, and that a booking marked paid
names money which a cancellation and a card refund will find.

**Commissions and agent payables** (`AgentPayables_proofs`). `TwoPeoplePay` is not
inductive: between the check and the compare-and-set of a release nothing in the
property forbids a change of approver. `IInv` adds `ReleaseIsSeparated` (the row
of a release in flight is APPROVED or PAID and its present approver is not the
person releasing) and `ApprovedBySomebody`. Proved from `CommissionsAssumption` and
`PayablesAssumption`: type correctness, two people, one live payable, and the
action property that decisions stand. Under the payables lies the ledger of
claims: a claim is marked approved after its commission was created, in two
statements. What the worker between them relies upon (`Grounded`: the commission
it created is the claim's) no other step takes away (`LedgerKeeps`), so
`ApprovedHasCommission` holds for any deciders, wherever one dies.

**Contracts** (`Contracts_proofs`, any submissions, cases, staff, requests and
mishaps, both providers). A delivery works on the envelope it fetched and the row
it read, and later deliveries may have been processed first. Everything it relies
on only grows: signatures at the provider, the existence of the row, its case.
`IInv` says what a request's picture still guarantees (`Informed`), what the
steps it has left rely on (`Prepared`), and that two sends that have both called
the provider hold different submissions (`InsertsApart`). Proved: `AccessWasSigned`
(nobody is invoiced or promoted without the signatures), `SignedIsComplete`, the
action property `SignaturesStay`, one stored contract per lead without a case and
per case, and that nobody is asked to sign before the free consultation and, when
flagged, an LIA's approval. `RestIsServed` says that a contract
at rest has everything a signature triggers, and at rest no request is left to
blame, so a second invariant, `RestInv`, follows the obligation (`Owed`): once the
director has signed, the provider still owes a delivery, or some delivery carries
the contract, or it is served. A delivery carries it (`Carries`) while it has yet
to ask, or has been told of the director's signature, or serves it with each of
the seven duties either ahead of it or `Fulfilled`; one that dies is owed again.
What is fulfilled stays so, because rows and requests name existing cases
(`Located`), nobody is moved by hand (`Unmoved`), and a delivery that returns early
at a SIGNED contract is right about it (`Remembered`). The theorem assumes that
somebody works in each role (`Manned`: with nobody to pick, a slot stays empty and
nothing retries) and, like the property, speaks of DocuSeal, of a lead with one
case, and of runs in which no best-effort step gave up and no manager intervened.
`RestInv` was checked by TLC with one and with two cases before it was proved.

**Owner approval** (`OwnerApproval_proofs`, any staff, requests, payloads and
workers). Who filed a request is compared with who approves it when the approval
comes in; what was approved is done several steps later, after others may have
approved, rejected, expired or deleted around it. In between only the request's
own locals remember the check. `IInv` is `TypeOK`, `Locals` (what the locals stand
for at each step) and `RowsOK` (a row exists if somebody filed it; EXECUTED was
done by somebody). Because nobody's filing changes and nothing done is undone
(`Grows`), a step of one request leaves the locals of the others true
(`OneMoves`). Proved from `ApprovalAssumption`: type correctness, `ExecutedTookPlace`,
and that every interleaving implements `TwoPersonRule` (filing is `Open`, the
step that takes effect is `CarryOut`).

**Visa outcome** (`VisaOutcome_proofs`, any applications, officers, numbers and
requests). No transaction looks at the stage again, so what it may assume is what
the first read of its request saw. `IInv` adds `Plans` (the rest of a request is
supplied with values of the right kind and writes the record at most once),
`Alone` (while `history.overlap` is false at most one request is busy) and `InTime`
(while nothing overlapped, a request that is still to write finds the stage it was
started at). Proved from `VisaAssumption`: type correctness, `RecordsAgree`,
`CompletedHasOutcome` and `OutcomeStands`; the last two also for requests that
overlap, thanks to the unique index on `visas.caseId`. `StatusesFollow` relates
the record to statuses that are moved later, one by one, from what was found; a
second invariant, `Follows`, says how far each application may be behind or ahead
at the step the request has reached. It is proved for initial statuses that do
not already say submitted, approved or declined (`NoneAhead`): an application
that started ahead of its case is never pulled back.

**What surrounds a case** (`AroundTheCase_proofs`). Reminders (any visas, owners,
thresholds, days and overlapping sweeps): `CompleteSweepCovers` needs to know that
a reminder without a row belongs to a threshold, a visa or a recipient the sweep
has still to come to (`StillAhead`, over the position in three nested loops), and
`OnceEach` that a sweep that is alone finds a reminder unsent only if it is
(`Unsent`). Antivirus (any documents, ticks, batch size and failures): one tick
works at a time, on a batch in which each document stands once and none has a
verdict (`BatchesOK`), and what it calls clean it fetched clean (`FetchedClean`)
unless the document was put into since (`unseen`); so CLEAN speaks for the bytes
that were read and no verdict is overwritten. Webinar e-mails (any
overlapping sweeps, recovered claims, lost answers): SENT is written only after
the provider's answer (`AnswerWasSent`). Lead intake (any answers, columns,
visits and requests in flight): requests write by id what they decided on earlier
reads. What a request holds in hand (`InHand`) is still so unless another request
has written that table since, which its field `old` remembers. The properties are
about steps, and each allows one kind of step: `ScoreMatchesAnswers` an autosave
whose draft was submitted after it had looked, `NotFragmented` a second lead by a
request that looked before the first was made, `FirstTouchStays` and `MovedByHand`
a write decided from a lead that has changed since. All four are proved and,
beyond the run, that a row that stays a draft keeps its first attribution. One
overtaken write excuses itself and nothing that comes after it.

Only checked by TLC is what is out of the prover's reach: liveness under fairness (`CapturedIsRecorded`, `PaymentSettlesUnlessFailed`,
`HoldsEnd`, `DeliveryEnds`, `ApprovedEnds`), `ENABLED`, and facts that need
induction over data. Where a proof needed the last of a set of rows, it is the
minimum of a well-founded relation (`LastRow`, from the library's `WFMin`).

## 5. Known disagreements between code and intent

The modules also state expectations, most of them quoted from a comment or a
document, that the code does not meet. None of them is among the runs of
`PROJECT.json`. Those with a configuration are reproduced by hand, with
`tlc -config X.cfg M`:

| Configuration (module) | Property | Counterexample |
|---|---|---|
| `MCCalendarFreeTwice` (`MCBookingCalendar`) | `FreeOnce` | two free-booking requests of one client both pass `hasUsedFreeSession` (`booking/booking.service.ts:600`) |
| `MCSettlementBothRefunds` (`MCBookingSettlement`) | `MoneyIntegrity` | a cancellation credit and a card refund of the same payment (`payments/refund.service.ts:104`) |
| `MCScanStarved` (`MCDocumentScan`) | `StoredIsResolved` | rows whose object is missing keep the oldest places of the batch for ever (`documents/document-scan.service.ts:80`) |
| `MCContractsTwoCases` (`MCContracts`) | `OneCasePerLead` | a delivery and staff both find no case of the lead and both create one (`contracts/contracts.service.ts:1113`); a delivery that saw fewer signatures may then be the last to point the contract at its case, so a SIGNED contract rests on a case nobody serves. `RestIsServed` therefore speaks of one case |
| `MCApprovalFailed` (`MCOwnerApproval`) | `FailedMovedNothing` | the refund is made, its answer is lost, the request says EXECUTION_FAILED |
| `MCVisaRevert` (`MCVisaOutcome`) | `RevertedBeforeOutcome` | a revert of the submission read the case before the outcome was recorded |
| `MCRemindersRefused` (`MCVisaReminders`) | `SentIsTrue` | SMTP refuses, `MailService.send` swallows it, the row says SENT |
| `MCRemindersTrail` (`MCVisaReminders`) | `TrailKept` | "reminder rows are NOT deleted when a visa record is reverted": they go with it by cascade |

Others are stated in the modules beside the properties that hold; to see one fail,
name it as the INVARIANT or PROPERTY of the configuration in brackets, or of the
module's regular one:

| Module | Property | What the code lets happen |
|---|---|---|
| `BookingCalendar` | `ConfirmedHasSlot` | two paid checkout sessions of a lost slot: the second confirms a row without a time |
| | `ConfirmsOnlyPending` | a payment checked or delivered around the cleanup confirms a CANCELLED row |
| | `EndedStaysEnded` | a COMPLETED mark replaces a credited cancellation |
| | `NoOverlap` (`MCCalendarMixed`, `MCCalendarGapRace`) | racing sessions of different length, or of one type listed before and after the windows moved, overlap: both pass the check and the index compares start times. With one request at a time it holds |
| | `HeldTimeKept` (both) | a lapsed hold is paid late and confirmed over another client's live hold, without any race: `confirmHeldBookingPayment` looks at confirmed rows only; and two racing holds of one slot |
| `BookingSettlement` | `CapturedIsLinked` | card captured for a booking the wallet has paid |
| | `PaymentSettles` | death after `Payment.create`: the redelivery is skipped |
| | `FailedReturnedNothing` (`MCSettlement`) | Stripe makes the refund, the answer or the write after it is lost, the row says FAILED |
| | `FailedRefundUnlocks` | the idempotency key repeats a failed answer |
| | `DroppedOnlyIfLive` | the retry's row is deleted as a duplicate of a FAILED one |
| `Commissions` | `DecidedOnce` | two deciders read PENDING |
| | `ClockNeverRestarts` | two attendance confirmations |
| | `TwoPeopleAgree` | an owner approves their own claim |
| | `OnlyValidTransitions` | two moves validated against one read |
| `AgentPayables` | `RefusalStands` | a refused payable is derived again from a stale list |
| | `PaidFromEarned` | a payable of an estimated commission is paid |
| `DocumentScan` | `ParkedIsNotRetried` | a parked row is fetched again |
| | `CleanIsClean` (`MCScan`) | the presigned URL takes a second file for 300 seconds: an infected one replaces the file that was scanned CLEAN, and the download gate lets it through |
| `WebinarEmails` | `OneSender` | a claim stamped with an old `now` is recovered while being sent |
| | `BackoffRespected` | the claim does not test `nextAttemptAt` |
| `Contracts` | `SignedStays` | a delivery that fetched earlier writes SENT or DECLINED over SIGNED |
| | `SignerIsCaseLia` | an automatic pick between find-or-create and the signer's assignment |
| | `NoOrphans` | the provider created the submission, the process died before the row |
| `OwnerApproval` | `OneHolder` | two refills open two assignment rows for one slot |
| | `RefusedIsNotDone` | a rejection or an expiry overwrites an approval that is being executed |
| | `LeaversHoldNothing` | an assignment by hand, checked before the deactivation, is written after it |
| `VisaOutcome` | `StatusMachine` | a status written by id after the row has moved on |
| | `NeverStuck` | an edited number on a case a revert has sent back: no endpoint clears it |
| `VisaReminders` | `NobodyTwice` | overlapping sweeps write to one person twice, one row remains |
| | `OthersReminded` | one failed insert ends the sweep for everybody after it |
| | `CurrentDateReminded` | a row for the old end date stops the reminder of the new one |
| `LeadIntake` | `NeverMixed` (`MCIntake`) | a submission after a webinar fills the columns the webinar's campaign left empty: the source of one campaign beside the medium of another, which the comment on drafts calls an attribution "that never actually occurred" (`scorecard/scorecard.service.ts:1363`) |

What properties of passing runs allow is a disagreement too, though none of its
own: an autosave that lands on a submitted row (`ScoreMatchesAnswers`), two
requests that both make a lead (`NotFragmented`), a lead overwritten from an old
read (`FirstTouchStays`, `MovedByHand`), a process that dies after APPROVED
(`ApprovedEnds`) or holding the last attempt of an e-mail (`DeliveryEnds`), a
status move that fails (`StatusesFollow`), requests on one case that overlap
(`RecordsAgree`). `PROJECT.json` says of each hazard
which part of it the properties would catch and, in a note, which part they do not.

## 6. Plan and what is not modelled

Next, in this order:

1. `LoginTokens` (single use of magic links and reset tokens), `Invoices`
   (verification of manual payments), the remaining payment types of the Stripe
   webhook, the nurture sequence and the submission follow-ups, the P1 gate and
   handoffs.
2. Pure algorithms: the slot engine's window and busy arithmetic, scoring and
   ranking, each against a declarative definition.
3. Proofs: the refund tiers of `RefundPolicy` for
   every price, and an abstract specification that the settlement implements.

Not modelled, inside modelled components: the lead that a first booking creates
(`resolveOrCreateLeadForUser`), meeting links and confirmation e-mails; Stripe
subscriptions and `payment_intent.payment_failed`; PDF stamping, signer reminders
and the VIEWED and VOIDED signer states of contracts; the unreachable branch of
a client's promotion for roles other than LEAD; risk override, hard-stop clearing,
receipts and files of a visa; the recovery from a unique violation on scorecard
submissions whose index `prisma/migrations/20260822060000_scorecard_repeat_submissions`
has dropped, so it cannot run; scoring tables and PDFs; webinar series.

Not modelled at all: catalogue imports and matching, dashboards, digests, diaries,
reports and kanban (read-only projections), staff CRUD, mail templates, student
portal forms (one user autosaving their own rows), platform and country
configuration, adapters, and the frontend, which keep no shared state beyond
the rows they edit.
