---------------------------- MODULE WebinarEmails ----------------------------
(***************************************************************************)
(* The delivery ledger of webinar e-mails: a registration queues its whole *)
(* lifecycle, and overlapping sweeps (one per minute, one per              *)
(* registration) recover stale claims, list what is due, claim a row by a  *)
(* conditional update, send under an idempotency key and record by id.     *)
(*                                                                         *)
(* One registration stands for all: rows of different ones share nothing.  *)
(***************************************************************************)
EXTENDS Naturals

CONSTANTS
  Kinds,        \* the deliveries of the lifecycle that are modelled
  Dispatches,   \* dispatchDue calls that may overlap
  MaxAttempts,  \* MAX_ATTEMPTS
  MaxCrashes    \* bound: sweeps that die half-way

ASSUME EmailsAssumption ==
  /\ Kinds \subseteq {"CONFIRMATION", "REMINDER", "FOLLOWUP"}
  /\ MaxAttempts \in Nat \ {0} /\ MaxCrashes \in Nat

VARIABLES
  phase,      \* where the clock is relative to the webinar
  delivery,   \* webinar_email_deliveries of the registration, a row of each kind
  accepted,   \* deliveries the provider has accepted under their key
  work,       \* sweep-local state
  crashes

emailsVars == <<phase, delivery, accepted, work, crashes>>

Phases == <<"far", "near", "started", "ended">>
Passed(p) == \E m, n \in 1..4: p = Phases[m] /\ phase = Phases[n] /\ m <= n

Order == [CONFIRMATION |-> 1, REMINDER |-> 2, FOLLOWUP |-> 3]
NoDelivery == [status |-> "none", attempts |-> 0, next |-> "never", stale |-> FALSE]
NoWork == [at |-> "idle", phase |-> "far", todo |-> {}, kind |-> "none", attempt |-> 0]

EmailsInit ==
  /\ phase = "far"
  /\ delivery = [k \in Kinds |-> NoDelivery]
  /\ accepted = {}
  /\ work = [s \in Dispatches |-> NoWork]
  /\ crashes = 0

-----------------------------------------------------------------------------
\* buildWebinarEmailSchedule, in the transaction that registers: a late
\* registrant gets no reminder.  Nothing in the repository sets LIVE, so that only
\* a webinar still ahead is found.
Scheduled(k) ==
  CASE k = "CONFIRMATION" -> "due"
    [] k = "REMINDER"     -> IF phase = "far" THEN "reminder" ELSE "never"
    [] k = "FOLLOWUP"     -> "followup"

QueueLifecycle ==
  /\ phase \in {"far", "near"}
  /\ \A k \in Kinds: delivery[k].status = "none"
  /\ delivery' = [k \in Kinds |->
       IF Scheduled(k) = "never" THEN NoDelivery
       ELSE [NoDelivery EXCEPT !.status = "PENDING", !.next = Scheduled(k)]]
  /\ UNCHANGED <<phase, accepted, work, crashes>>

\* The clock: nextAttemptAt comes, or a claim turns ten minutes old.  A sweep
\* stamps its claims with the time it started, so a claim of a long sweep may
\* be old as soon as it is made.
TimePasses ==
  /\ \E n \in 1..3: phase = Phases[n] /\ phase' = Phases[n + 1]
  /\ UNCHANGED <<delivery, accepted, work, crashes>>

FallsDue(k) ==
  /\ \/ delivery[k].next = "retry"
     \/ delivery[k].next = "reminder" /\ Passed("near")
     \/ delivery[k].next = "followup" /\ Passed("ended")
  /\ delivery' = [delivery EXCEPT ![k].next = "due"]
  /\ UNCHANGED <<phase, accepted, work, crashes>>

ClaimAges(k) ==
  /\ delivery[k].status = "PROCESSING" /\ ~delivery[k].stale
  /\ delivery' = [delivery EXCEPT ![k].stale = TRUE]
  /\ UNCHANGED <<phase, accepted, work, crashes>>

-----------------------------------------------------------------------------
\* dispatchDue.

\* Mutant: stale claims are never given back.
RecoverableNever(k) == FALSE
Recoverable(k) == delivery[k].status = "PROCESSING" /\ delivery[k].stale

DispatchStart(s) ==
  /\ work[s].at = "idle"
  /\ delivery' = [k \in Kinds |->
       IF Recoverable(k)
       THEN [delivery[k] EXCEPT !.status = "FAILED", !.next = "due", !.stale = FALSE]
       ELSE delivery[k]]
  /\ work' = [work EXCEPT ![s] = [NoWork EXCEPT !.at = "list", !.phase = phase]]
  /\ UNCHANGED <<phase, accepted, crashes>>

Waiting(k) == delivery[k].status \in {"PENDING", "FAILED"} /\ delivery[k].attempts < MaxAttempts

List(s) ==
  LET due == {k \in Kinds: Waiting(k) /\ delivery[k].next = "due"} IN
  /\ work[s].at = "list"
  /\ work' = [work EXCEPT ![s] =
       IF due = {} THEN NoWork
       ELSE [@ EXCEPT !.at = "claim",
                      !.todo = {[kind |-> k, seen |-> delivery[k].attempts]: k \in due}]]
  /\ UNCHANGED <<phase, delivery, accepted, crashes>>

\* On to the next delivery of the batch.
Onward(s, todo) ==
  work' = [work EXCEPT ![s] =
    IF todo = {} THEN NoWork
    ELSE [NoWork EXCEPT !.at = "claim", !.phase = work[s].phase, !.todo = todo]]

Claimable(k) == Waiting(k)

\* "Lifecycle window has passed", by the time the sweep started.
WindowPassed(s, k) ==
  \/ k = "CONFIRMATION" /\ work[s].phase = "ended"
  \/ k = "REMINDER" /\ work[s].phase \in {"started", "ended"}

\* ORDER BY scheduledFor.
Earliest(todo) ==
  CHOOSE d \in todo: \A e \in todo: Order[d.kind] <= Order[e.kind]

Claim(s) ==
  LET d == Earliest(work[s].todo)
      k == d.kind
      rest == work[s].todo \ {d}
  IN  /\ work[s].at = "claim"
      /\ \/ ~Claimable(k) /\ Onward(s, rest) /\ UNCHANGED delivery
         \/ /\ Claimable(k)
            /\ delivery' = [delivery EXCEPT ![k].status = "PROCESSING", ![k].attempts = @ + 1,
                                  ![k].stale = FALSE]
            /\ work' = [work EXCEPT ![s] =
                 [@ EXCEPT !.at = IF WindowPassed(s, k) THEN "skip" ELSE "send",
                           !.todo = rest, !.kind = k, !.attempt = d.seen + 1]]
      /\ UNCHANGED <<phase, accepted, crashes>>

Skip(s) ==
  /\ work[s].at = "skip"
  /\ delivery' = [delivery EXCEPT ![work[s].kind].status = "SKIPPED", ![work[s].kind].next = "never"]
  /\ Onward(s, work[s].todo)
  /\ UNCHANGED <<phase, accepted, crashes>>

\* Mutant: an exception of the client counts as sent.
LostAnswerSent == "sent"
LostAnswer == "failed"

\* The provider accepts once per key; it may refuse, or its answer may be lost.
Send(s) ==
  LET k == work[s].kind IN
  /\ work[s].at = "send"
  /\ \/ accepted' = accepted \cup {k} /\ work' = [work EXCEPT ![s].at = "sent"]
     \/ accepted' = accepted \cup {k} /\ work' = [work EXCEPT ![s].at = LostAnswer]
     \/ UNCHANGED accepted /\ work' = [work EXCEPT ![s].at = LostAnswer]
  /\ UNCHANGED <<phase, delivery, crashes>>

RetryAt(attempt) == IF attempt >= MaxAttempts THEN "never" ELSE "retry"

\* The result is written by id, whatever the row has become.
RecordDelivery(s) ==
  LET k == work[s].kind IN
  /\ work[s].at \in {"sent", "failed"}
  /\ delivery' = [delivery EXCEPT
       ![k].status = IF work[s].at = "sent" THEN "SENT" ELSE "FAILED",
       ![k].next = IF work[s].at = "sent" THEN "never" ELSE RetryAt(work[s].attempt)]
  /\ Onward(s, work[s].todo)
  /\ UNCHANGED <<phase, accepted, crashes>>

Crash(s) ==
  /\ work[s].at # "idle"
  /\ crashes < MaxCrashes
  /\ crashes' = crashes + 1
  /\ work' = [work EXCEPT ![s] = NoWork]
  /\ UNCHANGED <<phase, delivery, accepted>>

DispatchStep(s) == List(s) \/ Claim(s) \/ Skip(s) \/ Send(s) \/ RecordDelivery(s)
Clock == TimePasses \/ \E k \in Kinds: FallsDue(k) \/ ClaimAges(k)

EmailsNext ==
  \/ QueueLifecycle
  \/ Clock
  \/ \E s \in Dispatches: DispatchStart(s) \/ DispatchStep(s) \/ Crash(s)

EmailsSpec == EmailsInit /\ [][EmailsNext]_emailsVars

\* Time goes on, the cron fires every minute and sweeps run to their end.
EmailsFairSpec ==
  /\ EmailsSpec
  /\ WF_emailsVars(TimePasses)
  /\ \A k \in Kinds: WF_emailsVars(FallsDue(k)) /\ WF_emailsVars(ClaimAges(k))
  /\ \A s \in Dispatches: WF_emailsVars(DispatchStart(s)) /\ WF_emailsVars(DispatchStep(s))

-----------------------------------------------------------------------------
\* Rows and sweep-local states are well formed.
EmailsTypeOK ==
  /\ phase \in {Phases[n]: n \in 1..4}
  /\ delivery \in [Kinds -> [status: {"none", "PENDING", "PROCESSING", "SENT", "FAILED", "SKIPPED"},
                        attempts: 0..MaxAttempts,
                        next: {"reminder", "followup", "retry", "due", "never"},
                        stale: BOOLEAN]]
  /\ accepted \subseteq Kinds
  /\ \A s \in Dispatches: work[s].at \in {"skip", "send", "sent", "failed"} =>
       work[s].kind \in Kinds /\ delivery[work[s].kind].attempts > 0
  /\ crashes \in 0..MaxCrashes

\* The ledger never claims more than happened: SENT means the provider took the
\* mail, however late or doubled the worker that wrote it.
SentWasAccepted == \A k \in Kinds: delivery[k].status = "SENT" => k \in accepted

\* "The durable FAILED row remains eligible for the minute cron's retry policy":
\* whatever stale attempt number a late worker computed with, a failed delivery
\* that has attempts left also has a time for the next one.
FailedIsRetried ==
  \A k \in Kinds:
    delivery[k].status = "FAILED" /\ delivery[k].attempts < MaxAttempts
    => delivery[k].next \in {"retry", "due"}

\* Nothing waits for ever: every delivery is sent, skipped, or has used up its
\* attempts, through crashes between the claim and the record.
DeliveryEnds ==
  \A k \in Kinds:
    delivery[k].status # "none" ~>
      delivery[k].status \in {"SENT", "SKIPPED"} \/ delivery[k].attempts = MaxAttempts

\* "Does not send when another worker already claimed the row."
OneSender ==
  \A s, t \in Dispatches:
    work[s].at = "send" /\ work[t].at = "send" /\ work[s].kind = work[t].kind => s = t

\* "Records a failed attempt and schedules a retry": no attempt before its time.
BackoffRespected ==
  [][\A k \in Kinds:
       delivery[k].status \in {"PENDING", "FAILED"} /\ delivery'[k].status = "PROCESSING"
       => delivery[k].next = "due"]_emailsVars
=============================================================================
