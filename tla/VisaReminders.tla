---------------------------- MODULE VisaReminders ----------------------------
(***************************************************************************)
(* Expiry reminders.  Once a day, and whenever an owner asks for it, a     *)
(* sweep takes the approved visas that end exactly so many days ahead, and *)
(* for each of three recipients looks for a ledger row, sends the e-mail   *)
(* and writes the row.  Advisers go on recording, editing and reverting    *)
(* visas while it runs.                                                    *)
(***************************************************************************)
EXTENDS Naturals, Sequences, FiniteSets

CONSTANTS
  Visas,        \* ids of visa rows that may be created
  Orphans,      \* visas whose case has no LIA
  Owners,       \* active users with the role OWNER
  Thresholds,   \* days ahead, in the order of the sweep's loop
  EndDays,      \* values of visaEndDate
  LastDay,      \* bound: days
  Sweeps,       \* sweeps that may overlap
  MaxEdits,     \* bound: changes of an end date and reverts
  MaxSweeps,    \* bound: manual sweeps
  MaxFailures   \* bound: refused e-mails, missed ticks, sweeps that die

Ahead == {Thresholds[i]: i \in DOMAIN Thresholds}

ASSUME ReminderAssumption ==
  /\ Orphans \subseteq Visas
  /\ Thresholds \in Seq(Nat \ {0}) /\ EndDays \subseteq Nat
  /\ LastDay \in Nat /\ MaxEdits \in Nat /\ MaxSweeps \in Nat /\ MaxFailures \in Nat

VARIABLES
  today,
  visa,     \* visa rows: absent, live or deleted, and visaEndDate
  ledger,   \* emailDeliveryStatus of visa_expiry_reminders_sent, by its unique key
  mailed,   \* what the mail server took for a key: how often, to whom, which end date
  sweep,    \* sweep-local state
  cron,     \* what became of today's tick
  history   \* what has happened that a property allows for

vars == <<today, visa, ledger, mailed, sweep, cron, history>>

Recipients == <<"LIA", "CLIENT", "OWNER">>
Keys == Visas \X Ahead \X {"LIA", "CLIENT", "OWNER"}
Addressees(v, r) ==
  CASE r = "LIA" -> IF v \in Orphans THEN {} ELSE {"lia"}
    [] r = "CLIENT" -> {"client"}
    [] r = "OWNER" -> Owners

Absent == [row |-> "absent", ends |-> 0]
NoSweep == [at |-> "idle", cron |-> FALSE, next |-> 1, queue |-> {}, visa |-> "none", to |-> 1]

Init ==
  /\ today = 0
  /\ visa = [v \in Visas |-> Absent]
  /\ ledger = [k \in Keys |-> "none"]
  /\ mailed = [k \in Keys |-> [times |-> 0, to |-> {}, about |-> {}]]
  /\ sweep = [s \in Sweeps |-> NoSweep]
  /\ cron = "due"
  /\ history = [overlap |-> FALSE, died |-> FALSE, due |-> {}, failures |-> 0,
                edits |-> 0, manual |-> 0]

Live(v) == visa[v].row = "live"
Running == {s \in Sweeps: sweep[s].at # "idle"}
\* Reminders due today for the visas as they are.
DueKeys == {k \in Keys: Live(k[1]) /\ visa[k[1]].ends = today + k[2]}
NoLongerDue(v) == {k \in history.due: k[1] # v}

-----------------------------------------------------------------------------
\* The advisers.

\* Bound: visas are issued between sweeps; during one only EditVisaEnd and
\* RevertVisa change what the next threshold finds.
IssueVisa(v, day) ==
  /\ Running = {}
  /\ visa[v].row = "absent"
  /\ day > today
  /\ visa' = [visa EXCEPT ![v] = [row |-> "live", ends |-> day]]
  /\ UNCHANGED <<today, ledger, mailed, sweep, cron, history>>

EditVisaEnd(v, day) ==
  /\ history.edits < MaxEdits
  /\ Live(v) /\ day # visa[v].ends
  /\ visa' = [visa EXCEPT ![v].ends = day]
  /\ history' = [history EXCEPT !.edits = @ + 1, !.due = NoLongerDue(v)]
  /\ UNCHANGED <<today, ledger, mailed, sweep, cron>>

\* visa.delete; the foreign key of the ledger cascades.
RevertVisa(v) ==
  /\ history.edits < MaxEdits
  /\ Live(v)
  /\ visa' = [visa EXCEPT ![v].row = "deleted"]
  /\ ledger' = [k \in Keys |-> IF k[1] = v THEN "none" ELSE ledger[k]]
  /\ history' = [history EXCEPT !.edits = @ + 1, !.due = NoLongerDue(v)]
  /\ UNCHANGED <<today, mailed, sweep, cron>>

-----------------------------------------------------------------------------
\* Sweeps.

Begin(s, local) ==
  /\ sweep[s].at = "idle"
  /\ sweep' = [sweep EXCEPT ![s] = local]
  /\ UNCHANGED <<today, visa, ledger, mailed>>

RunDailySweep(s) ==
  /\ cron = "due"
  /\ Begin(s, [NoSweep EXCEPT !.at = "select", !.cron = TRUE])
  /\ cron' = "running"
  /\ history' = [history EXCEPT !.overlap = @ \/ Running # {}, !.due = DueKeys]

RunSweepNow(s) ==
  /\ history.manual < MaxSweeps
  /\ Begin(s, [NoSweep EXCEPT !.at = "select"])
  /\ history' = [history EXCEPT !.overlap = @ \/ Running # {}, !.manual = @ + 1]
  /\ UNCHANGED cron

\* The sweep ends; the tick's result is known.
Stops(s, result) ==
  /\ sweep' = [sweep EXCEPT ![s] = NoSweep]
  /\ cron' = IF sweep[s].cron THEN result ELSE cron

\* The sweep goes on with the next recipient of the visa, the next visa (the
\* rows come in no particular order), or the next threshold.
NextVisa(local) ==
  IF local.queue = {} THEN {[NoSweep EXCEPT !.at = "select", !.cron = local.cron,
                                            !.next = local.next + 1]}
  ELSE {[local EXCEPT !.at = "find", !.visa = v, !.to = 1, !.queue = @ \ {v}]:
          v \in local.queue}
NextRecipient(local) ==
  IF local.to = Len(Recipients) THEN NextVisa(local)
  ELSE {[local EXCEPT !.at = "find", !.to = @ + 1]}
Continue(s, locals) == \E local \in locals: sweep' = [sweep EXCEPT ![s] = local]

\* dayWindow: visas that end exactly the next threshold ahead of today.
SelectVisas(s) ==
  /\ sweep[s].at = "select"
  /\ IF sweep[s].next > Len(Thresholds) THEN Stops(s, "complete")
     ELSE /\ Continue(s, NextVisa([sweep[s] EXCEPT !.queue =
               {v \in Visas: Live(v) /\ visa[v].ends = today + Thresholds[sweep[s].next]}]))
          /\ UNCHANGED cron
  /\ UNCHANGED <<today, visa, ledger, mailed, history>>

Recipient(s) == Recipients[sweep[s].to]
Key(s) == <<sweep[s].visa, Thresholds[sweep[s].next], Recipient(s)>>

\* Mutant: one reminder per visa and recipient.
AlreadySentOnce(k) == \E t \in Ahead: ledger[<<k[1], t, k[3]>>] # "none"
\* Mutant: a corrected end date is announced again under the old key.
AlreadySentForDate(k) == ledger[k] # "none" /\ visa[k[1]].ends \in mailed[k].about
AlreadySent(k) == ledger[k] # "none"

FindReminder(s) ==
  /\ sweep[s].at = "find"
  /\ IF AlreadySent(Key(s)) THEN Continue(s, NextRecipient(sweep[s]))
     ELSE sweep' = [sweep EXCEPT ![s].at = "send"]
  /\ UNCHANGED <<today, visa, ledger, mailed, cron, history>>

\* safeSend notes what is thrown, but MailService.send throws nothing: an
\* e-mail that is refused looks to the sweep like one that was sent.
DispatchOne(s) ==
  /\ sweep[s].at = "send"
  /\ \E reached \in SUBSET Addressees(sweep[s].visa, Recipient(s)):
       LET refused == Addressees(sweep[s].visa, Recipient(s)) \ reached IN
       /\ history.failures + Cardinality(refused) <= MaxFailures
       /\ history' = [history EXCEPT !.failures = @ + Cardinality(refused)]
       /\ sweep' = [sweep EXCEPT ![s].at = "record"]
       /\ mailed' = [mailed EXCEPT ![Key(s)] =
            [times |-> IF reached # {} /\ @.times < 2 THEN @.times + 1 ELSE @.times,
             to |-> @.to \cup reached,
             about |-> IF reached = {} THEN @.about
                       ELSE @.about \cup {today + Thresholds[sweep[s].next]}]]
  /\ UNCHANGED <<today, visa, ledger, cron>>

\* Nobody to write to counts as failed.
Delivery(addressees) == IF addressees # {} THEN "SENT" ELSE "FAILED"

\* Mutant: the row is only written while the reminder is still due.
AcceptableIfDue(k) == k \in DueKeys /\ ledger[k] = "none"
\* The unique key and the foreign key of the ledger.
Acceptable(k) == Live(k[1]) /\ ledger[k] = "none"

\* The insert fails when another sweep has recorded the key or the visa was
\* deleted meanwhile; nothing catches that, and the whole sweep ends.
RecordReminder(s) ==
  /\ sweep[s].at = "record"
  /\ IF Acceptable(Key(s))
     THEN /\ ledger' = [ledger EXCEPT ![Key(s)] =
                          Delivery(Addressees(sweep[s].visa, Recipient(s)))]
          /\ Continue(s, NextRecipient(sweep[s]))
          /\ UNCHANGED cron
     ELSE Stops(s, "aborted") /\ UNCHANGED ledger
  /\ UNCHANGED <<today, visa, mailed, history>>

SweepDies(s) ==
  /\ history.failures < MaxFailures
  /\ sweep[s].at # "idle"
  /\ Stops(s, "aborted")
  /\ history' = [history EXCEPT !.failures = @ + 1, !.died = TRUE]
  /\ UNCHANGED <<today, visa, ledger, mailed>>

-----------------------------------------------------------------------------
\* The backend is down at nine.
MissTick ==
  /\ history.failures < MaxFailures
  /\ cron = "due"
  /\ cron' = "missed"
  /\ history' = [history EXCEPT !.failures = @ + 1]
  /\ UNCHANGED <<today, visa, ledger, mailed, sweep>>

\* A sweep is over before midnight.
NextDay ==
  /\ today < LastDay
  /\ cron # "due" /\ Running = {}
  /\ today' = today + 1
  /\ cron' = "due"
  /\ history' = [history EXCEPT !.due = {}]
  /\ UNCHANGED <<visa, ledger, mailed, sweep>>

Next ==
  \/ \E v \in Visas:
       \/ \E day \in EndDays: IssueVisa(v, day) \/ EditVisaEnd(v, day)
       \/ RevertVisa(v)
  \/ \E s \in Sweeps:
       \/ RunDailySweep(s) \/ RunSweepNow(s) \/ SelectVisas(s)
       \/ FindReminder(s) \/ DispatchOne(s) \/ RecordReminder(s) \/ SweepDies(s)
  \/ MissTick
  \/ NextDay

Spec == Init /\ [][Next]_vars

-----------------------------------------------------------------------------
TypeOK ==
  /\ today \in 0..LastDay
  /\ visa \in [Visas -> [row: {"absent", "live", "deleted"}, ends: Nat]]
  /\ ledger \in [Keys -> {"none", "SENT", "FAILED"}]
  /\ \A k \in Keys: mailed[k].times \in 0..2 /\ mailed[k].to \subseteq Addressees(k[1], k[3])
  /\ cron \in {"due", "running", "complete", "aborted", "missed"}

\* An e-mail that went out about a visa on record is in the ledger, or a sweep
\* is on its way to write it, whichever sweeps overlap, abort each other on the
\* unique key or meet a correction; unless one of them died.
MailedIsRecorded ==
  ~history.died => \A k \in Keys:
    Live(k[1]) /\ mailed[k].times > 0 =>
      ledger[k] # "none" \/ \E s \in Sweeps: sweep[s].at = "record" /\ Key(s) = k

\* "emailDeliveryStatus tracks the actual SMTP outcome": a row that says SENT
\* means that the mail server took the e-mail of every addressee.
SentIsTrue ==
  \A k \in Keys: ledger[k] = "SENT" =>
    mailed[k].to = Addressees(k[1], k[3]) /\ mailed[k].to # {}

\* The ledger makes sweeps repeatable: however often one is run on a day, no
\* recipient is written to twice about a visa on record, as long as none of
\* them died between its e-mail and its row and no two ran at once.
OnceEach ==
  ~history.overlap /\ ~history.died =>
    \A k \in Keys: Live(k[1]) => mailed[k].times <= 1

\* The morning sweep that runs to its end leaves a row for every reminder due
\* when it began, except those of visas edited or reverted meanwhile; refused
\* e-mails and the sweeps an owner starts at its side do not matter.
CompleteSweepCovers == cron = "complete" => \A k \in history.due: ledger[k] # "none"

\* "Reminder rows are NOT deleted when a visa record is reverted."
TrailKept == [][\A k \in Keys: ledger[k] # "none" => ledger'[k] = ledger[k]]_vars

\* "Safe to call any number of times in a row": nobody is written to twice.
NobodyTwice == ~history.died => \A k \in Keys: Live(k[1]) => mailed[k].times <= 1

\* A sweep that does not die examines all that is due: what happens to one
\* visa meanwhile does not cost the others their reminder.
OthersReminded ==
  cron = "aborted" /\ ~history.died => \A k \in history.due: ledger[k] # "none"

\* The client is reminded of the date the visa ends on now.
CurrentDateReminded ==
  cron = "complete" /\ history.failures = 0 =>
    \A k \in history.due: Addressees(k[1], k[3]) # {} => visa[k[1]].ends \in mailed[k].about
=============================================================================
