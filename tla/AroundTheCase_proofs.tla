------------------------ MODULE AroundTheCase_proofs ------------------------
(***************************************************************************)
(* What surrounds a case, for any constants: the three sweeps that work in *)
(* the background, each for any number of overlapping runs (expiry         *)
(* reminders, the antivirus sweep, webinar e-mails), and the ways a person *)
(* becomes a lead, for any number of requests in flight.                   *)
(*                                                                         *)
(* A reminder sweep that runs to its end covers what was due because of    *)
(* where it is (StillAhead): a reminder that has no row yet belongs to a   *)
(* threshold, a visa or a recipient it has still to come to.  Nobody is    *)
(* written to twice because a sweep that is alone finds a reminder unsent  *)
(* and sends it (Unsent).                                                  *)
(*                                                                         *)
(* The antivirus sweep overwrites no verdict because one tick is at work,  *)
(* on a batch in which each document stands once and none has a verdict    *)
(* (BatchOK); what it calls clean was fetched clean (FetchedClean), until  *)
(* the client puts into it again.                                          *)
(*                                                                         *)
(* A webinar e-mail is recorded SENT after the provider's answer only      *)
(* (AnswerWasSent), and the provider takes nothing back.                   *)
(*                                                                         *)
(* A request of the lead intake writes by id what it decided on earlier    *)
(* reads.  What it holds in hand is still so unless another request has    *)
(* written that table since (InHand: StillDraft, StillLast), and a step of *)
(* such a request is all the properties allow for (Late).                  *)
(***************************************************************************)
EXTENDS VisaReminders, DocumentScan, WebinarEmails, LeadIntake, WellFoundedInduction, TLAPS

-----------------------------------------------------------------------------
\* The expiry reminders.

AtWork == {"find", "send", "record"}
Locals == [at: {"idle", "select"} \cup AtWork, cron: BOOLEAN, next: Nat \ {0},
           queue: SUBSET Visas, visa: Visas \cup {"none"}, to: 1..3]
LocalOK(l) == l \in Locals /\ (l.at \in AtWork => l.next \in DOMAIN Thresholds /\ l.visa \in Visas)
Everybody == Owners \cup {"lia", "client"}
Mails == [times: 0..2, to: SUBSET Everybody, about: SUBSET Nat]
History == [overlap |-> history.overlap, died |-> history.died, due |-> history.due,
            failures |-> history.failures, edits |-> history.edits, manual |-> history.manual]

Types ==
  /\ TypeOK
  /\ mailed \in [Keys -> Mails]
  /\ sweep \in [Sweeps -> Locals] /\ \A s \in Sweeps: LocalOK(sweep[s])
  /\ history = History /\ history.due \subseteq Keys

\* A sweep only knows visas that were issued, and nothing was mailed before.
Known(l) == /\ l.at \in AtWork => visa[l.visa].row # "absent"
            /\ \A v \in l.queue: visa[v].row # "absent"
Issued ==
  /\ \A s \in Sweeps: Known(sweep[s])
  /\ \A k \in Keys: visa[k[1]].row = "absent" => mailed[k].times = 0

\* A sweep that is alone finds a reminder unsent and sends it.
Alone == ~history.overlap => \A s, t \in Running: s = t
Unsent ==
  ~history.overlap /\ ~history.died =>
    \A s \in Sweeps: sweep[s].at = "send" /\ Live(sweep[s].visa) => mailed[Key(s)].times = 0

\* The morning sweep still comes to the reminder k.
Comes(l, k) ==
  \/ l.at = "select"
  \/ k[1] \in l.queue
  \/ k[1] = l.visa /\ \E j \in l.to..3: k[3] = Recipients[j]
StillAhead(l, k) ==
  \E i \in DOMAIN Thresholds:
    k[2] = Thresholds[i] /\ (i > l.next \/ (i = l.next /\ Comes(l, k)))

DueStands == \A k \in history.due: Live(k[1]) /\ visa[k[1]].ends = today + k[2]
OneMorning ==
  /\ \A s \in Sweeps: sweep[s].cron => sweep[s].at # "idle" /\ cron = "running"
  /\ \A s, t \in Sweeps: sweep[s].cron /\ sweep[t].cron => s = t
Covering ==
  \A s \in Sweeps: sweep[s].cron =>
    \A k \in history.due: ledger[k] # "none" \/ StillAhead(sweep[s], k)

IInv ==
  /\ Types /\ Issued /\ Alone /\ Unsent /\ DueStands /\ OneMorning /\ Covering
  /\ MailedIsRecorded /\ OnceEach /\ CompleteSweepCovers

-----------------------------------------------------------------------------
\* Where a sweep is.

KeyOf(l) == <<l.visa, Thresholds[l.next], Recipients[l.to]>>

LEMMA ThreeRecipients ==
  /\ Len(Recipients) = 3
  /\ \A j \in 1..3: Recipients[j] \in {"LIA", "CLIENT", "OWNER"}
  /\ \A r \in {"LIA", "CLIENT", "OWNER"}: \E j \in 1..3: r = Recipients[j]
BY DEF Recipients

LEMMA ThresholdsAhead ==
  /\ Len(Thresholds) \in Nat /\ DOMAIN Thresholds = 1..Len(Thresholds)
  /\ \A i \in DOMAIN Thresholds: Thresholds[i] \in Ahead /\ Thresholds[i] \in Nat \ {0}
  /\ \A a \in Ahead: \E i \in DOMAIN Thresholds: a = Thresholds[i]
BY ReminderAssumption DEF Ahead

LEMMA KeyIsKey ==
  ASSUME NEW l, LocalOK(l), l.at \in AtWork
  PROVE  /\ KeyOf(l) \in Keys /\ KeyOf(l)[1] = l.visa /\ KeyOf(l)[2] = Thresholds[l.next]
         /\ KeyOf(l)[3] = Recipients[l.to]
BY ThreeRecipients, ThresholdsAhead DEF LocalOK, Locals, KeyOf, Keys

LEMMA NoSweepOK ==
  /\ LocalOK(NoSweep) /\ NoSweep.at = "idle" /\ NoSweep.cron = FALSE /\ NoSweep.queue = {}
  /\ NoSweep.next = 1
BY DEF LocalOK, Locals, NoSweep, AtWork

\* The next visa of the queue, or the next threshold.
LEMMA NextVisaIs ==
  ASSUME NEW l \in Locals, l.next \in DOMAIN Thresholds, NEW n \in NextVisa(l)
  PROVE  /\ LocalOK(n) /\ n.cron = l.cron
         /\ \/ n.at = "select" /\ n.next = l.next + 1 /\ n.queue = {} /\ l.queue = {}
            \/ /\ n.at = "find" /\ n.next = l.next /\ n.visa \in l.queue /\ n.to = 1
               /\ n.queue = l.queue \ {n.visa}
<1>1. CASE l.queue = {}
  <2>1. n = [NoSweep EXCEPT !.at = "select", !.cron = l.cron, !.next = l.next + 1]
    BY <1>1 DEF NextVisa
  <2>2. /\ n.at = "select" /\ n.cron = l.cron /\ n.next = l.next + 1 /\ n.queue = {}
        /\ n \in Locals
    <3>1. n = [at |-> "select", cron |-> l.cron, next |-> l.next + 1, queue |-> {},
               visa |-> "none", to |-> 1]
      BY <2>1 DEF NoSweep
    <3>2. l.cron \in BOOLEAN /\ l.next + 1 \in Nat \ {0}
      BY DEF Locals
    <3> QED BY <3>1, <3>2 DEF Locals
  <2> QED BY <1>1, <2>2 DEF LocalOK, AtWork
<1>2. CASE l.queue # {}
  <2>1. PICK v \in l.queue:
          n = [l EXCEPT !.at = "find", !.visa = v, !.to = 1, !.queue = l.queue \ {v}]
    BY <1>2 DEF NextVisa
  <2>2. /\ n.at = "find" /\ n.cron = l.cron /\ n.next = l.next /\ n.queue = l.queue \ {v}
        /\ n.visa = v /\ n.to = 1 /\ n \in Locals
    <3>1. n = [at |-> "find", cron |-> l.cron, next |-> l.next, queue |-> l.queue \ {v},
               visa |-> v, to |-> 1]
      BY <2>1 DEF Locals
    <3>2. l.cron \in BOOLEAN /\ l.next \in Nat \ {0} /\ l.queue \subseteq Visas
      BY DEF Locals
    <3> QED BY <3>1, <3>2 DEF Locals, AtWork
  <2>3. v \in Visas
    BY DEF Locals
  <2> QED BY <2>2, <2>3 DEF LocalOK
<1> QED BY <1>1, <1>2

\* The next recipient of the visa, or the next visa.
LEMMA NextRecipientIs ==
  ASSUME NEW l \in Locals, LocalOK(l), l.at \in AtWork, NEW n \in NextRecipient(l)
  PROVE  /\ LocalOK(n) /\ n.cron = l.cron
         /\ \/ n.at = "select" /\ n.next = l.next + 1 /\ n.queue = {} /\ l.queue = {} /\ l.to = 3
            \/ /\ n.at = "find" /\ n.next = l.next /\ n.visa \in l.queue /\ n.to = 1
               /\ n.queue = l.queue \ {n.visa} /\ l.to = 3
            \/ /\ n.at = "find" /\ n.next = l.next /\ n.visa = l.visa /\ n.to = l.to + 1
               /\ n.queue = l.queue
<1>0. l.next \in DOMAIN Thresholds /\ l.visa \in Visas
  BY DEF LocalOK
<1>1. CASE l.to = 3
  <2>1. n \in NextVisa(l)
    BY <1>1, ThreeRecipients DEF NextRecipient
  <2> QED BY <1>0, <1>1, <2>1, NextVisaIs
<1>2. CASE l.to # 3
  <2>1. n = [l EXCEPT !.at = "find", !.to = l.to + 1]
    BY <1>2, ThreeRecipients DEF NextRecipient
  <2>2. /\ n.at = "find" /\ n.cron = l.cron /\ n.next = l.next /\ n.queue = l.queue
        /\ n.visa = l.visa /\ n.to = l.to + 1 /\ n \in Locals
    <3>1. n = [at |-> "find", cron |-> l.cron, next |-> l.next, queue |-> l.queue,
               visa |-> l.visa, to |-> l.to + 1]
      BY <2>1 DEF Locals
    <3>2. /\ l.cron \in BOOLEAN /\ l.next \in Nat \ {0} /\ l.queue \subseteq Visas
          /\ l.visa \in Visas \cup {"none"} /\ l.to + 1 \in 1..3
      BY <1>2 DEF Locals
    <3> QED BY <3>1, <3>2 DEF Locals, AtWork
  <2> QED BY <1>0, <2>2 DEF LocalOK
<1> QED BY <1>1, <1>2

\* A sweep that goes on leaves only the reminder it was at behind.
LEMMA GoingOn ==
  ASSUME NEW l \in Locals, LocalOK(l), l.at \in AtWork, NEW n \in NextRecipient(l),
         NEW k \in Keys, StillAhead(l, k), k # KeyOf(l)
  PROVE  StillAhead(n, k)
<1>1. PICK i \in DOMAIN Thresholds: k[2] = Thresholds[i] /\ (i > l.next \/ (i = l.next /\ Comes(l, k)))
  BY DEF StillAhead
<1>2. i \in Nat /\ l.next \in Nat /\ l.to \in 1..3
  BY ThresholdsAhead DEF Locals
<1>3. CASE i > l.next
  <2>1. i > n.next \/ (i = n.next /\ n.at = "select")
    BY <1>2, <1>3, NextRecipientIs
  <2> QED BY <1>1, <2>1 DEF StillAhead, Comes
<1>4. CASE i = l.next
  <2>1. k[1] \in l.queue \/ (k[1] = l.visa /\ \E j \in l.to..3: k[3] = Recipients[j])
    BY <1>1, <1>2, <1>4 DEF Comes, AtWork
  <2>2. CASE k[1] \in l.queue
    <3>1. n.next = l.next /\ (k[1] \in n.queue \/ (k[1] = n.visa /\ n.to = 1))
      BY <2>2, NextRecipientIs
    <3>2. \E j \in 1..3: k[3] = Recipients[j]
      BY ThreeRecipients DEF Keys
    <3> QED BY <1>1, <1>4, <3>1, <3>2 DEF StillAhead, Comes
  <2>3. ASSUME k[1] = l.visa, NEW j \in l.to..3, k[3] = Recipients[j] PROVE StillAhead(n, k)
    <3>1. j # l.to
      BY <1>1, <1>4, <2>3 DEF KeyOf, Keys
    <3>2. l.to # 3 /\ j \in (l.to + 1)..3
      BY <1>2, <2>3, <3>1
    <3>3. n.next = l.next /\ n.visa = l.visa /\ n.to = l.to + 1
      BY <3>2, NextRecipientIs
    <3> QED BY <1>1, <1>4, <2>3, <3>2, <3>3 DEF StillAhead, Comes
  <2> QED BY <2>1, <2>2, <2>3
<1> QED BY <1>1, <1>3, <1>4

-----------------------------------------------------------------------------
\* Advisers, the clock.

LEMMA Together ==
  ASSUME Types', Issued', Alone', Unsent', DueStands', OneMorning', Covering',
         MailedIsRecorded', OnceEach', CompleteSweepCovers'
  PROVE  IInv'
BY DEF IInv

\* The sweeps stay where they are.
LEMMA SweepsStay ==
  ASSUME IInv, UNCHANGED sweep, \A v \in Visas: visa'[v].row = "absent" => visa[v].row = "absent",
         history.overlap' = history.overlap
  PROVE  /\ sweep' \in [Sweeps -> Locals] /\ \A s \in Sweeps: LocalOK(sweep'[s])
         /\ Alone' /\ \A s \in Sweeps: Known(sweep[s])'
<1>1. sweep' \in [Sweeps -> Locals] /\ \A s \in Sweeps: LocalOK(sweep'[s])
  BY DEF IInv, Types, LocalOK
<1>2. Alone'
  BY DEF IInv, Alone, Running
<1>3. \A s \in Sweeps: Known(sweep[s])'
  BY DEF IInv, Types, Issued, Known, LocalOK, Locals
<1> QED BY <1>1, <1>2, <1>3

\* Nobody is at work.
LEMMA Quiet ==
  ASSUME IInv, Running = {}
  PROVE  \A s \in Sweeps: sweep[s].at = "idle" /\ ~sweep[s].cron
BY DEF IInv, OneMorning, Running

LEMMA IssueVisaStep ==
  ASSUME IInv, NEW v \in Visas, NEW day \in EndDays, IssueVisa(v, day)
  PROVE  IInv'
<1>1. /\ Running = {} /\ visa[v].row = "absent" /\ day \in Nat
      /\ visa' = [visa EXCEPT ![v] = [row |-> "live", ends |-> day]]
      /\ UNCHANGED <<today, ledger, mailed, sweep, cron, history>>
  BY ReminderAssumption DEF IssueVisa
<1>2. /\ visa \in [Visas -> [row: {"absent", "live", "deleted"}, ends: Nat]]
      /\ \A w \in Visas \ {v}: visa'[w] = visa[w]
      /\ visa'[v].row = "live"
  BY <1>1 DEF IInv, Types, TypeOK
<1>3. \A s \in Sweeps: sweep[s].at = "idle" /\ ~sweep[s].cron
  BY <1>1, Quiet
<1>4. /\ sweep' \in [Sweeps -> Locals] /\ \A s \in Sweeps: LocalOK(sweep'[s])
      /\ Alone' /\ \A s \in Sweeps: Known(sweep[s])'
  BY <1>1, <1>2, SweepsStay
<1>5. \A k \in Keys: k[1] \in Visas
  BY DEF Keys
<1>6. Types'
  BY <1>1, <1>2, <1>4 DEF IInv, Types, TypeOK, History
<1>7. \A k \in Keys: k[1] = v => mailed[k].times = 0
  BY <1>1 DEF IInv, Issued
<1>8. Issued'
  BY <1>1, <1>2, <1>4, <1>5 DEF IInv, Issued
<1>9. Unsent' /\ OneMorning' /\ Covering'
  BY <1>1, <1>3 DEF IInv, Unsent, OneMorning, Covering
<1>10. DueStands'
  <2>1. \A k \in history.due: k \in Keys /\ k[1] # v
    BY <1>1 DEF IInv, Types, DueStands, Live
  <2> QED BY <1>1, <1>2, <1>5, <2>1 DEF IInv, DueStands, Live
<1>11. \A k \in Keys: Live(k[1])' => Live(k[1]) \/ mailed[k].times = 0
  BY <1>2, <1>5, <1>7 DEF Live
<1>12. MailedIsRecorded'
  <2> SUFFICES ASSUME ~history.died, NEW k \in Keys, Live(k[1])', mailed[k].times > 0
               PROVE  ledger[k] # "none" \/ \E s \in Sweeps: sweep[s].at = "record" /\ Key(s) = k
    BY <1>1 DEF MailedIsRecorded, Key, Recipient
  <2> QED BY <1>11 DEF IInv, MailedIsRecorded
<1>13. OnceEach'
  BY <1>1, <1>11 DEF IInv, OnceEach
<1>14. CompleteSweepCovers'
  BY <1>1 DEF IInv, CompleteSweepCovers
<1> QED BY <1>4, <1>6, <1>8, <1>9, <1>10, <1>12, <1>13, <1>14, Together

\* A correction or a revert: fewer reminders are due, fewer visas are live.
LEMMA Corrected ==
  ASSUME IInv, NEW v \in Visas, UNCHANGED <<today, mailed, sweep, cron>>,
         visa' \in [Visas -> [row: {"absent", "live", "deleted"}, ends: Nat]],
         \A w \in Visas \ {v}: visa'[w] = visa[w],
         Live(v), visa'[v].row \in {"live", "deleted"},
         ledger' \in [Keys -> {"none", "SENT", "FAILED"}],
         \A k \in Keys: k[1] # v => ledger'[k] = ledger[k],
         visa'[v].row = "live" => ledger' = ledger,
         history' = [history EXCEPT !.edits = history.edits + 1, !.due = NoLongerDue(v)]
  PROVE  IInv'
<1>1. /\ history'.overlap = history.overlap /\ history'.died = history.died
      /\ history'.due = NoLongerDue(v) /\ history' = History'
  <2>1. history = History
    BY DEF IInv, Types
  <2> QED BY <2>1 DEF History
<1>2. \A k \in Keys: k[1] \in Visas
  BY DEF Keys
<1>3. history'.due \subseteq history.due /\ \A k \in history'.due: k \in Keys /\ k[1] # v
  BY <1>1 DEF NoLongerDue, IInv, Types
<1>4. /\ sweep' \in [Sweeps -> Locals] /\ \A s \in Sweeps: LocalOK(sweep'[s])
      /\ Alone' /\ \A s \in Sweeps: Known(sweep[s])'
  BY <1>1, SweepsStay
<1>5. Types'
  BY <1>1, <1>3, <1>4 DEF IInv, Types, TypeOK
<1>6. Issued'
  BY <1>2, <1>4 DEF IInv, Issued, Live
<1>7. \A w \in Visas: Live(w)' => Live(w)
  BY DEF Live
<1>8. Unsent'
  <2> SUFFICES ASSUME ~history.overlap, ~history.died, NEW s \in Sweeps, sweep[s].at = "send",
                      Live(sweep[s].visa)'
               PROVE  mailed[Key(s)].times = 0
    BY <1>1 DEF Unsent, Key, Recipient
  <2>1. sweep[s].visa \in Visas
    BY DEF IInv, Types, LocalOK, AtWork
  <2> QED BY <1>7, <2>1 DEF IInv, Unsent
<1>9. DueStands'
  BY <1>2, <1>3 DEF IInv, DueStands, Live
<1>10. OneMorning'
  BY DEF IInv, OneMorning
<1>11. Covering'
  BY <1>3 DEF IInv, Covering
<1>12. MailedIsRecorded'
  <2> SUFFICES ASSUME ~history.died, NEW k \in Keys, Live(k[1])', mailed[k].times > 0
               PROVE  ledger'[k] # "none" \/ \E s \in Sweeps: sweep[s].at = "record" /\ Key(s) = k
    BY <1>1 DEF MailedIsRecorded, Key, Recipient
  <2>1. Live(k[1]) /\ ledger'[k] = ledger[k]
    BY <1>2, <1>7 DEF Live
  <2> QED BY <2>1 DEF IInv, MailedIsRecorded
<1>13. OnceEach'
  BY <1>1, <1>2, <1>7 DEF IInv, OnceEach
<1>14. CompleteSweepCovers'
  BY <1>3 DEF IInv, CompleteSweepCovers
<1> QED BY <1>4, <1>5, <1>6, <1>8, <1>9, <1>10, <1>11, <1>12, <1>13, <1>14, Together

LEMMA EditVisaEndStep ==
  ASSUME IInv, NEW v \in Visas, NEW day \in EndDays, EditVisaEnd(v, day)
  PROVE  IInv'
<1>1. /\ Live(v) /\ visa' = [visa EXCEPT ![v].ends = day] /\ day \in Nat
      /\ history' = [history EXCEPT !.edits = history.edits + 1, !.due = NoLongerDue(v)]
      /\ UNCHANGED <<today, ledger, mailed, sweep, cron>>
  BY ReminderAssumption DEF EditVisaEnd
<1>2. /\ visa \in [Visas -> [row: {"absent", "live", "deleted"}, ends: Nat]]
      /\ ledger \in [Keys -> {"none", "SENT", "FAILED"}]
  BY DEF IInv, Types, TypeOK
<1>3. /\ visa' \in [Visas -> [row: {"absent", "live", "deleted"}, ends: Nat]]
      /\ \A w \in Visas \ {v}: visa'[w] = visa[w]
      /\ visa'[v].row = "live"
  BY <1>1, <1>2 DEF Live
<1> QED BY <1>1, <1>2, <1>3, Corrected

LEMMA RevertVisaStep ==
  ASSUME IInv, NEW v \in Visas, RevertVisa(v)
  PROVE  IInv'
<1>1. /\ Live(v) /\ visa' = [visa EXCEPT ![v].row = "deleted"]
      /\ ledger' = [k \in Keys |-> IF k[1] = v THEN "none" ELSE ledger[k]]
      /\ history' = [history EXCEPT !.edits = history.edits + 1, !.due = NoLongerDue(v)]
      /\ UNCHANGED <<today, mailed, sweep, cron>>
  BY DEF RevertVisa
<1>2. /\ visa \in [Visas -> [row: {"absent", "live", "deleted"}, ends: Nat]]
      /\ ledger \in [Keys -> {"none", "SENT", "FAILED"}]
  BY DEF IInv, Types, TypeOK
<1>3. /\ visa' \in [Visas -> [row: {"absent", "live", "deleted"}, ends: Nat]]
      /\ \A w \in Visas \ {v}: visa'[w] = visa[w]
      /\ visa'[v].row = "deleted"
  BY <1>1, <1>2
<1>4. /\ ledger' \in [Keys -> {"none", "SENT", "FAILED"}]
      /\ \A k \in Keys: k[1] # v => ledger'[k] = ledger[k]
  BY <1>1, <1>2
<1> QED BY <1>1, <1>3, <1>4, Corrected

LEMMA MissTickStep == IInv /\ MissTick => IInv'
<1> SUFFICES ASSUME IInv, MissTick PROVE IInv'
  OBVIOUS
<1>1. /\ cron = "due" /\ cron' = "missed"
      /\ history' = [history EXCEPT !.failures = history.failures + 1]
      /\ UNCHANGED <<today, visa, ledger, mailed, sweep>>
  BY DEF MissTick
<1>2. /\ history'.overlap = history.overlap /\ history'.died = history.died
      /\ history'.due = history.due /\ history' = History'
  <2>1. history = History
    BY DEF IInv, Types
  <2> QED BY <1>1, <2>1 DEF History
<1>3. /\ sweep' \in [Sweeps -> Locals] /\ \A s \in Sweeps: LocalOK(sweep'[s])
      /\ Alone' /\ \A s \in Sweeps: Known(sweep[s])'
  BY <1>1, <1>2, SweepsStay
<1>4. Types' /\ Issued' /\ DueStands'
  BY <1>1, <1>2, <1>3 DEF IInv, Types, TypeOK, Issued, DueStands, Live
<1>5. Unsent' /\ MailedIsRecorded' /\ OnceEach'
  BY <1>1, <1>2 DEF IInv, Unsent, MailedIsRecorded, OnceEach, Live, Key, Recipient
<1>6. OneMorning' /\ Covering' /\ CompleteSweepCovers'
  BY <1>1, <1>2 DEF IInv, OneMorning, Covering, CompleteSweepCovers
<1> QED BY <1>3, <1>4, <1>5, <1>6, Together

LEMMA NextDayStep == IInv /\ NextDay => IInv'
<1> SUFFICES ASSUME IInv, NextDay PROVE IInv'
  OBVIOUS
<1>1. /\ today < LastDay /\ today' = today + 1 /\ Running = {} /\ cron' = "due"
      /\ history' = [history EXCEPT !.due = {}]
      /\ UNCHANGED <<visa, ledger, mailed, sweep>>
  BY DEF NextDay
<1>2. /\ history'.overlap = history.overlap /\ history'.died = history.died
      /\ history'.due = {} /\ history' = History'
  <2>1. history = History
    BY DEF IInv, Types
  <2> QED BY <1>1, <2>1 DEF History
<1>3. /\ sweep' \in [Sweeps -> Locals] /\ \A s \in Sweeps: LocalOK(sweep'[s])
      /\ Alone' /\ \A s \in Sweeps: Known(sweep[s])'
  BY <1>1, <1>2, SweepsStay
<1>4. \A s \in Sweeps: sweep[s].at = "idle" /\ ~sweep[s].cron
  BY <1>1, Quiet
<1>5. today' \in 0..LastDay
  BY <1>1, ReminderAssumption DEF IInv, Types, TypeOK
<1>6. Types' /\ Issued' /\ DueStands'
  BY <1>1, <1>2, <1>3, <1>5 DEF IInv, Types, TypeOK, Issued, DueStands
<1>7. Unsent' /\ MailedIsRecorded' /\ OnceEach'
  BY <1>1, <1>2 DEF IInv, Unsent, MailedIsRecorded, OnceEach, Live, Key, Recipient
<1>8. OneMorning' /\ Covering' /\ CompleteSweepCovers'
  BY <1>1, <1>2, <1>4 DEF OneMorning, Covering, CompleteSweepCovers
<1> QED BY <1>3, <1>6, <1>7, <1>8, Together

-----------------------------------------------------------------------------
\* Sweeps.

\* One sweep goes on, or ends, and the visas stay as they are.
LEMMA OneMoves ==
  ASSUME IInv, NEW s \in Sweeps, NEW n, sweep' = [sweep EXCEPT ![s] = n], LocalOK(n), Known(n),
         UNCHANGED <<today, visa>>, sweep[s].at # "idle", n.cron => sweep[s].cron,
         history'.overlap = history.overlap, history'.due = history.due
  PROVE  /\ sweep'[s] = n /\ \A t \in Sweeps \ {s}: sweep'[t] = sweep[t]
         /\ sweep' \in [Sweeps -> Locals] /\ \A t \in Sweeps: LocalOK(sweep'[t])
         /\ \A t \in Sweeps: Known(sweep[t])'
         /\ Alone' /\ DueStands'
<1>1. sweep \in [Sweeps -> Locals] /\ n \in Locals
  BY DEF IInv, Types, LocalOK
<1>2. sweep'[s] = n /\ \A t \in Sweeps \ {s}: sweep'[t] = sweep[t]
  BY <1>1
<1>3. sweep' \in [Sweeps -> Locals] /\ \A t \in Sweeps: LocalOK(sweep'[t])
  BY <1>1, <1>2 DEF IInv, Types
<1>4. \A t \in Sweeps: Known(sweep[t])'
  BY <1>2 DEF IInv, Issued, Known
<1>5. Alone'
  BY <1>2 DEF IInv, Alone, Running
<1>6. DueStands'
  BY DEF IInv, DueStands, Live
<1> QED BY <1>2, <1>3, <1>4, <1>5, <1>6

\* While a sweep that is alone is at work, no other one is.
LEMMA Lonely ==
  ASSUME IInv, ~history.overlap, NEW s \in Sweeps, sweep[s].at # "idle",
         NEW t \in Sweeps, sweep[t].at # "idle"
  PROVE  s = t
BY DEF IInv, Alone, Running

LEMMA SameHistory ==
  ASSUME IInv, UNCHANGED history
  PROVE  history' = History' /\ history'.due \subseteq Keys
BY DEF IInv, Types, History

\* What a local state is at.
LEMMA KeyIs == \A s: Key(s) = KeyOf(sweep[s])
BY DEF Key, KeyOf, Recipient

LEMMA HereKnown ==
  ASSUME IInv, NEW s \in Sweeps
  PROVE  /\ sweep[s] \in Locals /\ LocalOK(sweep[s]) /\ Known(sweep[s])
         /\ sweep[s].at \in AtWork => Key(s) \in Keys /\ Key(s)[1] = sweep[s].visa
BY KeyIsKey, KeyIs DEF IInv, Types, Issued

\* A sweep begins.
LEMMA BeginStep ==
  ASSUME IInv, NEW s \in Sweeps, NEW n, Begin(s, n),
         n.at = "select", n \in Locals, n.queue = {}, n.next = 1,
         history'.overlap = (history.overlap \/ Running # {}), history'.died = history.died,
         history' = History',
         \/ n.cron = FALSE /\ cron' = cron /\ history'.due = history.due
         \/ n.cron = TRUE /\ cron = "due" /\ cron' = "running" /\ history'.due = DueKeys
  PROVE  IInv'
<1>1. /\ sweep[s].at = "idle" /\ sweep' = [sweep EXCEPT ![s] = n]
      /\ UNCHANGED <<today, visa, ledger, mailed>>
  BY DEF Begin
<1>2. /\ sweep'[s] = n /\ \A t \in Sweeps \ {s}: sweep'[t] = sweep[t]
      /\ sweep' \in [Sweeps -> Locals]
  BY <1>1 DEF IInv, Types
<1>3. LocalOK(n) /\ Known(n)'
  BY DEF LocalOK, Known, AtWork
<1>4. \A t \in Sweeps: LocalOK(sweep'[t])
  BY <1>2, <1>3 DEF IInv, Types
<1>5. \A t \in Sweeps: Known(sweep[t])'
  BY <1>1, <1>2, <1>3 DEF IInv, Issued, Known
<1>6. history'.due \subseteq Keys
  BY DEF IInv, Types, DueKeys
<1>7. Types'
  BY <1>1, <1>2, <1>4, <1>6 DEF IInv, Types, TypeOK
<1>8. Issued'
  BY <1>1, <1>5 DEF IInv, Issued
<1>9. Alone'
  <2> SUFFICES ASSUME ~history'.overlap, NEW p \in Sweeps, NEW q \in Sweeps,
                      sweep'[p].at # "idle", sweep'[q].at # "idle"
               PROVE  p = q
    BY DEF Alone, Running
  <2>1. \A t \in Sweeps: sweep[t].at = "idle"
    BY DEF Running
  <2> QED BY <1>2, <2>1
<1>10. Unsent'
  <2>1. ~history'.overlap => \A t \in Sweeps: sweep'[t].at # "send"
    BY <1>2 DEF Running
  <2> QED BY <2>1 DEF Unsent
<1>11. DueStands'
  BY <1>1 DEF IInv, DueStands, DueKeys, Live
<1>12. OneMorning'
  BY <1>1, <1>2 DEF IInv, OneMorning
<1>13. Covering'
  <2> SUFFICES ASSUME NEW t \in Sweeps, sweep'[t].cron, NEW k \in history'.due, ledger'[k] = "none"
               PROVE  StillAhead(sweep'[t], k)
    BY DEF Covering, StillAhead, Comes
  <2>1. CASE t = s
    <3>1. n.cron /\ cron = "due" /\ k \in Keys
      BY <1>1, <1>2, <1>6, <2>1 DEF IInv, OneMorning
    <3>2. PICK i \in DOMAIN Thresholds: k[2] = Thresholds[i]
      BY <3>1, ThresholdsAhead DEF Keys
    <3>3. i = 1 \/ i > 1
      BY ThresholdsAhead
    <3> QED BY <1>2, <2>1, <3>2, <3>3 DEF StillAhead, Comes
  <2>2. CASE t # s
    BY <1>1, <1>2, <2>2 DEF IInv, OneMorning, Covering
  <2> QED BY <2>1, <2>2
<1>14. MailedIsRecorded'
  <2> SUFFICES ASSUME ~history'.died, NEW k \in Keys, Live(k[1])', mailed'[k].times > 0, ledger'[k] = "none"
               PROVE  \E t \in Sweeps: sweep'[t].at = "record" /\ Key(t)' = k
    BY DEF MailedIsRecorded
  <2>1. PICK t \in Sweeps: sweep[t].at = "record" /\ Key(t) = k
    BY <1>1 DEF IInv, MailedIsRecorded, Live
  <2>2. sweep'[t] = sweep[t]
    BY <1>1, <1>2, <2>1
  <2>3. Key(t)' = k
    BY <2>1, <2>2 DEF Key, Recipient
  <2> QED BY <2>1, <2>2, <2>3
<1>15. OnceEach' /\ CompleteSweepCovers'
  BY <1>1 DEF IInv, OnceEach, CompleteSweepCovers, Live
<1> QED BY <1>7, <1>8, <1>9, <1>10, <1>11, <1>12, <1>13, <1>14, <1>15, Together

Beginning(c) == [at |-> "select", cron |-> c, next |-> 1, queue |-> {}, visa |-> "none", to |-> 1]

LEMMA Starting ==
  /\ \A c: [NoSweep EXCEPT !.at = "select", !.cron = c] = Beginning(c)
  /\ [NoSweep EXCEPT !.at = "select"] = Beginning(FALSE)
<1>1. ASSUME NEW c, NEW n, n = [NoSweep EXCEPT !.at = "select", !.cron = c]
      PROVE  n = Beginning(c)
  BY <1>1 DEF NoSweep, Beginning
<1>2. ASSUME NEW n, n = [NoSweep EXCEPT !.at = "select"]
      PROVE  n = Beginning(FALSE)
  BY <1>2 DEF NoSweep, Beginning
<1> QED BY <1>1, <1>2

LEMMA BeginningIs ==
  ASSUME NEW c \in BOOLEAN
  PROVE  LET n == Beginning(c) IN
         n.at = "select" /\ n \in Locals /\ n.queue = {} /\ n.next = 1 /\ n.cron = c
BY DEF Beginning, Locals

LEMMA RunDailySweepStep ==
  ASSUME IInv, NEW s \in Sweeps, RunDailySweep(s)
  PROVE  IInv'
<1> DEFINE n == [NoSweep EXCEPT !.at = "select", !.cron = TRUE]
<1>1. /\ Begin(s, n) /\ cron = "due" /\ cron' = "running"
      /\ history' = [history EXCEPT !.overlap = history.overlap \/ Running # {}, !.due = DueKeys]
  BY DEF RunDailySweep
<1>2. n.at = "select" /\ n \in Locals /\ n.queue = {} /\ n.next = 1 /\ n.cron = TRUE
  <2>1. n = Beginning(TRUE)
    BY Starting
  <2> QED BY <2>1, BeginningIs
<1> HIDE DEF n
<1>3. /\ history'.overlap = (history.overlap \/ Running # {}) /\ history'.died = history.died
      /\ history'.due = DueKeys /\ history' = History'
  <2>1. history = History
    BY DEF IInv, Types
  <2> QED BY <1>1, <2>1 DEF History
<1> QED BY <1>1, <1>2, <1>3, BeginStep

LEMMA RunSweepNowStep ==
  ASSUME IInv, NEW s \in Sweeps, RunSweepNow(s)
  PROVE  IInv'
<1> DEFINE n == [NoSweep EXCEPT !.at = "select"]
<1>1. /\ Begin(s, n) /\ cron' = cron
      /\ history' = [history EXCEPT !.overlap = history.overlap \/ Running # {},
                                    !.manual = history.manual + 1]
  BY DEF RunSweepNow
<1>2. n.at = "select" /\ n \in Locals /\ n.queue = {} /\ n.next = 1 /\ n.cron = FALSE
  <2>1. n = Beginning(FALSE)
    BY Starting
  <2> QED BY <2>1, BeginningIs
<1> HIDE DEF n
<1>3. /\ history'.overlap = (history.overlap \/ Running # {}) /\ history'.died = history.died
      /\ history'.due = history.due /\ history' = History'
  <2>1. history = History
    BY DEF IInv, Types
  <2> QED BY <1>1, <2>1 DEF History
<1> QED BY <1>1, <1>2, <1>3, BeginStep

\* A sweep that mails nothing goes on, or ends.
LEMMA Advances ==
  ASSUME IInv, NEW s \in Sweeps, NEW n, sweep' = [sweep EXCEPT ![s] = n], LocalOK(n), Known(n),
         UNCHANGED <<today, visa, mailed>>, sweep[s].at # "idle",
         history'.overlap = history.overlap, history'.due = history.due, history' = History',
         history.died => history'.died,
         ledger' \in [Keys -> {"none", "SENT", "FAILED"}],
         \A k \in Keys: ledger[k] # "none" => ledger'[k] # "none",
         n.at = "send" /\ ~history.overlap /\ ~history.died /\ Live(n.visa) => mailed[KeyOf(n)].times = 0,
         sweep[s].at = "record" /\ ~history'.died /\ Live(sweep[s].visa) => ledger'[Key(s)] # "none",
         \/ n.cron = sweep[s].cron /\ n.at # "idle" /\ cron' = cron
         \/ n.cron = FALSE /\ cron' = (IF sweep[s].cron THEN cron' ELSE cron)
            /\ cron' \in {"due", "running", "complete", "aborted", "missed"},
         n.cron => \A k \in history.due:
           StillAhead(sweep[s], k) => StillAhead(n, k) \/ ledger'[k] # "none",
         cron' = "complete" => cron = "complete" \/ \A k \in history.due: ledger'[k] # "none"
  PROVE  IInv'
<1>1. /\ sweep'[s] = n /\ \A t \in Sweeps \ {s}: sweep'[t] = sweep[t]
      /\ sweep' \in [Sweeps -> Locals] /\ \A t \in Sweeps: LocalOK(sweep'[t])
      /\ \A t \in Sweeps: Known(sweep[t])'
      /\ Alone' /\ DueStands'
  BY OneMoves
<1>2. cron' \in {"due", "running", "complete", "aborted", "missed"}
  BY DEF IInv, Types, TypeOK
<1>3. Types'
  BY <1>1, <1>2 DEF IInv, Types, TypeOK
<1>4. Issued'
  BY <1>1 DEF IInv, Issued
<1>5. \A t \in Sweeps \ {s}: Key(t)' = Key(t)
  BY <1>1 DEF Key, Recipient
<1>6. Key(s)' = KeyOf(n)
  BY <1>1 DEF Key, Recipient, KeyOf
<1>7. Unsent'
  <2>1. ASSUME NEW t \in Sweeps, ~history'.overlap, ~history'.died, sweep'[t].at = "send",
               Live(sweep[t].visa)'
        PROVE  mailed'[Key(t)'].times = 0
    <3>1. CASE t = s
      BY <1>1, <1>6, <2>1, <3>1 DEF Live
    <3>2. CASE t # s
      BY <1>1, <1>5, <2>1, <3>2 DEF IInv, Unsent, Live
    <3> QED BY <3>1, <3>2
  <2> QED BY <2>1 DEF Unsent
<1>8. OneMorning'
  BY <1>1 DEF IInv, OneMorning
<1>9. Covering'
  <2>1. ASSUME NEW t \in Sweeps, sweep'[t].cron, NEW k \in history'.due, ledger'[k] = "none"
        PROVE  StillAhead(sweep[t], k)'
    <3>1. k \in history.due /\ k \in Keys /\ ledger[k] = "none"
      BY <2>1 DEF IInv, Types
    <3>2. CASE t = s
      <4>1. StillAhead(sweep[s], k)
        BY <1>1, <2>1, <3>1, <3>2 DEF IInv, Covering
      <4>2. StillAhead(n, k)
        BY <1>1, <2>1, <3>1, <3>2, <4>1
      <4> QED BY <1>1, <3>2, <4>2 DEF StillAhead, Comes
    <3>3. CASE t # s
      <4>1. StillAhead(sweep[t], k)
        BY <1>1, <2>1, <3>1, <3>3 DEF IInv, Covering
      <4> QED BY <1>1, <3>3, <4>1 DEF StillAhead, Comes
    <3> QED BY <3>2, <3>3
  <2> QED BY <2>1 DEF Covering
<1>10. MailedIsRecorded'
  <2>1. ASSUME NEW k \in Keys, ~history'.died, Live(k[1])', mailed'[k].times > 0, ledger'[k] = "none"
        PROVE  \E t \in Sweeps: sweep'[t].at = "record" /\ Key(t)' = k
    <3>1. ledger[k] = "none" /\ Live(k[1])
      BY <2>1 DEF Live
    <3>2. PICK t \in Sweeps: sweep[t].at = "record" /\ Key(t) = k
      BY <2>1, <3>1 DEF IInv, MailedIsRecorded
    <3>3. t # s
      BY <2>1, <3>1, <3>2, HereKnown DEF AtWork
    <3> QED BY <1>1, <1>5, <3>2, <3>3
  <2> QED BY <2>1 DEF MailedIsRecorded
<1>11. OnceEach'
  BY DEF IInv, OnceEach, Live
<1>12. CompleteSweepCovers'
  <2>1. \A k \in history.due: k \in Keys
    BY DEF IInv, Types
  <2> QED BY <2>1 DEF IInv, CompleteSweepCovers
<1> QED BY <1>1, <1>3, <1>4, <1>7, <1>8, <1>9, <1>10, <1>11, <1>12, Together

LEMMA SelectVisasStep ==
  ASSUME IInv, NEW s \in Sweeps, SelectVisas(s)
  PROVE  IInv'
<1>1. sweep[s].at = "select" /\ UNCHANGED <<today, visa, ledger, mailed, history>>
  BY DEF SelectVisas
<1>2. sweep[s] \in Locals /\ sweep[s].next \in Nat \ {0}
  BY HereKnown DEF Locals
<1>3. /\ history'.overlap = history.overlap /\ history'.due = history.due /\ history' = History'
      /\ history'.died = history.died /\ ledger' \in [Keys -> {"none", "SENT", "FAILED"}]
  BY <1>1, SameHistory DEF IInv, Types, TypeOK
<1>4. CASE sweep[s].next > Len(Thresholds)
  <2>1. sweep' = [sweep EXCEPT ![s] = NoSweep] /\ cron' = IF sweep[s].cron THEN "complete" ELSE cron
    BY <1>4 DEF SelectVisas, Stops
  <2>2. Known(NoSweep)
    BY NoSweepOK DEF Known, AtWork
  <2>3. \A k: ~StillAhead(sweep[s], k)
    BY <1>2, <1>4, ThresholdsAhead DEF StillAhead
  <2>4. cron' = "complete" => cron = "complete" \/ \A k \in history.due: ledger'[k] # "none"
    BY <1>1, <2>1, <2>3 DEF IInv, Covering
  <2>5. cron' \in {"due", "running", "complete", "aborted", "missed"}
    BY <2>1 DEF IInv, Types, TypeOK
  <2> QED BY <1>1, <1>3, <2>1, <2>2, <2>4, <2>5, NoSweepOK, Advances
<1>5. CASE ~(sweep[s].next > Len(Thresholds))
  <2> DEFINE due == {v \in Visas: Live(v) /\ visa[v].ends = today + Thresholds[sweep[s].next]}
             l == [sweep[s] EXCEPT !.queue = due]
  <2>1. PICK n \in NextVisa(l): sweep' = [sweep EXCEPT ![s] = n]
    BY <1>5 DEF SelectVisas, Continue
  <2>2. cron' = cron
    BY <1>5 DEF SelectVisas
  <2>3. due \subseteq Visas /\ \A v \in due: visa[v].row # "absent"
    BY DEF Live
  <2>4. \A k \in history.due: k \in Keys /\ (k[2] = Thresholds[sweep[s].next] => k[1] \in due)
    BY DEF IInv, Types, DueStands, Keys
  <2> HIDE DEF due
  <2>5. l \in Locals /\ l.cron = sweep[s].cron /\ l.next = sweep[s].next /\ l.queue = due
    BY <1>2, <2>3 DEF Locals
  <2>6. l.next \in DOMAIN Thresholds
    BY <1>2, <1>5, <2>5, ThresholdsAhead
  <2> HIDE DEF l
  <2>7. /\ LocalOK(n) /\ n.cron = l.cron
        /\ \/ n.at = "select" /\ n.next = l.next + 1 /\ n.queue = {} /\ l.queue = {}
           \/ /\ n.at = "find" /\ n.next = l.next /\ n.visa \in l.queue /\ n.to = 1
              /\ n.queue = l.queue \ {n.visa}
    BY <2>1, <2>5, <2>6, NextVisaIs
  <2>8. Known(n)
    BY <2>3, <2>5, <2>7 DEF Known, AtWork
  <2>9. ASSUME NEW k \in history.due, StillAhead(sweep[s], k) PROVE StillAhead(n, k)
    <3>1. PICK i \in DOMAIN Thresholds: k[2] = Thresholds[i] /\ i >= sweep[s].next
      BY <1>2, <2>9, ThresholdsAhead DEF StillAhead
    <3>2. i \in Nat
      BY ThresholdsAhead
    <3>3. CASE i > l.next
      <4>1. i > n.next \/ (i = n.next /\ n.at = "select")
        BY <1>2, <2>5, <2>7, <3>2, <3>3
      <4> QED BY <3>1, <4>1 DEF StillAhead, Comes
    <3>4. CASE i = l.next
      <4>1. k[1] \in l.queue
        BY <2>4, <2>5, <3>1, <3>4
      <4>2. n.next = l.next /\ (k[1] \in n.queue \/ (k[1] = n.visa /\ n.to = 1))
        BY <2>7, <4>1
      <4>3. \E j \in 1..3: k[3] = Recipients[j]
        BY <2>4, ThreeRecipients DEF Keys
      <4> QED BY <3>1, <3>4, <4>2, <4>3 DEF StillAhead, Comes
    <3> QED BY <1>2, <2>5, <3>1, <3>2, <3>3, <3>4
  <2>10. n.at # "idle" /\ n.at # "send"
    BY <2>7
  <2> QED BY <1>1, <1>3, <2>1, <2>2, <2>5, <2>7, <2>8, <2>9, <2>10, Advances
<1> QED BY <1>4, <1>5

\* The sweep has dealt with a reminder.
LEMMA DealtWith ==
  ASSUME IInv, NEW s \in Sweeps, sweep[s].at \in AtWork, NEW n \in NextRecipient(sweep[s]),
         sweep' = [sweep EXCEPT ![s] = n], UNCHANGED <<today, visa, mailed, history, cron>>,
         ledger' \in [Keys -> {"none", "SENT", "FAILED"}],
         \A k \in Keys: ledger[k] # "none" => ledger'[k] # "none",
         ledger'[Key(s)] # "none"
  PROVE  IInv'
<1> DEFINE l == sweep[s]
<1>1. l \in Locals /\ LocalOK(l) /\ Known(l) /\ l.at \in AtWork
  BY HereKnown
<1>2. /\ LocalOK(n) /\ n.cron = l.cron
      /\ \/ n.at = "select" /\ n.queue = {}
         \/ n.at = "find" /\ n.visa \in l.queue /\ n.queue = l.queue \ {n.visa}
         \/ n.at = "find" /\ n.visa = l.visa /\ n.queue = l.queue
  BY <1>1, NextRecipientIs
<1>3. Known(n) /\ n.at # "idle" /\ n.at # "send" /\ l.at # "idle"
  BY <1>1, <1>2 DEF Known, AtWork
<1>4. ASSUME NEW k \in history.due, StillAhead(l, k) PROVE StillAhead(n, k) \/ ledger'[k] # "none"
  <2>1. k \in Keys
    BY DEF IInv, Types
  <2>2. CASE k = KeyOf(l)
    BY <2>2, KeyIs
  <2>3. CASE k # KeyOf(l)
    BY <1>1, <1>4, <2>1, <2>3, GoingOn
  <2> QED BY <2>2, <2>3
<1>5. history'.overlap = history.overlap /\ history'.due = history.due /\ history' = History'
      /\ history'.died = history.died
  BY SameHistory
<1>6. cron' = "complete" => cron = "complete"
  OBVIOUS
<1> HIDE DEF l
<1> QED BY <1>2, <1>3, <1>4, <1>5, <1>6, Advances DEF l

LEMMA FindReminderStep ==
  ASSUME IInv, NEW s \in Sweeps, FindReminder(s)
  PROVE  IInv'
<1> DEFINE l == sweep[s]
<1>1. l.at = "find" /\ UNCHANGED <<today, visa, ledger, mailed, cron, history>>
  BY DEF FindReminder
<1>2. l \in Locals /\ LocalOK(l) /\ Known(l) /\ l.at \in AtWork /\ Key(s) \in Keys /\ Key(s)[1] = l.visa
  BY <1>1, HereKnown DEF AtWork
<1>3. ledger' \in [Keys -> {"none", "SENT", "FAILED"}]
  BY <1>1 DEF IInv, Types, TypeOK
<1>4. CASE AlreadySent(Key(s))
  <2>1. PICK n \in NextRecipient(l): sweep' = [sweep EXCEPT ![s] = n]
    BY <1>4 DEF FindReminder, Continue
  <2> QED BY <1>1, <1>2, <1>3, <1>4, <2>1, DealtWith DEF AlreadySent
<1>5. CASE ~AlreadySent(Key(s))
  <2>1. PICK n: n = [l EXCEPT !.at = "send"]
    OBVIOUS
  <2>2. sweep' = [sweep EXCEPT ![s] = n]
    BY <1>5, <2>1 DEF FindReminder
  <2>3. /\ n.at = "send" /\ n.cron = l.cron /\ n.next = l.next /\ n.queue = l.queue
        /\ n.visa = l.visa /\ n.to = l.to /\ n \in Locals
    BY <1>2, <2>1 DEF Locals, AtWork
  <2>4. LocalOK(n) /\ Known(n)
    BY <1>2, <2>3 DEF LocalOK, Known
  <2>5. ASSUME ~history.overlap, ~history.died, Live(n.visa) PROVE mailed[KeyOf(n)].times = 0
    <3>1. KeyOf(n) = Key(s)
      BY <2>3, KeyIs DEF KeyOf
    <3>2. ledger[Key(s)] = "none" /\ Live(Key(s)[1])
      BY <1>2, <1>5, <2>3, <2>5 DEF AlreadySent
    <3>3. ASSUME mailed[Key(s)].times > 0 PROVE FALSE
      <4>1. PICK t \in Sweeps: sweep[t].at = "record" /\ Key(t) = Key(s)
        BY <1>2, <2>5, <3>2, <3>3 DEF IInv, MailedIsRecorded
      <4> QED BY <1>1, <2>5, <4>1, Lonely
    <3>4. mailed[Key(s)].times \in 0..2
      BY <1>2 DEF IInv, Types, Mails
    <3> QED BY <3>1, <3>3, <3>4
  <2>6. \A k \in history.due: StillAhead(l, k) => StillAhead(n, k)
    BY <1>1, <2>3 DEF StillAhead, Comes
  <2>7. history'.overlap = history.overlap /\ history'.due = history.due /\ history' = History'
        /\ history'.died = history.died
    BY <1>1, SameHistory
  <2> HIDE DEF l
  <2> QED BY <1>1, <1>3, <2>2, <2>3, <2>4, <2>5, <2>6, <2>7, Advances DEF l
<1> QED BY <1>4, <1>5

LEMMA RecordReminderStep ==
  ASSUME IInv, NEW s \in Sweeps, RecordReminder(s)
  PROVE  IInv'
<1> DEFINE l == sweep[s]
<1>1. l.at = "record" /\ UNCHANGED <<today, visa, mailed, history>>
  BY DEF RecordReminder
<1>2. l \in Locals /\ LocalOK(l) /\ Known(l) /\ l.at \in AtWork /\ Key(s) \in Keys /\ Key(s)[1] = l.visa
  BY <1>1, HereKnown DEF AtWork
<1>3. ledger \in [Keys -> {"none", "SENT", "FAILED"}]
  BY DEF IInv, Types, TypeOK
<1>4. CASE Acceptable(Key(s))
  <2>1. PICK n \in NextRecipient(l): sweep' = [sweep EXCEPT ![s] = n]
    BY <1>4 DEF RecordReminder, Continue
  <2>2. PICK outcome \in {"SENT", "FAILED"}: ledger' = [ledger EXCEPT ![Key(s)] = outcome]
    BY <1>4 DEF RecordReminder, Delivery
  <2>3. cron' = cron
    BY <1>4 DEF RecordReminder
  <2>4. /\ ledger' \in [Keys -> {"none", "SENT", "FAILED"}]
        /\ \A k \in Keys: ledger[k] # "none" => ledger'[k] # "none"
        /\ ledger'[Key(s)] # "none"
    BY <1>2, <1>3, <2>2
  <2> QED BY <1>1, <1>2, <2>1, <2>3, <2>4, DealtWith
<1>5. CASE ~Acceptable(Key(s))
  <2>1. /\ sweep' = [sweep EXCEPT ![s] = NoSweep] /\ cron' = IF l.cron THEN "aborted" ELSE cron
        /\ ledger' = ledger
    BY <1>5 DEF RecordReminder, Stops
  <2>2. Known(NoSweep)
    BY NoSweepOK DEF Known, AtWork
  <2>3. Live(l.visa) => ledger'[Key(s)] # "none"
    BY <1>2, <1>5, <2>1 DEF Acceptable
  <2>4. cron' = "complete" => cron = "complete"
    BY <2>1
  <2>5. cron' \in {"due", "running", "complete", "aborted", "missed"}
    BY <2>1 DEF IInv, Types, TypeOK
  <2>6. history'.overlap = history.overlap /\ history'.due = history.due /\ history' = History'
        /\ history'.died = history.died
    BY <1>1, SameHistory
  <2> QED BY <1>1, <1>3, <2>1, <2>2, <2>3, <2>4, <2>5, <2>6, NoSweepOK, Advances
<1> QED BY <1>4, <1>5

LEMMA SweepDiesStep ==
  ASSUME IInv, NEW s \in Sweeps, SweepDies(s)
  PROVE  IInv'
<1>1. /\ sweep[s].at # "idle" /\ UNCHANGED <<today, visa, ledger, mailed>>
      /\ sweep' = [sweep EXCEPT ![s] = NoSweep] /\ cron' = IF sweep[s].cron THEN "aborted" ELSE cron
      /\ history' = [history EXCEPT !.failures = history.failures + 1, !.died = TRUE]
  BY DEF SweepDies, Stops
<1>2. /\ history'.overlap = history.overlap /\ history'.died
      /\ history'.due = history.due /\ history' = History'
  <2>1. history = History
    BY DEF IInv, Types
  <2> QED BY <1>1, <2>1 DEF History
<1>3. Known(NoSweep)
  BY NoSweepOK DEF Known, AtWork
<1>4. ledger' \in [Keys -> {"none", "SENT", "FAILED"}]
  BY <1>1 DEF IInv, Types, TypeOK
<1>5. cron' \in {"due", "running", "complete", "aborted", "missed"}
      /\ (cron' = "complete" => cron = "complete")
  BY <1>1 DEF IInv, Types, TypeOK
<1> QED BY <1>1, <1>2, <1>3, <1>4, <1>5, NoSweepOK, Advances

\* The e-mail goes out, to those the mail server did not refuse.
LEMMA DispatchOneStep ==
  ASSUME IInv, NEW s \in Sweeps, DispatchOne(s)
  PROVE  IInv'
<1> DEFINE l == sweep[s]
           k0 == Key(s)
<1>1. l.at = "send" /\ UNCHANGED <<today, visa, ledger, cron>>
  BY DEF DispatchOne
<1>2. l \in Locals /\ LocalOK(l) /\ Known(l) /\ l.at \in AtWork /\ k0 \in Keys
      /\ k0[1] = l.visa /\ k0[3] = Recipient(s)
  BY <1>1, HereKnown DEF AtWork, Key
<1>3. PICK reached \in SUBSET Addressees(l.visa, Recipient(s)):
        LET refused == Addressees(l.visa, Recipient(s)) \ reached IN
        /\ history' = [history EXCEPT !.failures = @ + Cardinality(refused)]
        /\ sweep' = [sweep EXCEPT ![s].at = "record"]
        /\ mailed' = [mailed EXCEPT ![k0] =
             [times |-> IF reached # {} /\ @.times < 2 THEN @.times + 1 ELSE @.times,
              to |-> @.to \cup reached,
              about |-> IF reached = {} THEN @.about
                        ELSE @.about \cup {today + Thresholds[l.next]}]]
  BY DEF DispatchOne
<1>4. /\ history'.overlap = history.overlap /\ history'.died = history.died
      /\ history'.due = history.due /\ history' = History'
  <2>1. history = History
    BY DEF IInv, Types
  <2> QED BY <1>3, <2>1 DEF History
<1>5. PICK n: n = [l EXCEPT !.at = "record"]
  OBVIOUS
<1>6. /\ n.at = "record" /\ n.cron = l.cron /\ n.next = l.next /\ n.queue = l.queue
      /\ n.visa = l.visa /\ n.to = l.to /\ n \in Locals
  BY <1>2, <1>5 DEF Locals, AtWork
<1>7. LocalOK(n) /\ Known(n)
  BY <1>1, <1>2, <1>6 DEF LocalOK, Known
<1>8. sweep' = [sweep EXCEPT ![s] = n]
  BY <1>3, <1>5
<1>9. mailed \in [Keys -> Mails] /\ today \in Nat /\ Thresholds[l.next] \in Nat
  BY <1>2, ThresholdsAhead, ReminderAssumption DEF IInv, Types, TypeOK, LocalOK
<1>10. reached \subseteq Addressees(k0[1], k0[3])
  BY <1>2, <1>3
<1>11. Addressees(k0[1], k0[3]) \subseteq Everybody
  BY <1>2 DEF Keys, Addressees, Everybody
<1>12. PICK times, to, about: mailed' = [mailed EXCEPT ![k0] = [times |-> times, to |-> to, about |-> about]]
         /\ times \in 0..2 /\ times <= mailed[k0].times + 1
         /\ to = mailed[k0].to \cup reached /\ about \in SUBSET Nat
  <2> DEFINE times == IF reached # {} /\ mailed[k0].times < 2 THEN mailed[k0].times + 1 ELSE mailed[k0].times
             to == mailed[k0].to \cup reached
             about == IF reached = {} THEN mailed[k0].about
                      ELSE mailed[k0].about \cup {today + Thresholds[l.next]}
  <2>1. mailed' = [mailed EXCEPT ![k0] = [times |-> times, to |-> to, about |-> about]]
    BY <1>3
  <2>2. mailed[k0].times \in 0..2 /\ mailed[k0].about \subseteq Nat
    BY <1>2, <1>9 DEF Mails
  <2>3. times \in 0..2 /\ times <= mailed[k0].times + 1
    BY <2>2
  <2>4. about \in SUBSET Nat
    BY <1>9, <2>2
  <2> HIDE DEF times, to, about
  <2> QED BY <2>1, <2>3, <2>4 DEF to
<1>13. /\ mailed'[k0] = [times |-> times, to |-> to, about |-> about]
       /\ \A k \in Keys \ {k0}: mailed'[k] = mailed[k]
  BY <1>2, <1>9, <1>12
<1>14. to \subseteq Addressees(k0[1], k0[3])
  BY <1>2, <1>10, <1>12 DEF IInv, Types, TypeOK
<1>15. mailed' \in [Keys -> Mails]
  BY <1>9, <1>11, <1>12, <1>14 DEF Mails
<1>16. \A k \in Keys: mailed'[k].times \in 0..2 /\ mailed'[k].to \subseteq Addressees(k[1], k[3])
  BY <1>12, <1>13, <1>14 DEF IInv, Types, TypeOK
<1> HIDE DEF k0, l
<1>17. /\ sweep'[s] = n /\ \A t \in Sweeps \ {s}: sweep'[t] = sweep[t]
       /\ sweep' \in [Sweeps -> Locals] /\ \A t \in Sweeps: LocalOK(sweep'[t])
       /\ \A t \in Sweeps: Known(sweep[t])'
       /\ Alone' /\ DueStands'
  BY <1>1, <1>4, <1>6, <1>7, <1>8, OneMoves DEF l
<1>18. Types'
  BY <1>1, <1>4, <1>15, <1>16, <1>17 DEF IInv, Types, TypeOK
<1>19. visa[k0[1]].row # "absent"
  BY <1>2 DEF Known
<1>20. Issued'
  BY <1>1, <1>13, <1>17, <1>19 DEF IInv, Issued
<1>21. /\ \A t \in Sweeps \ {s}: Key(t)' = Key(t)
       /\ Key(s)' = k0
  BY <1>6, <1>17 DEF Key, Recipient, k0, l
<1>22. Unsent'
  <2>1. ASSUME NEW t \in Sweeps, ~history.overlap, sweep'[t].at = "send" PROVE FALSE
    <3>1. t # s
      BY <1>6, <1>17, <2>1
    <3>2. sweep[t].at = "send" /\ sweep[s].at = "send"
      BY <1>1, <1>17, <2>1, <3>1 DEF l
    <3> QED BY <2>1, <3>1, <3>2, Lonely
  <2> QED BY <1>4, <2>1 DEF Unsent
<1>23. OneMorning'
  BY <1>1, <1>6, <1>17 DEF IInv, OneMorning, l
<1>24. Covering'
  <2>1. ASSUME NEW t \in Sweeps, sweep'[t].cron, NEW k \in history'.due, ledger'[k] = "none"
        PROVE  StillAhead(sweep[t], k)'
    <3>1. sweep[t].cron /\ k \in history.due /\ ledger[k] = "none"
      BY <1>1, <1>4, <1>6, <1>17, <2>1 DEF l
    <3>2. StillAhead(sweep[t], k)
      BY <3>1 DEF IInv, Covering
    <3>3. CASE t = s
      BY <1>1, <1>6, <1>17, <3>2, <3>3 DEF StillAhead, Comes, l
    <3>4. CASE t # s
      BY <1>17, <3>2, <3>4 DEF StillAhead, Comes
    <3> QED BY <3>3, <3>4
  <2> QED BY <2>1 DEF Covering
<1>25. MailedIsRecorded'
  <2>1. ASSUME NEW k \in Keys, ~history.died, Live(k[1])', mailed'[k].times > 0, ledger'[k] = "none"
        PROVE  \E t \in Sweeps: sweep'[t].at = "record" /\ Key(t)' = k
    <3>1. CASE k = k0
      BY <1>6, <1>17, <1>21, <3>1
    <3>2. CASE k # k0
      <4>1. mailed[k].times > 0 /\ Live(k[1]) /\ ledger[k] = "none"
        BY <1>1, <1>13, <2>1, <3>2 DEF Live
      <4>2. PICK t \in Sweeps: sweep[t].at = "record" /\ Key(t) = k
        BY <2>1, <4>1 DEF IInv, MailedIsRecorded
      <4> QED BY <1>1, <1>17, <1>21, <4>2 DEF l
    <3> QED BY <3>1, <3>2
  <2> QED BY <1>4, <2>1 DEF MailedIsRecorded
<1>26. OnceEach'
  <2>1. ASSUME NEW k \in Keys, ~history.overlap, ~history.died, Live(k[1])' PROVE mailed'[k].times <= 1
    <3>1. CASE k = k0
      <4>1. mailed[k0].times = 0
        BY <1>1, <1>2, <2>1, <3>1 DEF IInv, Unsent, Live, k0, l
      <4> QED BY <1>12, <1>13, <3>1, <4>1
    <3>2. CASE k # k0
      BY <1>1, <1>13, <2>1, <3>2 DEF IInv, OnceEach, Live
    <3> QED BY <3>1, <3>2
  <2> QED BY <1>4, <2>1 DEF OnceEach
<1>27. CompleteSweepCovers'
  BY <1>1, <1>4 DEF IInv, CompleteSweepCovers
<1> QED BY <1>17, <1>18, <1>20, <1>22, <1>23, <1>24, <1>25, <1>26, <1>27, Together

-----------------------------------------------------------------------------
LEMMA InitInv == Init => IInv
<1> SUFFICES ASSUME Init PROVE IInv
  OBVIOUS
<1>1. \A s \in Sweeps: sweep[s] = NoSweep
  BY DEF Init
<1>2. /\ history.overlap = FALSE /\ history.died = FALSE /\ history.due = {} /\ history = History
  BY DEF Init, History
<1>3. TypeOK
  <2>1. today \in 0..LastDay /\ cron \in {"due", "running", "complete", "aborted", "missed"}
    BY ReminderAssumption DEF Init
  <2>2. visa \in [Visas -> [row: {"absent", "live", "deleted"}, ends: Nat]]
    BY DEF Init, Absent
  <2>3. ledger \in [Keys -> {"none", "SENT", "FAILED"}]
    BY DEF Init
  <2>4. \A k \in Keys: mailed[k].times \in 0..2 /\ mailed[k].to \subseteq Addressees(k[1], k[3])
    BY DEF Init
  <2> QED BY <2>1, <2>2, <2>3, <2>4 DEF TypeOK
<1>4. mailed \in [Keys -> Mails]
  BY DEF Init, Mails
<1>5. sweep \in [Sweeps -> Locals]
  BY NoSweepOK DEF Init, LocalOK
<1>6. Types
  BY <1>1, <1>2, <1>3, <1>4, <1>5, NoSweepOK DEF Types
<1>7. \A k \in Keys: mailed[k].times = 0
  BY DEF Init
<1>8. Issued
  BY <1>1, <1>7, NoSweepOK DEF Issued, Known, AtWork
<1>9. Alone /\ Unsent /\ OneMorning /\ Covering
  BY <1>1, NoSweepOK DEF Alone, Running, Unsent, OneMorning, Covering
<1>10. DueStands /\ CompleteSweepCovers
  BY <1>2 DEF DueStands, CompleteSweepCovers
<1>11. MailedIsRecorded /\ OnceEach
  BY <1>7 DEF MailedIsRecorded, OnceEach
<1> QED BY <1>6, <1>8, <1>9, <1>10, <1>11 DEF IInv

LEMMA NextInv == IInv /\ [Next]_vars => IInv'
<1> SUFFICES ASSUME IInv, [Next]_vars PROVE IInv'
  OBVIOUS
<1>1. ASSUME NEW v \in Visas,
             \/ \E day \in EndDays: IssueVisa(v, day) \/ EditVisaEnd(v, day)
             \/ RevertVisa(v)
      PROVE  IInv'
  BY <1>1, IssueVisaStep, EditVisaEndStep, RevertVisaStep
<1>2. ASSUME NEW s \in Sweeps,
             \/ RunDailySweep(s) \/ RunSweepNow(s) \/ SelectVisas(s)
             \/ FindReminder(s) \/ DispatchOne(s) \/ RecordReminder(s) \/ SweepDies(s)
      PROVE  IInv'
  BY <1>2, RunDailySweepStep, RunSweepNowStep, SelectVisasStep, FindReminderStep,
     DispatchOneStep, RecordReminderStep, SweepDiesStep
<1>3. CASE MissTick \/ NextDay
  BY <1>3, MissTickStep, NextDayStep
<1>4. CASE UNCHANGED vars
  BY <1>4 DEF vars, IInv, Types, TypeOK, LocalOK, History, Issued, Known, Alone, Running, Unsent,
       DueStands, OneMorning, Covering, StillAhead, Comes, MailedIsRecorded, OnceEach,
       CompleteSweepCovers, Live, Key, Recipient
<1> QED BY <1>1, <1>2, <1>3, <1>4 DEF Next

\* The inductive invariant.
THEOREM Invariant == Spec => []IInv
BY InitInv, NextInv, PTL DEF Spec

\* Rows, ledger and mail counts are well formed, and nobody but a reminder's
\* own addressees is written to about it.
THEOREM TypeCorrect == Spec => []TypeOK
<1>1. IInv => TypeOK
  BY DEF IInv, Types
<1> QED BY <1>1, Invariant, PTL

\* Unless a sweep died, every e-mail that went out about a visa on record has
\* its row in the ledger, or the sweep that sent it is about to write it:
\* overlapping sweeps that abort each other on the unique key lose none.
THEOREM MailIsOnRecord == Spec => []MailedIsRecorded
<1>1. IInv => MailedIsRecorded
  BY DEF IInv
<1> QED BY <1>1, Invariant, PTL

\* As long as no sweep died and no two ran at once, nobody is written to twice
\* under one key, however often the sweep is started: it finds its own rows.
THEOREM NobodyIsWrittenTwice == Spec => []OnceEach
<1>1. IInv => OnceEach
  BY DEF IInv
<1> QED BY <1>1, Invariant, PTL

\* A morning sweep that came to its end has left a row for every reminder that
\* was due when it began and still is, whatever the other sweeps did.
THEOREM MorningCovers == Spec => []CompleteSweepCovers
<1>1. IInv => CompleteSweepCovers
  BY DEF IInv
<1> QED BY <1>1, Invariant, PTL

-----------------------------------------------------------------------------
\* The antivirus sweep, for any documents, ticks and size of the batch.

Documented ==
  /\ doc = [d \in Documents |-> [status |-> doc[d].status, scan |-> doc[d].scan,
                                 attempts |-> doc[d].attempts]]
  /\ object = [d \in Documents |-> object[d]]
  /\ tick = [t \in Ticks |-> [at |-> tick[t].at, now |-> tick[t].now, rest |-> tick[t].rest]]

\* A document stands once in the order of creation.
InOrder ==
  /\ created \in Seq(Documents)
  /\ \A n \in DOMAIN created: doc[created[n]].status # "none"
  /\ \A m, n \in DOMAIN created: created[m] = created[n] => m = n

\* The batch of the tick that runs: every document once, and none has a verdict.
OneTick == \A t, u \in Ticks: tick[t].at # "idle" /\ tick[u].at # "idle" => t = u
BatchOK(t) ==
  /\ tick[t].now \notin tick[t].rest
  /\ \A x \in tick[t].rest \cup {tick[t].now}:
       x.id \in Documents /\ doc[x.id].scan \in Unresolved
  /\ \A x, y \in tick[t].rest \cup {tick[t].now}: x.id = y.id => x = y
BatchesOK == \A t \in Ticks: tick[t].at # "idle" => BatchOK(t)

\* What was fetched clean is clean until it is put into again.
FetchedClean ==
  \A t \in Ticks: tick[t].at \in {"clean", "writeClean"} => AsRead(Current(t))

ScanInv == Documented /\ InOrder /\ OneTick /\ BatchesOK /\ FetchedClean /\ CleanWasScanned

LEMMA ScanTogether ==
  ASSUME Documented', InOrder', OneTick', BatchesOK', FetchedClean', CleanWasScanned'
  PROVE  ScanInv'
BY DEF ScanInv

\* What the client does to rows and objects.
LEMMA ClientWrites ==
  ASSUME ScanInv, NEW d \in Documents,
         \/ RequestUpload(d) \/ Put(d) \/ UrlExpires(d) \/ ConfirmUpload(d)
         \/ DeleteObject(d) \/ DeleteRow(d) \/ DeleteDies(d)
  PROVE  /\ UNCHANGED tick
         /\ \/ UNCHANGED <<doc, created>>
            \/ /\ UNCHANGED created
               /\ \E status \in {"UPLOADED", "deleted"}: doc' = [doc EXCEPT ![d].status = status]
            \/ /\ doc[d].status = "none" /\ created' = Append(created, d)
               /\ doc' = [doc EXCEPT ![d].status = "PENDING"]
         /\ \/ UNCHANGED <<object, unseen>>
            \/ /\ unseen' = unseen \cup {d}
               /\ \E content: object' = [object EXCEPT ![d] = content]
            \/ object' = [object EXCEPT ![d] = "deleted"] /\ UNCHANGED unseen
BY DEF RequestUpload, Put, UrlExpires, ConfirmUpload, DeleteObject, DeleteRow,
       DeleteDies

LEMMA ClientStep ==
  ASSUME ScanInv, NEW d \in Documents,
         \/ RequestUpload(d) \/ Put(d) \/ UrlExpires(d) \/ ConfirmUpload(d)
         \/ DeleteObject(d) \/ DeleteRow(d) \/ DeleteDies(d)
  PROVE  ScanInv' /\ \A e \in Documents: doc'[e].scan = doc[e].scan
<1>1. /\ UNCHANGED tick /\ Documented
      /\ \/ UNCHANGED <<doc, created>>
         \/ /\ UNCHANGED created
            /\ \E status \in {"UPLOADED", "deleted"}: doc' = [doc EXCEPT ![d].status = status]
         \/ /\ doc[d].status = "none" /\ created' = Append(created, d)
            /\ doc' = [doc EXCEPT ![d].status = "PENDING"]
      /\ \/ UNCHANGED <<object, unseen>>
         \/ /\ unseen' = unseen \cup {d}
            /\ \E content: object' = [object EXCEPT ![d] = content]
         \/ object' = [object EXCEPT ![d] = "deleted"] /\ UNCHANGED unseen
  BY ClientWrites DEF ScanInv
<1>2. ASSUME NEW status, doc' = [doc EXCEPT ![d].status = status]
      PROVE  /\ doc' = [e \in Documents |-> [status |-> doc'[e].status, scan |-> doc'[e].scan,
                                             attempts |-> doc'[e].attempts]]
             /\ doc'[d].status = status /\ \A e \in Documents \ {d}: doc'[e].status = doc[e].status
             /\ \A e \in Documents: doc'[e].scan = doc[e].scan
  <2>1. PICK new: doc' = [doc EXCEPT ![d] = new] /\ new = [doc[d] EXCEPT !.status = status]
    BY <1>2
  <2>2. doc[d] = [status |-> doc[d].status, scan |-> doc[d].scan, attempts |-> doc[d].attempts]
    BY <1>1 DEF Documented
  <2>3. new = [status |-> status, scan |-> doc[d].scan, attempts |-> doc[d].attempts]
    BY <2>1, <2>2
  <2>4. DOMAIN doc = Documents /\ DOMAIN doc' = Documents
    BY <1>1, <2>1 DEF Documented
  <2>5. doc'[d] = new /\ \A e \in Documents \ {d}: doc'[e] = doc[e]
    BY <2>1, <2>4
  <2>6. \A e \in Documents:
          doc[e] = [status |-> doc[e].status, scan |-> doc[e].scan, attempts |-> doc[e].attempts]
    BY <1>1 DEF Documented
  <2>7. \A e \in Documents:
          doc'[e] = [status |-> doc'[e].status, scan |-> doc'[e].scan, attempts |-> doc'[e].attempts]
    BY <2>3, <2>5, <2>6
  <2>8. doc' = [e \in Documents |-> doc'[e]]
    BY <2>1, <2>4
  <2> QED BY <2>3, <2>5, <2>7, <2>8
<1>3. /\ doc' = [e \in Documents |-> [status |-> doc'[e].status, scan |-> doc'[e].scan,
                                      attempts |-> doc'[e].attempts]]
      /\ \A e \in Documents: doc'[e].scan = doc[e].scan
      /\ \A e \in Documents: doc[e].status # "none" => doc'[e].status # "none"
  BY <1>1, <1>2 DEF Documented
<1>4. /\ object' = [e \in Documents |-> object'[e]]
      /\ \A e \in Documents: AsRead(e) => AsRead(e)'
  <2>1. ASSUME NEW content, object' = [object EXCEPT ![d] = content]
        PROVE  /\ object' = [e \in Documents |-> object'[e]] /\ object'[d] = content
               /\ \A e \in Documents \ {d}: object'[e] = object[e]
    BY <1>1, <2>1 DEF Documented
  <2> QED BY <1>1, <2>1 DEF Documented, AsRead
<1>5. InOrder'
  <2>1. CASE UNCHANGED created
    BY <1>3, <2>1 DEF ScanInv, InOrder
  <2>2. CASE doc[d].status = "none" /\ created' = Append(created, d) /\ doc' = [doc EXCEPT ![d].status = "PENDING"]
    <3>1. /\ created \in Seq(Documents) /\ Len(created) \in Nat
          /\ \A n \in 1..Len(created): created[n] # d
          /\ \A m, n \in 1..Len(created): created[m] = created[n] => m = n
      BY <2>2 DEF ScanInv, InOrder
    <3>2. /\ created' \in Seq(Documents) /\ Len(created') = Len(created) + 1
          /\ \A n \in 1..Len(created): created'[n] = created[n]
          /\ created'[Len(created) + 1] = d
      BY <2>2, <3>1
    <3>3. \A n \in 1..(Len(created) + 1): n \in 1..Len(created) \/ n = Len(created) + 1
      BY <3>1
    <3>4. doc'[d].status # "none"
      <4>1. PICK status: status = "PENDING" /\ doc' = [doc EXCEPT ![d].status = status]
        BY <2>2
      <4>2. doc'[d].status = status
        BY <1>2, <4>1
      <4> QED BY <4>1, <4>2
    <3>5. \A n \in 1..Len(created'): doc'[created'[n]].status # "none"
      <4>1. ASSUME NEW n \in 1..Len(created) PROVE doc'[created'[n]].status # "none"
        <5>1. created[n] \in Documents /\ created'[n] = created[n]
          BY <3>1, <3>2
        <5>2. doc[created[n]].status # "none"
          BY <3>1 DEF ScanInv, InOrder
        <5>3. \A e \in Documents: doc[e].status # "none" => doc'[e].status # "none"
          BY <1>3
        <5> QED BY <5>1, <5>2, <5>3
      <4> QED BY <3>2, <3>3, <3>4, <4>1
    <3>6. \A m, n \in 1..Len(created'): created'[m] = created'[n] => m = n
      BY <3>1, <3>2, <3>3
    <3> QED BY <3>2, <3>5, <3>6 DEF InOrder
  <2> QED BY <1>1, <2>1, <2>2
<1>6. Documented' /\ OneTick'
  BY <1>1, <1>3, <1>4 DEF Documented, OneTick, ScanInv
<1>7. BatchesOK'
  BY <1>1, <1>3 DEF ScanInv, BatchesOK, BatchOK
<1>8. FetchedClean'
  <2>1. ASSUME NEW t \in Ticks, tick[t].at \in {"clean", "writeClean"}
        PROVE  tick[t].now.id \in Documents /\ AsRead(tick[t].now.id)
    BY <2>1 DEF ScanInv, BatchesOK, BatchOK, FetchedClean, Current
  <2> QED BY <1>1, <1>4, <2>1 DEF FetchedClean, Current
<1>9. CleanWasScanned'
  BY <1>3, <1>4 DEF ScanInv, CleanWasScanned
<1> QED BY <1>3, <1>5, <1>6, <1>7, <1>8, <1>9, ScanTogether

\* The tick takes the next document of its batch, or has finished.
LEMMA TakesStep ==
  ASSUME ScanInv, NEW t \in Ticks, NEW batch, Takes(t, batch),
         \A u \in Ticks: tick[u].at # "idle" => u = t,
         \A x \in batch: x.id \in Documents /\ doc'[x.id].scan \in Unresolved,
         \A x, y \in batch: x.id = y.id => x = y
  PROVE  /\ tick' = [u \in Ticks |-> [at |-> tick'[u].at, now |-> tick'[u].now, rest |-> tick'[u].rest]]
         /\ OneTick' /\ BatchesOK' /\ FetchedClean'
<1>1. tick = [u \in Ticks |-> [at |-> tick[u].at, now |-> tick[u].now, rest |-> tick[u].rest]]
  BY DEF ScanInv, Documented
<1>2. PICK new: /\ tick' = [tick EXCEPT ![t] = new]
                /\ \/ new = NoTick
                   \/ \E x \in batch: new = [at |-> "fetch", now |-> x, rest |-> batch \ {x}]
  BY DEF Takes, Oldest
<1>3. new = [at |-> new.at, now |-> new.now, rest |-> new.rest] /\ new.at \in {"idle", "fetch"}
  BY <1>2 DEF NoTick
<1>4. tick'[t] = new /\ \A u \in Ticks \ {t}: tick'[u] = tick[u] /\ tick[u].at = "idle"
  BY <1>1, <1>2
<1>5. tick' = [u \in Ticks |-> [at |-> tick'[u].at, now |-> tick'[u].now, rest |-> tick'[u].rest]]
  BY <1>1, <1>2, <1>3
<1>6. OneTick' /\ FetchedClean'
  BY <1>3, <1>4 DEF OneTick, FetchedClean
<1>7. new.at = "fetch" => new.now \in batch /\ new.rest = batch \ {new.now}
  BY <1>2 DEF NoTick
<1>8. BatchesOK'
  BY <1>3, <1>4, <1>7 DEF BatchesOK, BatchOK
<1> QED BY <1>5, <1>6, <1>8

LEMMA SweepStartStep ==
  ASSUME ScanInv, NEW t \in Ticks, TickStart(t)
  PROVE  ScanInv'
<1>1. /\ ~Scanning /\ Takes(t, FirstBatch)
      /\ UNCHANGED <<doc, object, created, unseen>>
  BY DEF TickStart
<1>2. \A u \in Ticks: tick[u].at = "idle"
  BY <1>1 DEF Scanning
<1>3. ASSUME NEW x \in FirstBatch
      PROVE  \E n \in DOMAIN created:
               /\ x = [age |-> n, id |-> created[n], attempts |-> doc[created[n]].attempts]
               /\ Awaiting(created[n])
  BY <1>3 DEF FirstBatch
<1>4. created \in Seq(Documents) /\ \A n \in DOMAIN created: created[n] \in Documents
  BY DEF ScanInv, InOrder
<1>5. \A x \in FirstBatch: x.id \in Documents /\ doc'[x.id].scan \in Unresolved
  BY <1>1, <1>3, <1>4 DEF Awaiting
<1>6. ASSUME NEW x \in FirstBatch, NEW y \in FirstBatch, x.id = y.id PROVE x = y
  BY <1>3, <1>6 DEF ScanInv, InOrder
<1>7. /\ tick' = [u \in Ticks |-> [at |-> tick'[u].at, now |-> tick'[u].now, rest |-> tick'[u].rest]]
      /\ OneTick' /\ BatchesOK' /\ FetchedClean'
  BY <1>1, <1>2, <1>5, <1>6, TakesStep
<1>8. Documented' /\ InOrder' /\ CleanWasScanned'
  BY <1>1, <1>7 DEF ScanInv, Documented, InOrder, CleanWasScanned, AsRead
<1> QED BY <1>7, <1>8, ScanTogether

\* A tick that is at work goes on with its document, or dies.
LEMMA TickGoesOn ==
  ASSUME ScanInv, NEW t \in Ticks, tick[t].at # "idle", UNCHANGED <<doc, created>>,
         object' = object \/ object' = [object EXCEPT ![Current(t)] = "deleted"],
         unseen' = unseen \/ unseen' = unseen \ {Current(t)},
         NEW at,
         at \in {"clean", "writeClean"} =>
           object'[Current(t)] \in {"clean", "deleted"} \/ Current(t) \in unseen',
         Goto(t, at) \/ tick' = [tick EXCEPT ![t] = NoTick]
  PROVE  ScanInv'
<1>1. /\ tick = [u \in Ticks |-> [at |-> tick[u].at, now |-> tick[u].now, rest |-> tick[u].rest]]
      /\ object = [d \in Documents |-> object[d]] /\ tick[t].now.id \in Documents
  BY DEF ScanInv, Documented, BatchesOK, BatchOK
<1>2. PICK new: /\ tick' = [tick EXCEPT ![t] = new]
                /\ new = [tick[t] EXCEPT !.at = at] \/ new = NoTick
  BY DEF Goto
<1>3. /\ new = [at |-> new.at, now |-> new.now, rest |-> new.rest]
      /\ \/ new.at = "idle"
         \/ new.at = at /\ new.now = tick[t].now /\ new.rest = tick[t].rest
  BY <1>1, <1>2 DEF NoTick
<1>4. tick'[t] = new /\ \A u \in Ticks \ {t}: tick'[u] = tick[u]
  BY <1>1, <1>2
<1>5. /\ object' = [d \in Documents |-> object'[d]]
      /\ \A d \in Documents \ {Current(t)}: AsRead(d) => AsRead(d)'
  BY <1>1 DEF Current, AsRead
<1>6. Documented' /\ InOrder'
  BY ZenonT(60), <1>1, <1>2, <1>3, <1>5 DEF ScanInv, Documented, InOrder
<1>7. OneTick'
  BY <1>4 DEF ScanInv, OneTick
<1>8. BatchesOK'
  BY <1>3, <1>4 DEF ScanInv, BatchesOK, BatchOK
<1>9. FetchedClean'
  <2>1. ASSUME NEW u \in Ticks, tick'[u].at \in {"clean", "writeClean"}
        PROVE  \/ object'[tick'[u].now.id] \in {"clean", "deleted"}
               \/ tick'[u].now.id \in unseen'
    <3>1. CASE u = t
      BY <1>3, <1>4, <2>1, <3>1 DEF Current
    <3>2. CASE u # t
      BY <1>4, <2>1, <3>2 DEF ScanInv, OneTick
    <3> QED BY <3>1, <3>2
  <2> QED BY <2>1 DEF FetchedClean, AsRead, Current
<1>10. CleanWasScanned'
  <2>1. doc[Current(t)].scan # "CLEAN"
    BY DEF ScanInv, BatchesOK, BatchOK, Unresolved, Current
  <2> QED BY <1>5, <2>1 DEF ScanInv, CleanWasScanned
<1> QED BY <1>6, <1>7, <1>8, <1>9, <1>10, ScanTogether

LEMMA FetchStep ==
  ASSUME ScanInv, NEW t \in Ticks, Fetch(t)
  PROVE  ScanInv'
<1>1. /\ tick[t].at # "idle" /\ UNCHANGED <<doc, created>> /\ object' = object
      /\ unseen' = unseen \/ unseen' = unseen \ {Current(t)}
  BY DEF Fetch
<1>2. PICK at: Goto(t, at) /\ (at \in {"defer", "missing"} \/ at = object[Current(t)])
  BY DEF Fetch
<1>3. at \in {"clean", "writeClean"} => object'[Current(t)] \in {"clean", "deleted"}
  <2>1. object[Current(t)] \in {"clean", "infected"} \/ at \in {"defer", "missing"}
    <3>1. \/ Stored(Current(t)) /\ Goto(t, object[Current(t)])
          \/ Goto(t, "missing") \/ Goto(t, "defer")
      BY DEF Fetch
    <3>2. \A w: Goto(t, w) => w = at
      <4>1. t \in DOMAIN tick /\ tick[t] = [at |-> tick[t].at, now |-> tick[t].now, rest |-> tick[t].rest]
        BY DEF ScanInv, Documented
      <4>2. ASSUME NEW w, Goto(t, w) PROVE tick'[t].at = w
        BY <4>1, <4>2 DEF Goto
      <4> QED BY <1>2, <4>2
    <3> QED BY <3>1, <3>2 DEF Stored
  <2> QED BY <1>1, <1>2, <2>1
<1> QED BY <1>1, <1>2, <1>3, TickGoesOn

LEMMA ScanStep ==
  ASSUME ScanInv, NEW t \in Ticks, Scan(t)
  PROVE  ScanInv'
<1>1. /\ tick[t].at # "idle" /\ UNCHANGED <<doc, created>>
      /\ object' = object /\ unseen' = unseen
  BY DEF Scan
<1>2. CASE tick[t].at = "clean" /\ Goto(t, "writeClean")
  <2>1. object'[Current(t)] \in {"clean", "deleted"} \/ Current(t) \in unseen'
    BY <1>1, <1>2 DEF ScanInv, FetchedClean, AsRead
  <2> QED BY <1>1, <1>2, <2>1, TickGoesOn
<1>3. CASE Goto(t, "remove")
  BY <1>1, <1>3, TickGoesOn
<1>4. CASE Goto(t, "defer")
  BY <1>1, <1>4, TickGoesOn
<1> QED BY <1>2, <1>3, <1>4 DEF Scan, Unavailable

LEMMA RemoveInfectedStep ==
  ASSUME ScanInv, NEW t \in Ticks, RemoveInfected(t)
  PROVE  ScanInv'
<1>1. /\ tick[t].at # "idle" /\ UNCHANGED <<doc, created, unseen>> /\ Goto(t, "writeInfected")
      /\ object' = object \/ object' = [object EXCEPT ![Current(t)] = "deleted"]
  BY DEF RemoveInfected
<1> QED BY <1>1, TickGoesOn

LEMMA TickDiesStep ==
  ASSUME ScanInv, NEW t \in Ticks, TickDies(t)
  PROVE  ScanInv'
<1>1. /\ tick[t].at # "idle" /\ UNCHANGED <<doc, created, object, unseen>>
      /\ tick' = [tick EXCEPT ![t] = NoTick]
  BY DEF TickDies
<1> DEFINE at == "defer"
<1>2. at \in {"clean", "writeClean"} => object'[Current(t)] \in {"clean", "deleted"}
  OBVIOUS
<1> HIDE DEF at
<1> QED BY <1>1, <1>2, TickGoesOn

\* What a tick records is new: the batch holds nothing that has a verdict.
LEMMA RecordScanStep ==
  ASSUME ScanInv, NEW t \in Ticks, RecordVerdict(t)
  PROVE  ScanInv' /\ \A d \in Documents: doc[d].scan \notin Unresolved => doc'[d].scan = doc[d].scan
<1> DEFINE d0 == Current(t)
<1>1. /\ tick[t].at \in {"writeClean", "writeInfected", "defer", "missing"}
      /\ UNCHANGED <<object, created, unseen>>
      /\ \/ doc' = [doc EXCEPT ![d0] = Verdict(t)] /\ Takes(t, tick[t].rest) /\ Exists(d0)
         \/ tick' = [tick EXCEPT ![t] = NoTick] /\ UNCHANGED doc
  BY DEF RecordVerdict
<1>2. BatchOK(t) /\ \A u \in Ticks: tick[u].at # "idle" => u = t
  BY <1>1 DEF ScanInv, BatchesOK, OneTick
<1>3. d0 \in Documents /\ d0 = tick[t].now.id /\ doc[d0].scan \in Unresolved
  BY <1>2 DEF BatchOK, Current
<1>4. /\ doc = [d \in Documents |-> [status |-> doc[d].status, scan |-> doc[d].scan,
                                     attempts |-> doc[d].attempts]]
      /\ object = [d \in Documents |-> object[d]]
  BY DEF ScanInv, Documented
<1>5. CASE tick' = [tick EXCEPT ![t] = NoTick] /\ UNCHANGED doc
  <2> DEFINE at == "defer"
  <2>1. at \in {"clean", "writeClean"} => object'[Current(t)] \in {"clean", "deleted"}
    OBVIOUS
  <2>2. tick[t].at # "idle" /\ UNCHANGED <<doc, created, object, unseen>>
    BY <1>1, <1>5
  <2> HIDE DEF at
  <2>3. ScanInv'
    BY <1>5, <2>1, <2>2, TickGoesOn
  <2> QED BY <1>5, <2>3
<1>6. CASE /\ doc' = [doc EXCEPT ![d0] = Verdict(t)] /\ Takes(t, tick[t].rest)
           /\ Exists(d0)
  <2> DEFINE before == doc[d0]
             attempts == Attempts(t)
  <2>1. before = [status |-> before.status, scan |-> before.scan, attempts |-> before.attempts]
    BY <1>3, <1>4
  <2>2. before.status # "none"
    BY <1>6 DEF Exists
  <2>3. PICK new: /\ new = Verdict(t)
                  /\ doc' = [doc EXCEPT ![d0] = new]
    BY <1>6
  <2>4. \/ tick[t].at = "writeClean" /\ new = [before EXCEPT !.scan = "CLEAN", !.attempts = attempts]
        \/ new = [before EXCEPT !.scan = "INFECTED", !.attempts = attempts]
        \/ new = [before EXCEPT !.scan = "SCAN_ERROR", !.attempts = attempts]
        \/ new = [before EXCEPT !.scan = "SCAN_ERROR", !.attempts = Loud + 1]
    BY <1>1, <2>3 DEF Verdict
  <2> HIDE DEF before, attempts
  <2>5. /\ new = [status |-> new.status, scan |-> new.scan, attempts |-> new.attempts]
        /\ new.status = before.status
        /\ new.scan = "CLEAN" => tick[t].at = "writeClean"
    BY <2>1, <2>4
  <2> HIDE DEF d0
  <2>6. doc'[d0] = new /\ \A d \in Documents \ {d0}: doc'[d] = doc[d]
    BY <1>3, <1>4, <2>3
  <2>7. doc' = [d \in Documents |-> [status |-> doc'[d].status, scan |-> doc'[d].scan,
                                     attempts |-> doc'[d].attempts]]
    <3>1. DOMAIN doc' = Documents /\ doc' = [d \in Documents |-> doc'[d]]
      BY <1>4, <2>3
    <3>2. \A d \in Documents: doc[d] = [status |-> doc[d].status, scan |-> doc[d].scan,
                                        attempts |-> doc[d].attempts]
      BY <1>4
    <3>3. \A d \in Documents: doc'[d] = [status |-> doc'[d].status, scan |-> doc'[d].scan,
                                         attempts |-> doc'[d].attempts]
      BY <2>5, <2>6, <3>2
    <3> QED BY <3>1, <3>3
  <2>8. \A x \in tick[t].rest: /\ x.id \in Documents /\ x.id # d0
                               /\ doc[x.id].scan \in Unresolved
    BY <1>2, <1>3 DEF BatchOK
  <2>9. \A x \in tick[t].rest: x.id \in Documents /\ doc'[x.id].scan \in Unresolved
    BY <2>6, <2>8
  <2>10. \A x, y \in tick[t].rest: x.id = y.id => x = y
    BY <1>2 DEF BatchOK
  <2>11. PICK rest: rest = tick[t].rest
    OBVIOUS
  <2>12. /\ Takes(t, rest)
         /\ \A x \in rest: x.id \in Documents /\ doc'[x.id].scan \in Unresolved
         /\ \A x, y \in rest: x.id = y.id => x = y
    BY <1>6, <2>9, <2>10, <2>11
  <2>13. /\ tick' = [u \in Ticks |-> [at |-> tick'[u].at, now |-> tick'[u].now, rest |-> tick'[u].rest]]
         /\ OneTick' /\ BatchesOK' /\ FetchedClean'
    BY <1>2, <2>12, TakesStep
  <2>14. Documented'
    BY <1>1, <1>4, <2>7, <2>13 DEF Documented
  <2>15. InOrder'
    <3>1. \A n \in DOMAIN created: doc'[created[n]].status # "none"
      <4>1. \A n \in DOMAIN created: created[n] \in Documents /\ doc[created[n]].status # "none"
        BY DEF ScanInv, InOrder
      <4> QED BY <2>2, <2>5, <2>6, <4>1
    <3> QED BY <1>1, <3>1 DEF ScanInv, InOrder
  <2>16. CleanWasScanned'
    <3>1. new.scan = "CLEAN" => AsRead(d0)
      BY <2>5 DEF ScanInv, FetchedClean, d0
    <3> QED BY <1>1, <2>6, <3>1 DEF ScanInv, CleanWasScanned, AsRead
  <2>17. \A d \in Documents: doc[d].scan \notin Unresolved => doc'[d].scan = doc[d].scan
    BY <1>3, <2>6
  <2> QED BY <2>13, <2>14, <2>15, <2>16, <2>17, ScanTogether
<1> QED BY <1>1, <1>5, <1>6

LEMMA ScanInitInv == ScanInit => ScanInv
<1> SUFFICES ASSUME ScanInit PROVE ScanInv
  OBVIOUS
<1>1. /\ doc = [d \in Documents |-> Unrequested] /\ object = [d \in Documents |-> "none"]
      /\ created = <<>> /\ tick = [t \in Ticks |-> NoTick]
  BY DEF ScanInit
<1>2. \A t \in Ticks: tick[t].at = "idle"
  BY <1>1 DEF NoTick
<1>3. Documented
  BY <1>1 DEF Documented, Unrequested, NoTick
<1>4. InOrder
  BY <1>1 DEF InOrder
<1>5. CleanWasScanned
  BY <1>1 DEF CleanWasScanned, Unrequested
<1> QED BY <1>2, <1>3, <1>4, <1>5 DEF ScanInv, OneTick, BatchesOK, FetchedClean

LEMMA ScanNextInv ==
  ASSUME ScanInv, [ScanNext]_scanVars
  PROVE  /\ ScanInv'
         /\ \A d \in Documents: doc[d].scan \notin Unresolved => doc'[d].scan = doc[d].scan
<1>1. ASSUME NEW d \in Documents,
             \/ RequestUpload(d) \/ Put(d) \/ UrlExpires(d) \/ ConfirmUpload(d)
             \/ DeleteObject(d) \/ DeleteRow(d) \/ DeleteDies(d)
      PROVE  /\ ScanInv'
             /\ \A e \in Documents: doc[e].scan \notin Unresolved => doc'[e].scan = doc[e].scan
  BY <1>1, ClientStep
<1>2. ASSUME NEW t \in Ticks,
             \/ TickStart(t) \/ Fetch(t) \/ Scan(t) \/ RemoveInfected(t)
             \/ TickDies(t)
      PROVE  ScanInv' /\ doc' = doc
  <2>1. doc' = doc
    BY <1>2 DEF TickStart, Fetch, Scan, RemoveInfected, TickDies
  <2> QED BY <1>2, <2>1, SweepStartStep, FetchStep, ScanStep, RemoveInfectedStep, TickDiesStep
<1>3. ASSUME NEW t \in Ticks, RecordVerdict(t)
      PROVE  /\ ScanInv'
             /\ \A d \in Documents: doc[d].scan \notin Unresolved => doc'[d].scan = doc[d].scan
  BY <1>3, RecordScanStep
<1>4. CASE UNCHANGED scanVars
  BY ZenonT(60), <1>4 DEF scanVars, ScanInv, Documented, InOrder, OneTick, BatchesOK, BatchOK, FetchedClean,
       CleanWasScanned, AsRead, Current
<1> QED BY <1>1, <1>2, <1>3, <1>4 DEF ScanNext, Sweep

LEMMA ScanInvariant == ScanSpec => []ScanInv
BY ScanInitInv, ScanNextInv, PTL DEF ScanSpec

\* What is marked CLEAN was read and scanned clean, whatever failed, was retried
\* or was deleted meanwhile: its object is clean or gone, or the client has put
\* into it again since a tick read it, which nothing in the code prevents.
THEOREM CleanIsScanned == ScanSpec => []CleanWasScanned
<1>1. ScanInv => CleanWasScanned
  BY DEF ScanInv
<1> QED BY <1>1, ScanInvariant, PTL

\* No verdict is ever overwritten: one tick is at work at a time, and it records
\* only rows that had none when it listed them, each once.
THEOREM VerdictsStand == ScanSpec => VerdictStands
<1>1. ASSUME ScanInv, [ScanNext]_scanVars
      PROVE  [\A d \in Documents: doc[d].scan \in {"CLEAN", "INFECTED"} => doc'[d].scan = doc[d].scan]_scanVars
  BY <1>1, ScanNextInv DEF Unresolved
<1> QED BY <1>1, ScanInvariant, PTL DEF ScanSpec, VerdictStands

-----------------------------------------------------------------------------
\* The delivery of webinar e-mails, for any kinds and overlapping sweeps.

\* Rows and sweeps are records, of which only some fields matter here.
RowIs(r) == r = [status |-> r.status, attempts |-> r.attempts, next |-> r.next, stale |-> r.stale]
WorkIs(w) == w = [at |-> w.at, phase |-> w.phase, todo |-> w.todo, kind |-> w.kind,
                  attempt |-> w.attempt]
Rows == delivery = [k \in Kinds |-> delivery[k]] /\ \A k \in Kinds: RowIs(delivery[k])
Works == work = [s \in Dispatches |-> work[s]] /\ \A s \in Dispatches: WorkIs(work[s])

\* A sweep records SENT after the provider's answer only.
AnswerWasSent == \A s \in Dispatches: work[s].at = "sent" => work[s].kind \in accepted

EmailsInv == Rows /\ Works /\ AnswerWasSent /\ SentWasAccepted

LEMMA WorkMoves ==
  ASSUME Works, AnswerWasSent, NEW s \in Dispatches, accepted \subseteq accepted',
         NEW new, work' = [work EXCEPT ![s] = new], WorkIs(new),
         new.at = "sent" => new.kind \in accepted'
  PROVE  Works' /\ AnswerWasSent'
<1>1. work'[s] = new /\ \A t \in Dispatches \ {s}: work'[t] = work[t]
  BY DEF Works
<1>2. work' = [t \in Dispatches |-> work'[t]] /\ \A t \in Dispatches: WorkIs(work'[t])
  BY <1>1 DEF Works
<1> QED BY <1>1, <1>2 DEF Works, AnswerWasSent

LEMMA RowMoves ==
  ASSUME Rows, SentWasAccepted, NEW k \in Kinds, accepted \subseteq accepted',
         NEW new, delivery' = [delivery EXCEPT ![k] = new], RowIs(new),
         new.status = "SENT" => delivery[k].status = "SENT" \/ k \in accepted
  PROVE  Rows' /\ SentWasAccepted'
<1>1. delivery'[k] = new /\ \A j \in Kinds \ {k}: delivery'[j] = delivery[j]
  BY DEF Rows
<1>2. delivery' = [j \in Kinds |-> delivery'[j]] /\ \A j \in Kinds: RowIs(delivery'[j])
  BY <1>1 DEF Rows
<1> QED BY <1>1, <1>2 DEF Rows, SentWasAccepted

LEMMA IdleIs ==
  /\ WorkIs(NoWork) /\ NoWork.at = "idle"
  /\ \A w, now, todo:
       w = [NoWork EXCEPT !.at = "claim", !.phase = now, !.todo = todo]
       => WorkIs(w) /\ w.at = "claim"
  /\ \A w, now: w = [NoWork EXCEPT !.at = "list", !.phase = now] => WorkIs(w) /\ w.at = "list"
<1>1. ASSUME NEW w, NEW now, NEW todo, w = [NoWork EXCEPT !.at = "claim", !.phase = now, !.todo = todo]
      PROVE  WorkIs(w) /\ w.at = "claim"
  <2>1. w = [at |-> "claim", phase |-> now, todo |-> todo, kind |-> "none", attempt |-> 0]
    BY <1>1 DEF NoWork
  <2> QED BY <2>1 DEF WorkIs
<1>2. ASSUME NEW w, NEW now, w = [NoWork EXCEPT !.at = "list", !.phase = now]
      PROVE  WorkIs(w) /\ w.at = "list"
  <2>1. w = [at |-> "list", phase |-> now, todo |-> {}, kind |-> "none", attempt |-> 0]
    BY <1>2 DEF NoWork
  <2> QED BY <2>1 DEF WorkIs
<1>3. WorkIs(NoWork) /\ NoWork.at = "idle"
  BY DEF WorkIs, NoWork
<1> QED BY <1>1, <1>2, <1>3

LEMMA OnwardStep ==
  ASSUME Works, AnswerWasSent, NEW s \in Dispatches, NEW todo, Onward(s, todo),
         accepted' = accepted
  PROVE  Works' /\ AnswerWasSent'
<1>1. PICK new: /\ work' = [work EXCEPT ![s] = new]
                /\ \/ new = NoWork
                   \/ new = [NoWork EXCEPT !.at = "claim", !.phase = work[s].phase, !.todo = todo]
  BY DEF Onward
<1>2. WorkIs(new) /\ new.at # "sent"
  BY <1>1, IdleIs
<1> QED BY <1>1, <1>2, WorkMoves

LEMMA RegisterStep == EmailsInv /\ QueueLifecycle => EmailsInv'
<1> SUFFICES ASSUME EmailsInv, QueueLifecycle PROVE EmailsInv'
  OBVIOUS
<1>1. UNCHANGED <<work, accepted>>
  BY DEF QueueLifecycle
<1>2. /\ delivery' = [k \in Kinds |-> delivery'[k]]
      /\ \A k \in Kinds:
           \/ delivery'[k] = NoDelivery
           \/ delivery'[k] = [NoDelivery EXCEPT !.status = "PENDING", !.next = Scheduled(k)]
  BY DEF QueueLifecycle
<1>3. \A k \in Kinds: RowIs(delivery'[k]) /\ delivery'[k].status # "SENT"
  <2>1. ASSUME NEW r, NEW next, r = [NoDelivery EXCEPT !.status = "PENDING", !.next = next]
        PROVE  RowIs(r) /\ r.status = "PENDING"
    <3>1. r = [status |-> "PENDING", attempts |-> 0, next |-> next, stale |-> FALSE]
      BY <2>1 DEF NoDelivery
    <3> QED BY <3>1 DEF RowIs
  <2>2. RowIs(NoDelivery) /\ NoDelivery.status = "none"
    BY DEF RowIs, NoDelivery
  <2> QED BY <1>2, <2>1, <2>2
<1>4. Rows' /\ SentWasAccepted'
  BY <1>2, <1>3 DEF Rows, SentWasAccepted
<1> QED BY <1>1, <1>4 DEF EmailsInv, Works, AnswerWasSent

LEMMA ClockStep == EmailsInv /\ Clock => EmailsInv'
<1> SUFFICES ASSUME EmailsInv, Clock PROVE EmailsInv'
  OBVIOUS
<1>1. CASE TimePasses
  BY <1>1 DEF TimePasses, EmailsInv, Rows, Works, AnswerWasSent, SentWasAccepted
<1>2. ASSUME NEW k \in Kinds, FallsDue(k) \/ ClaimAges(k) PROVE EmailsInv'
  <2>1. UNCHANGED <<work, accepted>>
    BY <1>2 DEF FallsDue, ClaimAges
  <2>2. PICK new: /\ delivery' = [delivery EXCEPT ![k] = new]
                  /\ new = [delivery[k] EXCEPT !.next = "due"] \/ new = [delivery[k] EXCEPT !.stale = TRUE]
    BY <1>2 DEF FallsDue, ClaimAges
  <2>3. RowIs(delivery[k])
    BY DEF EmailsInv, Rows
  <2>4. RowIs(new) /\ new.status = delivery[k].status
    BY <2>2, <2>3 DEF RowIs
  <2>5. Rows' /\ SentWasAccepted'
    BY <2>1, <2>2, <2>4, RowMoves DEF EmailsInv
  <2> QED BY <2>1, <2>5 DEF EmailsInv, Works, AnswerWasSent
<1> QED BY <1>1, <1>2 DEF Clock

LEMMA DispatchStartStep ==
  ASSUME EmailsInv, NEW s \in Dispatches, DispatchStart(s)
  PROVE  EmailsInv'
<1>1. UNCHANGED accepted
  BY DEF DispatchStart
<1>2. PICK new: /\ work' = [work EXCEPT ![s] = new]
                /\ new = [NoWork EXCEPT !.at = "list", !.phase = phase]
  BY DEF DispatchStart
<1>3. WorkIs(new) /\ new.at # "sent"
  BY <1>2 DEF WorkIs, NoWork
<1>4. Works' /\ AnswerWasSent'
  BY <1>1, <1>2, <1>3, WorkMoves DEF EmailsInv
<1>5. /\ delivery' = [k \in Kinds |-> delivery'[k]]
      /\ \A k \in Kinds:
           \/ delivery'[k] = delivery[k]
           \/ delivery'[k] = [delivery[k] EXCEPT !.status = "FAILED", !.next = "due", !.stale = FALSE]
  BY DEF DispatchStart
<1>6. ASSUME NEW k \in Kinds
      PROVE  RowIs(delivery'[k]) /\ (delivery'[k].status = "SENT" => delivery[k].status = "SENT")
  <2>1. RowIs(delivery[k])
    BY DEF EmailsInv, Rows
  <2> QED BY <1>5, <2>1 DEF RowIs
<1>7. Rows' /\ SentWasAccepted'
  BY <1>1, <1>5, <1>6 DEF EmailsInv, Rows, SentWasAccepted
<1> QED BY <1>4, <1>7 DEF EmailsInv

LEMMA ListStep ==
  ASSUME EmailsInv, NEW s \in Dispatches, List(s)
  PROVE  EmailsInv'
<1>1. UNCHANGED <<delivery, accepted>>
  BY DEF List
<1>2. PICK new, todo: /\ work' = [work EXCEPT ![s] = new]
                      /\ new = NoWork \/ new = [work[s] EXCEPT !.at = "claim", !.todo = todo]
  BY DEF List
<1>3. WorkIs(work[s])
  BY DEF EmailsInv, Works
<1>4. WorkIs(new) /\ new.at # "sent"
  <2>1. CASE new = NoWork
    BY <2>1, IdleIs
  <2>2. CASE new = [work[s] EXCEPT !.at = "claim", !.todo = todo]
    BY <1>3, <2>2 DEF WorkIs
  <2> QED BY <1>2, <2>1, <2>2
<1>5. Works' /\ AnswerWasSent'
  BY <1>1, <1>2, <1>4, WorkMoves DEF EmailsInv
<1> QED BY <1>1, <1>5 DEF EmailsInv, Rows, SentWasAccepted

LEMMA ClaimStep ==
  ASSUME EmailsInv, NEW s \in Dispatches, Claim(s)
  PROVE  EmailsInv'
<1>1. UNCHANGED accepted
  BY DEF Claim
<1>2. PICK k, rest, at, attempt:
        \/ Onward(s, rest) /\ UNCHANGED delivery
        \/ /\ delivery' = [delivery EXCEPT ![k].status = "PROCESSING", ![k].attempts = @ + 1,
                                 ![k].stale = FALSE]
           /\ work' = [work EXCEPT ![s] = [work[s] EXCEPT !.at = at, !.todo = rest, !.kind = k,
                                                          !.attempt = attempt]]
           /\ at \in {"skip", "send"}
  <2> DEFINE d == Earliest(work[s].todo)
             rest == work[s].todo \ {d}
             k == d.kind
             at == IF WindowPassed(s, k) THEN "skip" ELSE "send"
             attempt == d.seen + 1
  <2>1. \/ Onward(s, rest) /\ UNCHANGED delivery
        \/ /\ delivery' = [delivery EXCEPT ![k].status = "PROCESSING", ![k].attempts = @ + 1,
                                 ![k].stale = FALSE]
           /\ work' = [work EXCEPT ![s] = [work[s] EXCEPT !.at = at, !.todo = rest, !.kind = k,
                                                          !.attempt = attempt]]
    BY DEF Claim
  <2>2. at \in {"skip", "send"}
    OBVIOUS
  <2> HIDE DEF d, rest, k, at, attempt
  <2> QED BY <2>1, <2>2
<1>3. CASE Onward(s, rest) /\ UNCHANGED delivery
  <2>1. Works' /\ AnswerWasSent'
    BY <1>1, <1>3, OnwardStep DEF EmailsInv
  <2> QED BY <1>1, <1>3, <2>1 DEF EmailsInv, Rows, SentWasAccepted
<1>4. CASE /\ delivery' = [delivery EXCEPT ![k].status = "PROCESSING", ![k].attempts = @ + 1,
                                 ![k].stale = FALSE]
           /\ work' = [work EXCEPT ![s] = [work[s] EXCEPT !.at = at, !.todo = rest, !.kind = k,
                                                          !.attempt = attempt]]
           /\ at \in {"skip", "send"}
  <2>1. WorkIs(work[s])
    BY DEF EmailsInv, Works
  <2>2. PICK new: /\ work' = [work EXCEPT ![s] = new]
                  /\ new = [work[s] EXCEPT !.at = at, !.todo = rest, !.kind = k, !.attempt = attempt]
    BY <1>4
  <2>3. WorkIs(new) /\ new.at # "sent"
    BY <1>4, <2>1, <2>2 DEF WorkIs
  <2>4. Works' /\ AnswerWasSent'
    BY <1>1, <2>2, <2>3, WorkMoves DEF EmailsInv
  <2>5. CASE k \in Kinds
    <3>1. RowIs(delivery[k]) /\ k \in DOMAIN delivery
      BY <2>5 DEF EmailsInv, Rows
    <3>2. PICK attempts: delivery' = [delivery EXCEPT ![k] = [delivery[k] EXCEPT !.status = "PROCESSING",
                                                       !.attempts = attempts, !.stale = FALSE]]
      BY <1>4, <3>1 DEF RowIs
    <3>3. PICK claimed: /\ delivery' = [delivery EXCEPT ![k] = claimed]
                        /\ claimed = [delivery[k] EXCEPT !.status = "PROCESSING",
                                                    !.attempts = attempts, !.stale = FALSE]
      BY <3>2
    <3>4. RowIs(claimed) /\ claimed.status # "SENT"
      BY <3>1, <3>3 DEF RowIs
    <3>5. Rows' /\ SentWasAccepted'
      BY <1>1, <2>5, <3>3, <3>4, RowMoves DEF EmailsInv
    <3> QED BY <2>4, <3>5 DEF EmailsInv
  <2>6. CASE k \notin Kinds
    <3>1. delivery' = delivery
      BY <1>4, <2>6 DEF EmailsInv, Rows
    <3> QED BY <1>1, <2>4, <3>1 DEF EmailsInv, Rows, SentWasAccepted
  <2> QED BY <2>5, <2>6
<1> QED BY <1>2, <1>3, <1>4

\* A result is written into the delivery, whatever it has become.
LEMMA WritesBack ==
  ASSUME EmailsInv, NEW k, NEW status, NEW next, accepted' = accepted,
         delivery' = [delivery EXCEPT ![k].status = status, ![k].next = next],
         status = "SENT" => k \in accepted
  PROVE  Rows' /\ SentWasAccepted'
<1>1. CASE k \in Kinds
  <2>1. RowIs(delivery[k]) /\ k \in DOMAIN delivery
    BY <1>1 DEF EmailsInv, Rows
  <2>2. PICK new: delivery' = [delivery EXCEPT ![k] = new] /\ new = [delivery[k] EXCEPT !.status = status, !.next = next]
    BY <2>1 DEF RowIs
  <2>3. RowIs(new) /\ new.status = status
    BY <2>1, <2>2 DEF RowIs
  <2> QED BY <1>1, <2>2, <2>3, RowMoves DEF EmailsInv
<1>2. CASE k \notin Kinds
  <2>1. delivery' = delivery
    BY <1>2 DEF EmailsInv, Rows
  <2> QED BY <2>1 DEF EmailsInv, Rows, SentWasAccepted
<1> QED BY <1>1, <1>2

LEMMA SkipStep ==
  ASSUME EmailsInv, NEW s \in Dispatches, Skip(s)
  PROVE  EmailsInv'
<1>1. PICK k, todo, status, next:
        /\ delivery' = [delivery EXCEPT ![k].status = status, ![k].next = next]
        /\ status = "SKIPPED" /\ Onward(s, todo) /\ accepted' = accepted
  BY DEF Skip
<1>2. Works' /\ AnswerWasSent'
  BY <1>1, OnwardStep DEF EmailsInv
<1>3. Rows' /\ SentWasAccepted'
  <2>1. /\ delivery' = [delivery EXCEPT ![k].status = status, ![k].next = next] /\ accepted' = accepted
        /\ status = "SENT" => k \in accepted
    BY <1>1
  <2> QED BY <2>1, WritesBack
<1> QED BY <1>2, <1>3 DEF EmailsInv

LEMMA SendStep ==
  ASSUME EmailsInv, NEW s \in Dispatches, Send(s)
  PROVE  EmailsInv'
<1>1. /\ delivery' = delivery /\ accepted \subseteq accepted'
      /\ \/ work[s].kind \in accepted' /\ work' = [work EXCEPT ![s].at = "sent"]
         \/ work' = [work EXCEPT ![s].at = "failed"]
  BY DEF Send, LostAnswer
<1>2. PICK new: /\ work' = [work EXCEPT ![s] = new]
                /\ \/ new = [work[s] EXCEPT !.at = "sent"] /\ work[s].kind \in accepted'
                   \/ new = [work[s] EXCEPT !.at = "failed"]
  BY <1>1
<1>3. WorkIs(work[s])
  BY DEF EmailsInv, Works
<1>4. WorkIs(new) /\ (new.at = "sent" => new.kind \in accepted')
  <2>1. CASE new = [work[s] EXCEPT !.at = "sent"] /\ work[s].kind \in accepted'
    BY <1>3, <2>1 DEF WorkIs
  <2>2. CASE new = [work[s] EXCEPT !.at = "failed"]
    BY <1>3, <2>2 DEF WorkIs
  <2> QED BY <1>2, <2>1, <2>2
<1>5. Works' /\ AnswerWasSent'
  BY <1>1, <1>2, <1>4, WorkMoves DEF EmailsInv
<1>6. Rows' /\ SentWasAccepted'
  BY <1>1 DEF EmailsInv, Rows, SentWasAccepted
<1> QED BY <1>5, <1>6 DEF EmailsInv

LEMMA RecordEmailStep ==
  ASSUME EmailsInv, NEW s \in Dispatches, RecordDelivery(s)
  PROVE  EmailsInv'
<1> DEFINE k == work[s].kind
           status == IF work[s].at = "sent" THEN "SENT" ELSE "FAILED"
           next == IF work[s].at = "sent" THEN "never" ELSE RetryAt(work[s].attempt)
<1>1. /\ delivery' = [delivery EXCEPT ![k].status = status, ![k].next = next]
      /\ Onward(s, work[s].todo) /\ accepted' = accepted
  BY DEF RecordDelivery
<1>2. status = "SENT" => k \in accepted
  BY DEF EmailsInv, AnswerWasSent
<1> HIDE DEF k, status, next
<1>3. PICK todo: Onward(s, todo)
  BY <1>1
<1>4. Works' /\ AnswerWasSent'
  BY <1>1, <1>3, OnwardStep DEF EmailsInv
<1>5. PICK kind: kind = k
  OBVIOUS
<1>6. PICK result, due: result = status /\ due = next
  OBVIOUS
<1>7. /\ delivery' = [delivery EXCEPT ![kind].status = result, ![kind].next = due]
      /\ result = "SENT" => kind \in accepted
  BY <1>1, <1>2, <1>5, <1>6
<1>8. Rows' /\ SentWasAccepted'
  BY <1>1, <1>7, WritesBack
<1> QED BY <1>4, <1>8 DEF EmailsInv

LEMMA CrashStep ==
  ASSUME EmailsInv, NEW s \in Dispatches, Crash(s)
  PROVE  EmailsInv'
<1>1. UNCHANGED <<delivery, accepted>>
  BY DEF Crash
<1>2. PICK new: work' = [work EXCEPT ![s] = new] /\ new = NoWork
  BY DEF Crash
<1>3. Works' /\ AnswerWasSent'
  BY <1>1, <1>2, IdleIs, WorkMoves DEF EmailsInv
<1> QED BY <1>1, <1>3 DEF EmailsInv, Rows, SentWasAccepted

LEMMA EmailsInitInv == EmailsInit => EmailsInv
<1> SUFFICES ASSUME EmailsInit PROVE EmailsInv
  OBVIOUS
<1>1. delivery = [k \in Kinds |-> NoDelivery] /\ work = [s \in Dispatches |-> NoWork]
  BY DEF EmailsInit
<1>2. RowIs(NoDelivery) /\ NoDelivery.status = "none"
  BY DEF RowIs, NoDelivery
<1>3. Rows /\ SentWasAccepted
  BY <1>1, <1>2 DEF Rows, SentWasAccepted
<1>4. Works /\ AnswerWasSent
  BY <1>1, IdleIs DEF Works, AnswerWasSent
<1> QED BY <1>3, <1>4 DEF EmailsInv

LEMMA EmailsNextInv == EmailsInv /\ [EmailsNext]_emailsVars => EmailsInv'
<1> SUFFICES ASSUME EmailsInv, [EmailsNext]_emailsVars PROVE EmailsInv'
  OBVIOUS
<1>1. CASE QueueLifecycle \/ Clock
  BY <1>1, RegisterStep, ClockStep
<1>2. ASSUME NEW s \in Dispatches, DispatchStart(s) \/ DispatchStep(s) \/ Crash(s)
      PROVE  EmailsInv'
  BY <1>2, DispatchStartStep, ListStep, ClaimStep, SkipStep, SendStep, RecordEmailStep, CrashStep
     DEF DispatchStep
<1>3. CASE UNCHANGED emailsVars
  BY <1>3 DEF emailsVars, EmailsInv, Rows, Works, AnswerWasSent, SentWasAccepted
<1> QED BY <1>1, <1>2, <1>3 DEF EmailsNext

\* SENT in the ledger means the provider has accepted that mail, for all the
\* workers that may hold a stale claim of the same delivery, lose the provider's
\* answer, or record by id what has moved on.
THEOREM SentIsAccepted == EmailsSpec => []SentWasAccepted
<1>1. EmailsInv => SentWasAccepted
  BY DEF EmailsInv
<1> QED BY <1>1, EmailsInitInv, EmailsNextInv, PTL DEF EmailsSpec

-----------------------------------------------------------------------------
\* How a person becomes a lead, for any answers, campaigns and requests.

Ops == {"none", "draft", "submit", "webinar", "intake", "wix", "status"}
Points == {"idle", "write", "touch", "account", "begin", "tx", "commit", "set", "qualify", "undo",
           "provision", "enrol"}
Given == Answers \cup {None}
LeadTouches == [LeadColumns -> Values \cup {None}]
Assessments == [draft: BOOLEAN, answers: Answers, scored: Given, touch: Visits, lead: Nat]
Leads == [status: Statuses, touch: LeadTouches, source: Reusers \cup {"INTAKE", "WIX"}]
Requested == [op: Ops, at: Points, answers: Given, touch: Visits, row: Nat, contact: BOOLEAN,
              lead: Nat, seen: Leads \cup {None}, status: Statuses \cup {None},
              read: SUBSET Tables, old: SUBSET Tables]

IntakeTyped ==
  /\ assessment \in Seq(Assessments) /\ lead \in Seq(Leads)
  /\ contact \in [made: BOOLEAN, linked: BOOLEAN]
  /\ account \in BOOLEAN
  /\ undoable \in [lead: Nat, from: Statuses \cup {None}, undo: BOOLEAN]
  /\ req \in [Requests -> Requested]
  /\ begun \in 0..MaxRequests

\* An attempt that was submitted has its lead, a lead its contact, and what is
\* linked, enrolled or may be undone exists.
Connected ==
  /\ \A d \in DOMAIN assessment:
       IF assessment[d].draft THEN assessment[d].lead = 0
       ELSE assessment[d].lead \in DOMAIN lead
  /\ lead # <<>> \/ contact.linked => contact.made
  /\ enrolled \subseteq DOMAIN lead
  /\ undoable.lead \in 0..Len(lead) /\ (undoable.lead # 0 => undoable.from \in Statuses)

\* What was read is still so, unless another request has written the table since.
StillDraft(l) ==
  l.row # 0 => l.row \in DOMAIN assessment /\ assessment[l.row].draft
StillLast(l) ==
  l.lead = Len(lead) /\ (l.lead # 0 => l.seen = lead[l.lead])

\* What request r has in hand.
InHand(l) ==
  /\ l.row \in 0..Len(assessment) /\ l.lead \in 0..Len(lead)
  /\ l.op \in {"draft", "submit"} => l.answers \in Answers
  /\ l.op = "draft" /\ l.at = "write" => "draft" \in l.read
  /\ l.op = "draft" /\ "draft" \in l.read \ l.old => StillDraft(l)
  /\ l.at = "commit" => {"contact", "lead"} \subseteq l.read /\ (l.lead # 0 => l.seen \in Leads)
  /\ l.at = "commit" /\ "lead" \notin l.old => StillLast(l)
  /\ l.at \in {"set", "qualify", "undo", "provision", "enrol"} =>
       l.op = "status" /\ l.lead # 0 /\ l.seen \in Leads /\ l.status \in Statuses

IntakeInv == IntakeTyped /\ Connected /\ \A r \in Requests: InHand(req[r])

LEMMA IntakeTogether ==
  ASSUME IntakeTyped', Connected', \A r \in Requests: InHand(req[r])'
  PROVE  IntakeInv'
BY DEF IntakeInv

LEMMA NothingAsked ==
  /\ NoRequest \in Requested /\ NoRequest.row = 0 /\ NoRequest.lead = 0 /\ NoRequest.op = "none"
  /\ NoRequest.at = "idle" /\ NoRequest.read = {} /\ NoRequest.old = {}
BY DEF NoRequest, Requested, Ops, Points, Given, Visits

LEMMA NothingInHand == ASSUME IntakeTyped PROVE InHand(NoRequest)
<1>1. Len(assessment) \in Nat /\ Len(lead) \in Nat
  BY DEF IntakeTyped
<1> QED BY <1>1, NothingAsked DEF InHand

\* A request goes on and no table is written.
Around ==
  /\ assessment' = assessment /\ lead' = lead /\ undoable' = undoable
  /\ contact' \in [made: BOOLEAN, linked: BOOLEAN] /\ account' \in BOOLEAN
  /\ contact.made => contact'.made
  /\ contact'.linked => contact'.made
  /\ begun' \in 0..MaxRequests /\ enrolled' \subseteq DOMAIN lead

LEMMA NoneWritten ==
  ASSUME IntakeInv, NEW r \in Requests, NEW new \in Requested, InHand(new),
         req' = [req EXCEPT ![r] = new], Around
  PROVE  IntakeInv'
<1>1. req \in [Requests -> Requested] /\ assessment' = assessment /\ lead' = lead
  BY DEF Around, IntakeInv, IntakeTyped
<1>2. IntakeTyped'
  BY <1>1 DEF IntakeInv, IntakeTyped, Around
<1>3. Connected'
  BY <1>1 DEF IntakeInv, Connected, Around
<1>4. ASSUME NEW q \in Requests PROVE InHand(req[q])'
  <2>1. PICK l: l = req'[q]
    OBVIOUS
  <2>2. InHand(l)
    BY <1>1, <2>1 DEF IntakeInv
  <2>3. InHand(req'[q]) = InHand(l)
    BY <2>1
  <2> QED BY <1>1, <2>1, <2>2 DEF InHand, StillDraft, StillLast
<1> QED BY <1>2, <1>3, <1>4, IntakeTogether

\* A request writes tables: what the others have read of them is old.
LEMMA Written ==
  ASSUME IntakeInv, NEW r \in Requests, NEW new \in Requested, NEW written \in SUBSET Tables,
         Proceed(r, new, written), InHand(new)',
         assessment' \in Seq(Assessments), Len(assessment) <= Len(assessment'),
         assessment' = assessment \/ "draft" \in written,
         lead' \in Seq(Leads), Len(lead) <= Len(lead'), lead' = lead \/ "lead" \in written
  PROVE  req' \in [Requests -> Requested] /\ \A q \in Requests: InHand(req[q])'
<1>1. /\ req \in [Requests -> Requested]
      /\ req' = [q \in Requests |->
           IF q = r THEN new ELSE [req[q] EXCEPT !.old = @ \cup (req[q].read \cap written)]]
  BY DEF IntakeInv, IntakeTyped, Proceed
<1>2. ASSUME NEW q \in Requests, q # r
      PROVE  req'[q] \in Requested /\ InHand(req[q])'
  <2>1. PICK l: l = req'[q] /\ l = [req[q] EXCEPT !.old = req[q].old \cup (req[q].read \cap written)]
    BY <1>1, <1>2
  <2>2. req[q] \in Requested
    BY <1>1
  <2>3. /\ l \in Requested /\ l.old = req[q].old \cup (req[q].read \cap written)
        /\ l.op = req[q].op /\ l.at = req[q].at /\ l.answers = req[q].answers /\ l.row = req[q].row
        /\ l.lead = req[q].lead /\ l.seen = req[q].seen /\ l.status = req[q].status
        /\ l.read = req[q].read
    BY <2>1, <2>2 DEF Requested
  <2>4. InHand(req[q])
    BY DEF IntakeInv
  <2>5. /\ Len(assessment) \in Nat /\ Len(lead) \in Nat
        /\ Len(assessment') \in Nat /\ Len(lead') \in Nat
    BY DEF IntakeInv, IntakeTyped
  <2>6. l.row \in 0..Len(assessment') /\ l.lead \in 0..Len(lead')
    BY <2>3, <2>4, <2>5 DEF InHand
  <2>7. l.op = "draft" /\ "draft" \in l.read \ l.old => assessment' = assessment /\ StillDraft(req[q])
    BY <2>3, <2>4 DEF InHand
  <2>8. l.at = "commit" /\ "lead" \notin l.old => lead' = lead /\ StillLast(req[q])
    BY <2>3, <2>4 DEF InHand
  <2>9. InHand(l)'
    BY <2>3, <2>4, <2>6, <2>7, <2>8 DEF InHand, StillDraft, StillLast
  <2> QED BY <2>1, <2>3, <2>9 DEF InHand, StillDraft, StillLast
<1>3. req'[r] = new
  BY <1>1
<1>4. InHand(req[r])'
  BY <1>3 DEF InHand, StillDraft, StillLast
<1>5. req' \in [Requests -> Requested] /\ \A q \in Requests: InHand(req[q])'
  BY <1>1, <1>2, <1>3, <1>4
<1> QED BY <1>5

LEMMA BeginKeeps ==
  ASSUME IntakeInv, NEW r \in Requests, NEW new \in Requested, BeginRequest(r, new), InHand(new)
  PROVE  IntakeInv'
<1>1. req' = [req EXCEPT ![r] = new]
  BY DEF BeginRequest
<1>2. Around
  BY IntakeAssumption DEF BeginRequest, people, Around, IntakeInv, IntakeTyped, Connected
<1> QED BY <1>1, <1>2, NoneWritten

LEMMA FailKeeps ==
  ASSUME IntakeInv, NEW r \in Requests, Fail(r)
  PROVE  IntakeInv'
<1>1. req' = [req EXCEPT ![r] = NoRequest]
  BY DEF Fail
<1>2. Around
  BY DEF Fail, people, Around, IntakeInv, IntakeTyped, Connected
<1>3. NoRequest \in Requested /\ InHand(NoRequest)
  BY NothingAsked, NothingInHand DEF IntakeInv
<1> QED BY <1>1, <1>2, <1>3, NoneWritten

\* What is asked for.
LEMMA Asked ==
  ASSUME IntakeInv, NEW op \in Ops \ {"status"}, NEW at \in Points \ {"commit"}, NEW answers \in Given,
         NEW touch \in Visits, NEW d \in 0..Len(assessment), NEW read \in SUBSET Tables, NEW new,
         at \notin {"set", "qualify", "undo", "provision", "enrol"},
         op \in {"draft", "submit"} => answers \in Answers,
         op = "draft" => "draft" \in read /\ StillDraft([NoRequest EXCEPT !.row = d]),
         new = [op |-> op, at |-> at, answers |-> answers, touch |-> touch, row |-> d,
                contact |-> FALSE, lead |-> 0, seen |-> None, status |-> None, read |-> read, old |-> {}]
  PROVE  new \in Requested /\ InHand(new)
<1>1. Len(assessment) \in Nat /\ Len(lead) \in Nat
  BY DEF IntakeInv, IntakeTyped
<1>2. new \in Requested
  BY <1>1 DEF Requested
<1>3. [NoRequest EXCEPT !.row = d].row = d
  BY DEF NoRequest
<1>4. op = "draft" => StillDraft(new)
  BY <1>3 DEF StillDraft
<1>5. InHand(new)
  BY <1>1, <1>4 DEF InHand
<1> QED BY <1>2, <1>5

\* A set of rows that is not empty has a last one.
LEMMA LastRow ==
  ASSUME NEW N \in Nat, NEW rows, rows \subseteq 1..N, rows # {}
  PROVE  \E d \in rows: \A e \in rows: e <= d
<1> DEFINE T == {N - d: d \in rows}
           R == OpToRel(<, Nat)
<1>1. T \subseteq Nat /\ T # {}
  <2>1. \A d \in rows: N - d \in Nat
    OBVIOUS
  <2> QED BY <2>1
<1>2. IsWellFoundedOn(R, Nat)
  BY NatLessThanWellFounded
<1>3. PICK x \in T: \A y \in T: ~(<<y, x>> \in R)
  <2> HIDE DEF T, R
  <2> QED BY <1>1, <1>2, WFMin
<1>4. \A y \in T: ~(y < x)
  BY <1>1, <1>3 DEF OpToRel
<1>5. PICK d \in rows: x = N - d
  OBVIOUS
<1>6. ASSUME NEW e \in rows PROVE e <= d
  <2>1. N - e \in T
    OBVIOUS
  <2>3. e \in Nat /\ d \in Nat /\ N - e \in Nat /\ N - d \in Nat
    <3> HIDE DEF T, R
    <3> QED OBVIOUS
  <2>2. ~(N - e < N - d)
    BY <2>1, <1>4, <1>5
  <2> HIDE DEF T, R
  <2> QED BY <2>2, <2>3
<1> QED BY <1>5, <1>6

LEMMA DraftsAre ==
  ASSUME IntakeInv
  PROVE  /\ Drafts \subseteq 1..Len(assessment) /\ Len(assessment) \in Nat
         /\ \A d \in Drafts: assessment[d].draft
         /\ Latest(Drafts) \in 0..Len(assessment)
<1>1. DOMAIN assessment = 1..Len(assessment) /\ Len(assessment) \in Nat
  BY DEF IntakeInv, IntakeTyped
<1>2. Drafts \subseteq 1..Len(assessment) /\ \A d \in Drafts: assessment[d].draft
  BY <1>1 DEF Drafts
<1>3. CASE Drafts = {}
  BY <1>1, <1>2, <1>3 DEF Latest
<1>4. CASE Drafts # {}
  <2>1. \E d \in Drafts: \A e \in Drafts: e <= d
    BY <1>1, <1>2, <1>4, LastRow
  <2>2. Latest(Drafts) \in Drafts
    BY <2>1, <1>4 DEF Latest
  <2>3. PICK d \in Drafts: d = Latest(Drafts)
    BY <2>2, Zenon
  <2>4. d \in 0..Len(assessment)
    BY <1>1, <1>2
  <2> QED BY <1>1, <1>2, <2>3, <2>4
<1> QED BY <1>3, <1>4

LEMMA SaveDraftKeeps ==
  ASSUME IntakeInv, NEW r \in Requests, NEW a \in Answers, NEW t \in Visits, SaveDraft(r, a, t)
  PROVE  IntakeInv'
<1>1. PICK d \in IF Drafts = {} THEN {0} ELSE Drafts:
        BeginRequest(r, Reading(r, [NoRequest EXCEPT !.op = "draft", !.at = "write", !.answers = a,
                                        !.touch = t, !.row = d], {"draft"}))
  BY DEF SaveDraft
<1>2. PICK new: new = Reading(r, [NoRequest EXCEPT !.op = "draft", !.at = "write", !.answers = a,
                                        !.touch = t, !.row = d], {"draft"})
  OBVIOUS
<1>3. new = [op |-> "draft", at |-> "write", answers |-> a, touch |-> t, row |-> d,
             contact |-> FALSE, lead |-> 0, seen |-> None, status |-> None, read |-> {"draft"}, old |-> {}]
  BY <1>2 DEF Reading, NoRequest
<1>4. d \in 0..Len(assessment) /\ (d # 0 => d \in DOMAIN assessment /\ assessment[d].draft)
  <2>1. DOMAIN assessment = 1..Len(assessment) /\ Len(assessment) \in Nat
    BY DEF IntakeInv, IntakeTyped
  <2> QED BY <2>1, DraftsAre
<1>5. StillDraft([NoRequest EXCEPT !.row = d])
  BY <1>4 DEF StillDraft, NoRequest
<1>6. "draft" \in Ops \ {"status"} /\ "write" \in Points \ {"commit"} /\ a \in Given /\ t \in Visits
      /\ {"draft"} \in SUBSET Tables
  BY DEF Ops, Points, Given, Visits, Tables
<1>7. new \in Requested /\ InHand(new)
  BY <1>3, <1>4, <1>5, <1>6, Asked
<1>8. BeginRequest(r, new)
  BY <1>1, <1>2
<1> QED BY <1>7, <1>8, BeginKeeps

\* A request that has read nothing yet.
LEMMA AskedAnew ==
  ASSUME IntakeInv, NEW r \in Requests, NEW new, NEW op \in {"submit", "webinar", "intake", "wix"},
         NEW at \in {"begin", "account", "tx"}, NEW answers \in Given, NEW touch \in Visits,
         op = "submit" => answers \in Answers, BeginRequest(r, new),
         new = [op |-> op, at |-> at, answers |-> answers, touch |-> touch, row |-> 0,
                contact |-> FALSE, lead |-> 0, seen |-> None, status |-> None, read |-> {}, old |-> {}]
  PROVE  IntakeInv'
<1>1. Len(assessment) \in Nat /\ Len(lead) \in Nat
  BY DEF IntakeInv, IntakeTyped
<1>2. new \in Requested
  BY DEF Requested, Ops, Points
<1>3. InHand(new)
  BY <1>1 DEF InHand
<1> QED BY <1>2, <1>3, BeginKeeps

LEMMA SubmissionKeeps ==
  ASSUME IntakeInv, NEW r \in Requests, NEW a \in Answers, NEW t \in Visits,
         NEW at \in {"begin", "account"}, BeginRequest(r, Submission(a, t, at))
  PROVE  IntakeInv'
<1>1. PICK new: new = Submission(a, t, at)
  OBVIOUS
<1>2. new = [op |-> "submit", at |-> at, answers |-> a, touch |-> t, row |-> 0,
             contact |-> FALSE, lead |-> 0, seen |-> None, status |-> None, read |-> {}, old |-> {}]
  BY <1>1 DEF Submission, NoRequest
<1>3. BeginRequest(r, new) /\ a \in Given /\ t \in Visits
  BY <1>1 DEF Given, Visits
<1> QED BY <1>2, <1>3, AskedAnew

LEMMA SubmitKeeps ==
  ASSUME IntakeInv, NEW r \in Requests, NEW a \in Answers, NEW t \in Visits,
         Submit(r, a, t) \/ SubmitPublic(r, a, t)
  PROVE  IntakeInv'
<1>1. PICK at \in {"begin", "account"}: BeginRequest(r, Submission(a, t, at))
  BY DEF Submit, SubmitPublic
<1> QED BY <1>1, SubmissionKeeps

LEMMA RegisterKeeps ==
  ASSUME IntakeInv, NEW r \in Requests, NEW t \in Visits, Register(r, t)
  PROVE  IntakeInv'
<1>1. PICK new: new = [NoRequest EXCEPT !.op = "webinar", !.at = "tx", !.touch = t]
  OBVIOUS
<1>2. new = [op |-> "webinar", at |-> "tx", answers |-> None, touch |-> t, row |-> 0,
             contact |-> FALSE, lead |-> 0, seen |-> None, status |-> None, read |-> {}, old |-> {}]
  BY <1>1 DEF NoRequest
<1>3. BeginRequest(r, new) /\ None \in Given /\ t \in Visits
  BY <1>1 DEF Given, Visits, Register
<1> QED BY <1>2, <1>3, AskedAnew

LEMMA CreatorsKeep ==
  ASSUME IntakeInv, NEW r \in Requests, SubmitIntakeForm(r) \/ CaptureWix(r)
  PROVE  IntakeInv'
<1>1. PICK op \in {"intake", "wix"}: BeginRequest(r, [NoRequest EXCEPT !.op = op, !.at = "tx"])
  BY DEF SubmitIntakeForm, CaptureWix
<1>2. PICK new: new = [NoRequest EXCEPT !.op = op, !.at = "tx"]
  OBVIOUS
<1>3. new = [op |-> op, at |-> "tx", answers |-> None, touch |-> Untouched, row |-> 0,
             contact |-> FALSE, lead |-> 0, seen |-> None, status |-> None, read |-> {}, old |-> {}]
  BY <1>2 DEF NoRequest
<1>4. BeginRequest(r, new) /\ None \in Given /\ Untouched \in Visits
  BY <1>1, <1>2 DEF Given, Visits
<1> QED BY <1>3, <1>4, AskedAnew

\* Staff ask for a change of status.
LEMMA StatusAsked ==
  ASSUME IntakeInv, NEW r \in Requests, NEW l \in DOMAIN lead, NEW to \in Statuses,
         NEW at \in {"set", "qualify", "undo"}, BeginRequest(r, StatusChange(l, to, at))
  PROVE  IntakeInv'
<1>1. PICK new: new = StatusChange(l, to, at)
  OBVIOUS
<1>2. new = [op |-> "status", at |-> at, answers |-> None, touch |-> Untouched, row |-> 0,
             contact |-> FALSE, lead |-> l, seen |-> lead[l], status |-> to, read |-> {"lead"}, old |-> {}]
  BY <1>1 DEF StatusChange, NoRequest
<1>3. /\ DOMAIN lead = 1..Len(lead) /\ Len(lead) \in Nat /\ Len(assessment) \in Nat
      /\ lead[l] \in Leads
  BY DEF IntakeInv, IntakeTyped
<1>4. new \in Requested
  BY <1>2, <1>3 DEF Requested, Ops, Points, Given, Visits, Tables
<1>5. InHand(new)
  BY <1>2, <1>3 DEF InHand
<1>6. BeginRequest(r, new)
  BY <1>1
<1> QED BY <1>4, <1>5, <1>6, BeginKeeps

LEMMA StaffSetStatusKeeps ==
  ASSUME IntakeInv, NEW r \in Requests, NEW l \in DOMAIN lead, NEW to \in Statuses,
         StaffSetStatus(r, l, to) \/ UpdateStatus(r, l, to)
  PROVE  IntakeInv'
<1>1. PICK at \in {"set", "qualify", "undo"}: BeginRequest(r, StatusChange(l, to, at))
  BY DEF StaffSetStatus, UpdateStatus
<1> QED BY <1>1, StatusAsked

LEMMA UndoLastChangeKeeps ==
  ASSUME IntakeInv, NEW r \in Requests, UndoLastChange(r)
  PROVE  IntakeInv'
<1>1. PICK l, to: l = undoable.lead /\ to = undoable.from
  OBVIOUS
<1>2. l \in DOMAIN lead /\ to \in Statuses
  BY <1>1 DEF UndoLastChange, IntakeInv, IntakeTyped, Connected
<1>3. BeginRequest(r, StatusChange(l, to, "undo"))
  BY <1>1 DEF UndoLastChange
<1> QED BY <1>2, <1>3, StatusAsked

-----------------------------------------------------------------------------
\* What goes on without writing a table.

LEMMA CreateAccountKeeps ==
  ASSUME IntakeInv, NEW r \in Requests, CreateAccount(r)
  PROVE  IntakeInv'
<1>1. CASE Fail(r)
  BY <1>1, FailKeeps
<1>2. CASE /\ account' = TRUE /\ req' = [req EXCEPT ![r].at = "begin"]
           /\ UNCHANGED <<assessment, contact, lead, registered, wix, enrolled, undoable, begun>>
  <2>1. req \in [Requests -> Requested] /\ InHand(req[r]) /\ req[r].op = "submit"
    BY DEF IntakeInv, IntakeTyped, CreateAccount, Is
  <2>2. PICK new: new = [req[r] EXCEPT !.at = "begin"]
    OBVIOUS
  <2>3. /\ new \in Requested /\ new.op = req[r].op /\ new.at = "begin" /\ new.answers = req[r].answers
        /\ new.row = req[r].row /\ new.lead = req[r].lead
    BY <2>1, <2>2 DEF Requested, Points
  <2>4. InHand(new)
    BY <2>1, <2>3 DEF InHand
  <2>5. Around
    BY <1>2 DEF Around, IntakeInv, IntakeTyped, Connected
  <2>6. req' = [req EXCEPT ![r] = new]
    BY <1>2, <2>1, <2>2
  <2> QED BY <2>3, <2>4, <2>5, <2>6, NoneWritten
<1> QED BY <1>1, <1>2 DEF CreateAccount

\* The attribution that wins on a lead, and the one a new lead has.
LEMMA FirstTouchIs ==
  ASSUME NEW before \in LeadTouches, NEW now \in Visits
  PROVE  /\ FirstTouch(before, now) \in LeadTouches
         /\ \A c \in LeadColumns: before[c] # None => FirstTouch(before, now)[c] = before[c]
<1>1. \A c \in LeadColumns: now[c] \in Values \cup {None} /\ before[c] \in Values \cup {None}
  BY IntakeAssumption DEF LeadTouches, Visits, Untouched
<1> QED BY <1>1 DEF FirstTouch, LeadTouches

LEMMA NewLeadIs ==
  ASSUME NEW status \in Statuses, NEW touch \in Visits, NEW source \in Reusers \cup {"INTAKE", "WIX"}
  PROVE  NewLead(status, touch, source) \in Leads /\ NewLead(status, touch, source).source = source
<1>1. \A c \in LeadColumns: touch[c] \in Values \cup {None}
  BY IntakeAssumption DEF Visits, Untouched
<1>2. [c \in LeadColumns |-> touch[c]] \in LeadTouches
  BY <1>1 DEF LeadTouches
<1> QED BY <1>2 DEF NewLead, Leads

LEMMA SubmitReadKeeps ==
  ASSUME IntakeInv, NEW r \in Requests, SubmitRead(r)
  PROVE  IntakeInv'
<1>1. req \in [Requests -> Requested] /\ InHand(req[r]) /\ req[r].op = "submit"
  BY DEF IntakeInv, IntakeTyped, SubmitRead, Is
<1>2. PICK d \in 0..Len(assessment): d = Latest(Drafts)
  BY DraftsAre
<1>3. PICK t: t = IF d = 0 \/ TouchFree(d) THEN req[r].touch ELSE assessment[d].touch
  OBVIOUS
<1>4. t \in Visits
  <2>1. d # 0 => assessment[d] \in Assessments
    BY DEF IntakeInv, IntakeTyped
  <2>2. req[r].touch \in Visits /\ (d # 0 => assessment[d].touch \in Visits)
    BY <1>1, <2>1 DEF Requested, Assessments
  <2> QED BY <1>3, <2>2
<1>5. PICK new: new = Reading(r, [req[r] EXCEPT !.at = "tx", !.row = d, !.touch = t], {"draft"})
  OBVIOUS
<1>6. new = [[req[r] EXCEPT !.at = "tx", !.row = d, !.touch = t] EXCEPT !.read = req[r].read \cup {"draft"}]
  BY <1>1, <1>5 DEF Reading, Requested
<1>7. d \in Nat /\ "tx" \in Points /\ req[r].read \cup {"draft"} \in SUBSET Tables
  BY <1>1 DEF Requested, Points, Tables
<1>8. new \in Requested
  BY ZenonT(60), <1>1, <1>4, <1>6, <1>7 DEF Requested
<1>9. new.op = "submit" /\ new.at = "tx" /\ new.answers = req[r].answers /\ new.row = d /\ new.lead = req[r].lead
  BY <1>1, <1>6 DEF Requested
<1>10. InHand(new)
  BY <1>1, <1>9 DEF InHand
<1>11. Around
  BY DEF SubmitRead, people, Around, IntakeInv, IntakeTyped, Connected
<1>12. req' = [req EXCEPT ![r] = new]
  BY <1>2, <1>3, <1>5 DEF SubmitRead
<1> QED BY <1>8, <1>10, <1>11, <1>12, NoneWritten

LEMMA ReadLeadKeeps ==
  ASSUME IntakeInv, NEW r \in Requests, ReadLead(r)
  PROVE  IntakeInv'
<1>1. req \in [Requests -> Requested] /\ InHand(req[r])
  BY DEF IntakeInv, IntakeTyped
<1>2. PICK n, s: n = Len(lead) /\ s = (IF n = 0 THEN None ELSE lead[n])
  OBVIOUS
<1>3. n \in Nat /\ (n # 0 => s \in Leads /\ s = lead[n]) /\ (n = 0 => s = None)
  BY <1>2 DEF IntakeInv, IntakeTyped
<1>4. contact.made \in BOOLEAN
  BY DEF IntakeInv, IntakeTyped
<1>5. PICK new: new = Reading(r, [req[r] EXCEPT !.at = "commit", !.contact = contact.made, !.lead = n,
                                        !.seen = s], {"contact", "lead"})
  OBVIOUS
<1>6. new = [[req[r] EXCEPT !.at = "commit", !.contact = contact.made, !.lead = n, !.seen = s]
               EXCEPT !.read = req[r].read \cup {"contact", "lead"}]
  BY <1>1, <1>5 DEF Reading, Requested
<1>7. /\ new.op = req[r].op /\ new.at = "commit" /\ new.answers = req[r].answers /\ new.row = req[r].row
      /\ new.lead = n /\ new.seen = s /\ new.read = req[r].read \cup {"contact", "lead"}
      /\ new.old = req[r].old
  BY <1>1, <1>6 DEF Requested
<1>8. new \in Requested
  <2>1. "commit" \in Points /\ req[r].read \cup {"contact", "lead"} \in SUBSET Tables /\ s \in Leads \cup {None}
    BY <1>1, <1>3 DEF Requested, Points, Tables
  <2> QED BY ZenonT(60), <1>1, <1>3, <1>4, <1>6, <2>1 DEF Requested
<1>9. req[r].op = "draft" => ("draft" \in req[r].read \ req[r].old => StillDraft(req[r]))
  BY <1>1 DEF InHand
<1>10. StillLast(new)
  BY <1>2, <1>3, <1>7 DEF StillLast
<1>11. InHand(new)
  <2>1. n \in 0..Len(lead) /\ req[r].row \in 0..Len(assessment)
        /\ (req[r].op \in {"draft", "submit"} => req[r].answers \in Answers)
    BY <1>1, <1>2, <1>3 DEF InHand
  <2>2. new.op = "draft" /\ "draft" \in new.read \ new.old => StillDraft(new)
    BY <1>7, <1>9 DEF StillDraft
  <2>3. {"contact", "lead"} \subseteq new.read /\ (new.lead # 0 => new.seen \in Leads)
    BY <1>3, <1>7
  <2> QED BY <1>7, <1>10, <2>1, <2>2, <2>3 DEF InHand
<1>12. Around
  BY DEF ReadLead, people, Around, IntakeInv, IntakeTyped, Connected
<1>13. req' = [req EXCEPT ![r] = new]
  BY <1>2, <1>5 DEF ReadLead, LeadToReuse
<1> QED BY <1>8, <1>11, <1>12, <1>13, NoneWritten

LEMMA ProvisionKeeps ==
  ASSUME IntakeInv, NEW r \in Requests, Provision(r)
  PROVE  IntakeInv'
<1>1. CASE Fail(r)
  BY <1>1, FailKeeps
<1>2. CASE /\ account' = TRUE /\ req' = [req EXCEPT ![r].at = "enrol"]
           /\ UNCHANGED <<assessment, contact, lead, registered, wix, enrolled, undoable, begun>>
  <2>1. req \in [Requests -> Requested] /\ InHand(req[r]) /\ req[r].at = "provision"
    BY DEF IntakeInv, IntakeTyped, Provision
  <2>2. PICK new: new = [req[r] EXCEPT !.at = "enrol"]
    OBVIOUS
  <2>3. /\ new \in Requested /\ new.op = req[r].op /\ new.at = "enrol" /\ new.answers = req[r].answers
        /\ new.row = req[r].row /\ new.lead = req[r].lead /\ new.seen = req[r].seen
        /\ new.status = req[r].status
    BY <2>1, <2>2 DEF Requested, Points
  <2>4. InHand(new)
    BY <2>1, <2>3 DEF InHand
  <2>5. Around
    BY <1>2 DEF Around, IntakeInv, IntakeTyped, Connected
  <2>6. req' = [req EXCEPT ![r] = new]
    BY <1>2, <2>1, <2>2
  <2> QED BY <2>3, <2>4, <2>5, <2>6, NoneWritten
<1> QED BY <1>1, <1>2 DEF Provision

LEMMA EnrolKeeps ==
  ASSUME IntakeInv, NEW r \in Requests, Enrol(r)
  PROVE  IntakeInv'
<1>1. req[r].lead \in DOMAIN lead /\ lead # <<>> /\ DOMAIN lead = 1..Len(lead)
  BY DEF IntakeInv, IntakeTyped, InHand, Enrol
<1>2. contact.made /\ contact' = [contact EXCEPT !.linked = TRUE]
      /\ contact \in [made: BOOLEAN, linked: BOOLEAN]
  BY <1>1 DEF IntakeInv, IntakeTyped, Connected, Enrol
<1>3. contact' \in [made: BOOLEAN, linked: BOOLEAN] /\ contact'.made
  BY <1>2
<1>4. Around
  BY <1>1, <1>3 DEF Enrol, Around, IntakeInv, IntakeTyped, Connected
<1>5. NoRequest \in Requested /\ InHand(NoRequest) /\ req' = [req EXCEPT ![r] = NoRequest]
  BY NothingAsked, NothingInHand DEF IntakeInv, Enrol
<1> QED BY <1>4, <1>5, NoneWritten

LEMMA SignInKeeps ==
  ASSUME IntakeInv, SignIn
  PROVE  IntakeInv'
<1>1. /\ assessment' = assessment /\ lead' = lead /\ undoable' = undoable /\ req' = req
      /\ account' = account /\ begun' = begun /\ enrolled' = enrolled
      /\ contact' = [contact EXCEPT !.linked = TRUE] /\ contact.made
  BY DEF SignIn
<1>2. contact' \in [made: BOOLEAN, linked: BOOLEAN] /\ contact'.made
  BY <1>1 DEF IntakeInv, IntakeTyped
<1>3. IntakeTyped' /\ Connected'
  BY <1>1, <1>2 DEF IntakeInv, IntakeTyped, Connected
<1>4. ASSUME NEW q \in Requests PROVE InHand(req[q])'
  BY <1>1 DEF IntakeInv, InHand, StillDraft, StillLast
<1> QED BY <1>3, <1>4, IntakeTogether

-----------------------------------------------------------------------------
\* What writes a table.

\* A row overwritten or added, and the others as they were.
LEMMA RowAdded ==
  ASSUME NEW S, NEW s \in Seq(S), NEW e \in S, NEW t, t = Append(s, e)
  PROVE  /\ t \in Seq(S) /\ DOMAIN s = 1..Len(s) /\ DOMAIN t = 1..Len(t) /\ Len(s) \in Nat
         /\ Len(t) = Len(s) + 1 /\ t[Len(s) + 1] = e
         /\ \A i \in DOMAIN s: t[i] = s[i]
OBVIOUS

LEMMA RowReplaced ==
  ASSUME NEW S, NEW s \in Seq(S), NEW d \in DOMAIN s, NEW e \in S, NEW t, t = [s EXCEPT ![d] = e]
  PROVE  /\ t \in Seq(S) /\ DOMAIN s = 1..Len(s) /\ DOMAIN t = DOMAIN s /\ Len(s) \in Nat
         /\ Len(t) = Len(s) /\ t[d] = e
         /\ \A i \in DOMAIN s: i # d => t[i] = s[i]
<1>1. DOMAIN s = 1..Len(s) /\ Len(s) \in Nat /\ DOMAIN t = DOMAIN s
  OBVIOUS
<1>2. \A i \in 1..Len(s): t[i] \in S
  OBVIOUS
<1>3. t \in Seq(S)
  OBVIOUS
<1>4. Len(t) = Len(s)
  BY <1>1, <1>3
<1> QED BY <1>1, <1>3, <1>4

LEMMA RowWritten ==
  ASSUME NEW S, NEW s \in Seq(S), NEW e \in S, NEW d \in 0..Len(s), NEW t,
         t = IF d = 0 THEN Append(s, e) ELSE [s EXCEPT ![d] = e]
  PROVE  /\ t \in Seq(S) /\ DOMAIN s = 1..Len(s) /\ DOMAIN t = 1..Len(t)
         /\ Len(s) \in Nat /\ Len(t) \in Nat /\ Len(s) <= Len(t)
         /\ (d = 0 => Len(t) = Len(s) + 1 /\ t[Len(s) + 1] = e)
         /\ (d # 0 => Len(t) = Len(s) /\ t[d] = e)
         /\ \A i \in DOMAIN s: i # d => t[i] = s[i]
<1>1. CASE d = 0
  <2>1. t = Append(s, e)
    BY <1>1
  <2> QED BY <1>1, <2>1
<1>2. CASE d # 0
  <2>1. d \in DOMAIN s
    BY <1>2
  <2>2. /\ t \in Seq(S) /\ DOMAIN s = 1..Len(s) /\ DOMAIN t = DOMAIN s /\ Len(s) \in Nat
        /\ Len(t) = Len(s) /\ t[d] = e
        /\ \A i \in DOMAIN s: i # d => t[i] = s[i]
    BY <1>2, <2>1, RowReplaced
  <2>3. PICK n \in Nat: n = Len(s) /\ n = Len(t)
    BY <2>2
  <2>7. DOMAIN t = 1..Len(t) /\ Len(t) \in Nat /\ Len(s) = Len(t)
    BY <2>2, <2>3, Zenon
  <2>8. Len(s) <= Len(t)
    BY <2>7
  <2>4. t \in Seq(S)
   BY <2>2
  <2>5. DOMAIN s = 1..Len(s) /\ Len(s) \in Nat
   BY <2>2
  <2>6. (d = 0 => Len(t) = Len(s) + 1 /\ t[Len(s) + 1] = e)
   BY <1>2
  <2> QED BY <2>2, <2>7, <2>8, <2>4, <2>5, <2>6, Zenon
<1> QED BY <1>1, <1>2

\* The rows there were, and the one written.
LEMMA RowsAre ==
  ASSUME NEW S, NEW s \in Seq(S), NEW e \in S, NEW d \in 0..Len(s), NEW t,
         t = IF d = 0 THEN Append(s, e) ELSE [s EXCEPT ![d] = e], NEW i \in DOMAIN t
  PROVE  t[i] = e \/ (i \in DOMAIN s /\ i # d /\ t[i] = s[i])
<1>1. CASE d = 0
  <2>1. t = Append(s, e)
    BY <1>1
  <2>2. DOMAIN t = 1..Len(s) + 1 /\ t[Len(s) + 1] = e /\ DOMAIN s = 1..Len(s) /\ Len(s) \in Nat
    BY <2>1
  <2>3. \A j \in DOMAIN s: t[j] = s[j]
    BY <2>1
  <2>4. CASE i = Len(s) + 1
    BY <2>2, <2>4
  <2>5. CASE i # Len(s) + 1
    <3>1. i \in DOMAIN s /\ i # 0
      BY <2>2, <2>5
    <3> QED BY <3>1, <2>3, <1>1
  <2> QED BY <2>4, <2>5
<1>2. CASE d # 0
  <2>1. d \in DOMAIN s /\ DOMAIN t = DOMAIN s
    BY <1>2
  <2>2. t[d] = e /\ \A j \in DOMAIN s: j # d => t[j] = s[j]
    BY <1>2, <2>1
  <2> QED BY <2>1, <2>2, Zenon
<1> QED BY <1>1, <1>2

LEMMA DraftWriteKeeps ==
  ASSUME IntakeInv, NEW r \in Requests, DraftWrite(r)
  PROVE  IntakeInv'
<1>1. PICK d, old: d = req[r].row /\ old = req[r].old
  OBVIOUS
<1>2. /\ req \in [Requests -> Requested] /\ InHand(req[r]) /\ req[r].op = "draft" /\ req[r].at = "write"
      /\ assessment \in Seq(Assessments) /\ d \in 0..Len(assessment) /\ req[r].answers \in Answers
      /\ ("draft" \notin old => StillDraft(req[r])) /\ DOMAIN assessment = 1..Len(assessment)
  BY <1>1 DEF IntakeInv, IntakeTyped, DraftWrite, Is, InHand
<1>3. PICK e: e = IF d = 0 THEN [draft |-> TRUE, answers |-> req[r].answers, scored |-> None,
                                 touch |-> req[r].touch, lead |-> 0]
                  ELSE [assessment[d] EXCEPT !.answers = req[r].answers]
  OBVIOUS
<1>4. e \in Assessments /\ (d = 0 => e.draft /\ e.lead = 0)
      /\ (d # 0 => e.draft = assessment[d].draft /\ e.lead = assessment[d].lead)
  <2>1. CASE d = 0
    <3>1. e = [draft |-> TRUE, answers |-> req[r].answers, scored |-> None,
               touch |-> req[r].touch, lead |-> 0]
      BY <2>1, <1>3
    <3> QED BY <3>1, <2>1, <1>2 DEF Assessments, Requested, Given
  <2>2. CASE d # 0
    <3>1. assessment[d] \in Assessments /\ e = [assessment[d] EXCEPT !.answers = req[r].answers]
      BY <2>2, <1>2, <1>3
    <3> QED BY <3>1, <2>2, <1>2 DEF Assessments
  <2> QED BY <1>2, <2>1, <2>2
<1>5. assessment' = IF d = 0 THEN Append(assessment, e) ELSE [assessment EXCEPT ![d] = e]
  BY <1>1, <1>2, <1>3 DEF DraftWrite
<1>6. /\ assessment' \in Seq(Assessments) /\ Len(assessment) <= Len(assessment')
      /\ Len(assessment) \in Nat /\ Len(assessment') \in Nat /\ DOMAIN assessment' = 1..Len(assessment')
      /\ (d # 0 => Len(assessment') = Len(assessment) /\ assessment'[d] = e)
      /\ \A i \in DOMAIN assessment: i # d => assessment'[i] = assessment[i]
      /\ \A i \in DOMAIN assessment':
           assessment'[i] = e \/ (i \in DOMAIN assessment /\ i # d /\ assessment'[i] = assessment[i])
  <2> DEFINE t == assessment'
  <2> HIDE DEF t
  <2>1. t = IF d = 0 THEN Append(assessment, e) ELSE [assessment EXCEPT ![d] = e]
    BY <1>5 DEF t
  <2>4. assessment \in Seq(Assessments) /\ d \in 0..Len(assessment) /\ e \in Assessments
    BY <1>2, <1>4
  <2>2. /\ t \in Seq(Assessments) /\ DOMAIN assessment = 1..Len(assessment) /\ DOMAIN t = 1..Len(t)
        /\ Len(assessment) \in Nat /\ Len(t) \in Nat /\ Len(assessment) <= Len(t)
        /\ (d = 0 => Len(t) = Len(assessment) + 1 /\ t[Len(assessment) + 1] = e)
        /\ (d # 0 => Len(t) = Len(assessment) /\ t[d] = e)
        /\ \A i \in DOMAIN assessment: i # d => t[i] = assessment[i]
    BY <2>4, <2>1, RowWritten
  <2>3. \A i \in DOMAIN t: t[i] = e \/ (i \in DOMAIN assessment /\ i # d /\ t[i] = assessment[i])
    BY <2>4, <2>1, RowsAre
  <2> QED BY <2>2, <2>3 DEF t
<1>7. PICK new: new = IF d = 0 \/ req[r].touch = Untouched THEN NoRequest ELSE [req[r] EXCEPT !.at = "touch"]
  OBVIOUS
<1>8. Proceed(r, new, {"draft"}) /\ lead' = lead /\ contact' = contact /\ account' = account
      /\ enrolled' = enrolled /\ undoable' = undoable /\ begun' = begun
  BY <1>1, <1>7 DEF DraftWrite, people
<1>9. new = NoRequest \/ ( /\ d # 0 /\ new \in Requested /\ new.op = "draft" /\ new.at = "touch"
                           /\ new.answers = req[r].answers /\ new.row = d /\ new.lead = req[r].lead
                           /\ new.read = req[r].read /\ new.old = old )
  BY <1>1, <1>2, <1>7 DEF Requested, Points
<1>10. new \in Requested /\ InHand(new)'
  <2>1. CASE new = NoRequest
    <3>1. Len(lead') \in Nat
      BY <1>8 DEF IntakeInv, IntakeTyped
    <3> QED BY <1>6, <2>1, <3>1, NothingAsked DEF InHand
  <2>2. CASE new # NoRequest
    <3>1. "draft" \in new.read \ new.old => d \in DOMAIN assessment' /\ assessment'[d].draft
      BY <1>1, <1>2, <1>4, <1>6, <1>9, <2>2 DEF StillDraft
    <3>2. new.row \in 0..Len(assessment') /\ new.lead \in 0..Len(lead')
      BY <1>2, <1>6, <1>8, <1>9, <2>2 DEF InHand
    <3> QED BY <1>2, <1>9, <2>2, <3>1, <3>2 DEF InHand, StillDraft
  <2> QED BY <2>1, <2>2
<1>11. req' \in [Requests -> Requested] /\ \A q \in Requests: InHand(req[q])'
  <2>1. {"draft"} \in SUBSET Tables /\ "draft" \in {"draft"}
    BY DEF Tables
  <2>2. lead' \in Seq(Leads) /\ Len(lead) <= Len(lead')
    BY <1>8 DEF IntakeInv, IntakeTyped
  <2> QED BY <1>6, <1>8, <1>10, <2>1, <2>2, Written
<1>12. IntakeTyped'
  BY <1>6, <1>8, <1>11 DEF IntakeInv, IntakeTyped
<1>13. Connected'
  <2>1. ASSUME NEW i \in DOMAIN assessment'
        PROVE  IF assessment'[i].draft THEN assessment'[i].lead = 0 ELSE assessment'[i].lead \in DOMAIN lead
    <3>1. ASSUME NEW j \in DOMAIN assessment
          PROVE  IF assessment[j].draft THEN assessment[j].lead = 0 ELSE assessment[j].lead \in DOMAIN lead
      BY DEF IntakeInv, Connected
    <3>2. CASE assessment'[i] = e
      BY <3>1, <3>2, <1>2, <1>4
    <3>3. CASE i \in DOMAIN assessment /\ assessment'[i] = assessment[i]
      BY <3>1, <3>3
    <3> QED BY <1>6, <3>2, <3>3
  <2> QED BY <1>8, <2>1 DEF IntakeInv, Connected
<1> QED BY <1>11, <1>12, <1>13, IntakeTogether

LEMMA DraftTouchKeeps ==
  ASSUME IntakeInv, NEW r \in Requests, DraftTouch(r)
  PROVE  IntakeInv'
<1>1. PICK d: d = req[r].row
  OBVIOUS
<1>2. /\ req \in [Requests -> Requested] /\ assessment \in Seq(Assessments) /\ d \in 0..Len(assessment)
      /\ DOMAIN assessment = 1..Len(assessment) /\ req[r].touch \in Visits
  BY <1>1 DEF IntakeInv, IntakeTyped, InHand, Requested
<1>3. PICK w \in SUBSET {"draft"}: Proceed(r, NoRequest, w) /\ (assessment' = assessment \/ "draft" \in w)
  BY DEF DraftTouch
<1>4. /\ assessment' \in Seq(Assessments) /\ DOMAIN assessment' = DOMAIN assessment
      /\ Len(assessment') = Len(assessment)
      /\ \A i \in DOMAIN assessment:
           /\ assessment'[i].draft = assessment[i].draft /\ assessment'[i].lead = assessment[i].lead
           /\ assessment'[i].scored = assessment[i].scored /\ assessment'[i].answers = assessment[i].answers
  <2>1. CASE assessment' = assessment
    BY <1>2, <2>1
  <2>2. CASE assessment' # assessment
    <3>1. assessment' = [assessment EXCEPT ![d].touch = req[r].touch]
      BY <1>1, <2>2 DEF DraftTouch
    <3>2. \A i \in DOMAIN assessment: assessment[i] \in Assessments
      BY <1>2
    <3>3. /\ DOMAIN assessment' = DOMAIN assessment
          /\ \A i \in DOMAIN assessment:
               /\ assessment'[i] = IF i = d THEN [assessment[i] EXCEPT !.touch = req[r].touch] ELSE assessment[i]
      BY <3>1, <1>2
    <3>4. \A i \in DOMAIN assessment: assessment'[i] \in Assessments
      BY <1>2, <3>2, <3>3 DEF Assessments
    <3>5. assessment' \in Seq(Assessments) /\ Len(assessment') = Len(assessment)
      <4> DEFINE t == assessment'
      <4> HIDE DEF t
      <4>1. PICK n \in Nat: n = Len(assessment)
        <5>1. Len(assessment) \in Nat
          BY <1>2
        <5> QED BY <5>1
      <4>2. t \in [1..n -> Assessments]
        BY <1>2, <3>1, <3>4, <4>1 DEF t
      <4> QED BY <4>1, <4>2 DEF t
    <3> QED BY <3>2, <3>3, <3>5 DEF Assessments
  <2> QED BY <2>1, <2>2
<1>5. /\ lead' = lead /\ contact' = contact /\ account' = account
      /\ enrolled' = enrolled /\ undoable' = undoable /\ begun' = begun
  BY DEF DraftTouch, people
<1>6. NoRequest \in Requested /\ InHand(NoRequest)'
  <2>1. Len(assessment') \in Nat /\ Len(lead') \in Nat
    BY <1>4, <1>5 DEF IntakeInv, IntakeTyped
  <2> QED BY <2>1, NothingAsked DEF InHand
<1>7. req' \in [Requests -> Requested] /\ \A q \in Requests: InHand(req[q])'
  <2>1. w \in SUBSET Tables /\ Len(assessment) <= Len(assessment')
    BY <1>2, <1>4 DEF Tables
  <2>2. lead' \in Seq(Leads) /\ Len(lead) <= Len(lead')
    BY <1>5 DEF IntakeInv, IntakeTyped
  <2> QED BY <1>3, <1>4, <1>5, <1>6, <2>1, <2>2, Written
<1>8. IntakeTyped'
  BY <1>4, <1>5, <1>7 DEF IntakeInv, IntakeTyped
<1>9. Connected'
  BY <1>4, <1>5 DEF IntakeInv, Connected
<1> QED BY <1>7, <1>8, <1>9, IntakeTogether

\* One lead overwritten or one added.
LEMMA LeadWritten ==
  ASSUME IntakeInv, NEW e \in Leads, NEW l \in 0..Len(lead),
         lead' = IF l = 0 THEN Append(lead, e) ELSE [lead EXCEPT ![l] = e]
  PROVE  /\ lead' \in Seq(Leads) /\ Len(lead) <= Len(lead') /\ Len(lead') \in Nat
         /\ DOMAIN lead' = 1..Len(lead') /\ DOMAIN lead \subseteq DOMAIN lead'
         /\ (IF l = 0 THEN Len(lead) + 1 ELSE l) \in DOMAIN lead' /\ lead' # <<>>
<1> DEFINE t == lead'
<1> HIDE DEF t
<1>1. t = IF l = 0 THEN Append(lead, e) ELSE [lead EXCEPT ![l] = e]
  BY DEF t
<1>2. lead \in Seq(Leads)
  BY DEF IntakeInv, IntakeTyped
<1>3. /\ t \in Seq(Leads) /\ DOMAIN lead = 1..Len(lead) /\ DOMAIN t = 1..Len(t)
      /\ Len(lead) \in Nat /\ Len(t) \in Nat /\ Len(lead) <= Len(t)
      /\ (l = 0 => Len(t) = Len(lead) + 1 /\ t[Len(lead) + 1] = e)
      /\ (l # 0 => Len(t) = Len(lead) /\ t[l] = e)
      /\ \A i \in DOMAIN lead: i # l => t[i] = lead[i]
  BY <1>1, <1>2, RowWritten
<1>4. DOMAIN lead \subseteq DOMAIN t /\ (IF l = 0 THEN Len(lead) + 1 ELSE l) \in DOMAIN t
  <2>1. PICK n \in Nat, m \in Nat: n = Len(lead) /\ m = Len(t)
    BY <1>3
  <2>2. DOMAIN lead = 1..n /\ DOMAIN t = 1..m /\ l \in 0..n
    BY <1>3, <2>1, Zenon
  <2>3. n <= m /\ (l = 0 => m = n + 1)
    BY <1>3, <2>1, Zenon
  <2>4. DOMAIN lead \subseteq DOMAIN t /\ (IF l = 0 THEN n + 1 ELSE l) \in DOMAIN t
    BY <2>2, <2>3
  <2> QED BY <2>1, <2>4, Zenon
<1>5. t # <<>>
  BY <1>4
<1> QED BY <1>3, <1>4, <1>5 DEF t

LEMMA SubmitCommitKeeps ==
  ASSUME IntakeInv, NEW r \in Requests, SubmitCommit(r)
  PROVE  IntakeInv'
<1>1. PICK d, l, seen, old: d = req[r].row /\ l = req[r].lead /\ seen = req[r].seen /\ old = req[r].old
  OBVIOUS
<1>2. PICK mine, w: mine = (IF l = 0 THEN Len(lead) + 1 ELSE l)
                    /\ w = {"draft", "lead"} \cup (IF contact.made THEN {} ELSE {"contact"})
  OBVIOUS
<1>3. PICK done: done = [draft |-> FALSE, answers |-> req[r].answers, scored |-> req[r].answers,
                         touch |-> req[r].touch, lead |-> mine]
  OBVIOUS
<1>4. /\ contact' = [contact EXCEPT !.made = TRUE]
      /\ lead' = IF l = 0 THEN Append(lead, NewLead("SCORING_DONE", req[r].touch, "SCORECARD"))
                 ELSE [lead EXCEPT ![l].status = Advanced(seen.status),
                                   ![l].touch = FirstTouch(seen.touch, req[r].touch)]
      /\ assessment' = IF d = 0 THEN Append(assessment, done) ELSE [assessment EXCEPT ![d] = done]
      /\ Proceed(r, NoRequest, w)
      /\ account' = account /\ enrolled' = enrolled /\ undoable' = undoable /\ begun' = begun
  BY <1>1, <1>2, <1>3 DEF SubmitCommit
<1>5. /\ req \in [Requests -> Requested] /\ InHand(req[r]) /\ req[r].op = "submit" /\ req[r].at = "commit"
  BY DEF IntakeInv, IntakeTyped, SubmitCommit, Is
<1>6. /\ d \in 0..Len(assessment) /\ l \in 0..Len(lead) /\ req[r].answers \in Answers
      /\ (l # 0 => seen \in Leads) /\ req[r].touch \in Visits
  BY <1>1, <1>5 DEF InHand, Requested
<1>7. /\ Len(lead) \in Nat /\ DOMAIN lead = 1..Len(lead) /\ \A i \in DOMAIN lead: lead[i] \in Leads
      /\ Len(assessment) \in Nat
  BY DEF IntakeInv, IntakeTyped
<1>8. done \in Assessments /\ done.draft = FALSE /\ done.lead = mine /\ done.scored = done.answers
  <2>1. mine \in Nat
    <3>1. PICK n \in Nat: n = Len(lead)
      BY <1>7
    <3>2. l \in 0..n /\ mine = IF l = 0 THEN n + 1 ELSE l
      BY <1>2, <1>6, <3>1, Zenon
    <3> QED BY <3>2
  <2>2. req[r].answers \in Answers /\ req[r].touch \in Visits
    BY <1>6
  <2> QED BY <1>3, <2>1, <2>2 DEF Assessments, Given
<1>9. PICK e: e = IF l = 0 THEN NewLead("SCORING_DONE", req[r].touch, "SCORECARD")
                  ELSE [lead[l] EXCEPT !.status = Advanced(seen.status),
                                       !.touch = FirstTouch(seen.touch, req[r].touch)]
  OBVIOUS
<1>10. e \in Leads
  <2>1. CASE l = 0
    BY <2>1, <1>6, <1>9, NewLeadIs DEF Statuses, Reusers
  <2>2. CASE l # 0
    <3>3. lead[l] \in Leads /\ seen \in Leads
      <4>1. PICK n \in Nat: n = Len(lead)
        BY <1>7
      <4>2. l \in 0..n /\ DOMAIN lead = 1..n
        BY <1>6, <1>7, <4>1, Zenon
      <4>3. l \in DOMAIN lead
        BY <2>2, <4>2
      <4> QED BY <2>2, <4>3, <1>6, <1>7, Zenon
    <3>1. lead[l] \in Leads /\ seen.status \in Statuses /\ seen.touch \in LeadTouches
      BY <3>3 DEF Leads
    <3>2. Advanced(seen.status) \in Statuses /\ FirstTouch(seen.touch, req[r].touch) \in LeadTouches
      BY <1>6, <3>1, FirstTouchIs DEF Advanced, Statuses
    <3> QED BY <2>2, <1>9, <3>1, <3>2 DEF Leads
  <2> QED BY <2>1, <2>2
<1>11. lead' = IF l = 0 THEN Append(lead, e) ELSE [lead EXCEPT ![l] = e]
  BY <1>4, <1>6, <1>7, <1>9
<1>12. "lead" \in w /\ "draft" \in w /\ w \in SUBSET Tables
  BY <1>2 DEF Tables
<1>13. /\ lead' \in Seq(Leads) /\ Len(lead) <= Len(lead') /\ Len(lead') \in Nat
       /\ DOMAIN lead \subseteq DOMAIN lead' /\ DOMAIN lead' = 1..Len(lead')
       /\ mine \in DOMAIN lead'
  BY <1>2, <1>6, <1>7, <1>10, <1>11, LeadWritten
<1>14. /\ assessment' \in Seq(Assessments) /\ Len(assessment) <= Len(assessment') /\ Len(assessment') \in Nat
       /\ \A i \in DOMAIN assessment':
            assessment'[i] = done \/ (i \in DOMAIN assessment /\ i # d /\ assessment'[i] = assessment[i])
  <2> DEFINE t == assessment'
  <2> HIDE DEF t
  <2>1. t = IF d = 0 THEN Append(assessment, done) ELSE [assessment EXCEPT ![d] = done]
    BY <1>4 DEF t
  <2>2. assessment \in Seq(Assessments) /\ d \in 0..Len(assessment) /\ done \in Assessments
    BY <1>6, <1>8 DEF IntakeInv, IntakeTyped
  <2>3. /\ t \in Seq(Assessments) /\ DOMAIN assessment = 1..Len(assessment) /\ DOMAIN t = 1..Len(t)
        /\ Len(assessment) \in Nat /\ Len(t) \in Nat /\ Len(assessment) <= Len(t)
        /\ (d = 0 => Len(t) = Len(assessment) + 1 /\ t[Len(assessment) + 1] = done)
        /\ (d # 0 => Len(t) = Len(assessment) /\ t[d] = done)
        /\ \A i \in DOMAIN assessment: i # d => t[i] = assessment[i]
    BY <2>1, <2>2, RowWritten
  <2>4. \A i \in DOMAIN t: t[i] = done \/ (i \in DOMAIN assessment /\ i # d /\ t[i] = assessment[i])
    BY <2>1, <2>2, RowsAre
  <2> QED BY <2>3, <2>4 DEF t
<1>15. NoRequest \in Requested /\ InHand(NoRequest)'
  BY <1>13, <1>14, NothingAsked DEF InHand
<1>16. req' \in [Requests -> Requested] /\ \A q \in Requests: InHand(req[q])'
  BY <1>4, <1>12, <1>13, <1>14, <1>15, Written
<1>17. contact' \in [made: BOOLEAN, linked: BOOLEAN] /\ contact'.made
  BY <1>4 DEF IntakeInv, IntakeTyped
<1>18. IntakeTyped'
  BY <1>4, <1>13, <1>14, <1>16, <1>17 DEF IntakeInv, IntakeTyped
<1>19. Connected'
  <2>1. ASSUME NEW i \in DOMAIN assessment'
        PROVE  IF assessment'[i].draft THEN assessment'[i].lead = 0 ELSE assessment'[i].lead \in DOMAIN lead'
    <3>1. CASE assessment'[i] = done
      BY <3>1, <1>8, <1>13
    <3>2. CASE i \in DOMAIN assessment /\ assessment'[i] = assessment[i]
      BY <3>2, <1>13 DEF IntakeInv, Connected
    <3> QED BY <1>14, <3>1, <3>2
  <2>2. enrolled' \subseteq DOMAIN lead'
    BY <1>4, <1>13 DEF IntakeInv, Connected
  <2>3. undoable'.lead \in 0..Len(lead') /\ (undoable'.lead # 0 => undoable'.from \in Statuses)
    BY <1>4, <1>7, <1>13 DEF IntakeInv, Connected
  <2> QED BY <1>17, <2>1, <2>2, <2>3 DEF Connected
<1> QED BY <1>16, <1>18, <1>19, IntakeTogether

\* A lead is written and no assessment is.
Beside ==
  /\ assessment' = assessment /\ begun' = begun /\ enrolled' = enrolled /\ account' = account
  /\ contact' \in [made: BOOLEAN, linked: BOOLEAN] /\ contact'.made
  /\ undoable' \in [lead: Nat, from: Statuses \cup {None}, undo: BOOLEAN]
  /\ undoable'.lead \in 0..Len(lead) /\ (undoable'.lead # 0 => undoable'.from \in Statuses)

LEMMA LeadOnly ==
  ASSUME IntakeInv, NEW r \in Requests, NEW new \in Requested, NEW w \in SUBSET Tables, "lead" \in w,
         NEW e \in Leads, NEW l \in 0..Len(lead), Beside, Proceed(r, new, w), InHand(new)',
         lead' = IF l = 0 THEN Append(lead, e) ELSE [lead EXCEPT ![l] = e]
  PROVE  IntakeInv'
<1>3. /\ lead' \in Seq(Leads) /\ Len(lead) <= Len(lead') /\ Len(lead') \in Nat
      /\ DOMAIN lead \subseteq DOMAIN lead' /\ DOMAIN lead' = 1..Len(lead')
  BY LeadWritten
<1>4. assessment' \in Seq(Assessments) /\ Len(assessment) <= Len(assessment') /\ Len(lead) \in Nat
      /\ assessment' = assessment
  BY DEF Beside, IntakeInv, IntakeTyped
<1>5. req' \in [Requests -> Requested] /\ \A q \in Requests: InHand(req[q])'
  BY <1>3, <1>4, Written
<1>6. IntakeTyped'
  BY <1>3, <1>4, <1>5 DEF IntakeInv, IntakeTyped, Beside
<1>7. Connected'
  <2>1. ASSUME NEW i \in DOMAIN assessment'
        PROVE  IF assessment'[i].draft THEN assessment'[i].lead = 0 ELSE assessment'[i].lead \in DOMAIN lead'
    BY <1>3, <1>4 DEF IntakeInv, Connected
  <2>2. enrolled' \subseteq DOMAIN lead' /\ contact'.made
    BY <1>3 DEF IntakeInv, Connected, Beside
  <2>3. undoable'.lead \in 0..Len(lead') /\ (undoable'.lead # 0 => undoable'.from \in Statuses)
    BY <1>3, <1>4 DEF Beside
  <2> QED BY <2>1, <2>2, <2>3 DEF Connected
<1> QED BY <1>5, <1>6, <1>7, IntakeTogether

\* What a request that is about to commit knows.
LEMMA Committing ==
  ASSUME IntakeInv, NEW r \in Requests, req[r].at = "commit"
  PROVE  /\ req[r] \in Requested /\ req[r].lead \in 0..Len(lead) /\ req[r].touch \in Visits
         /\ (req[r].lead # 0 => /\ req[r].lead \in DOMAIN lead
                                /\ lead[req[r].lead] \in Leads /\ req[r].seen \in Leads)
         /\ ("lead" \notin req[r].old =>
               req[r].lead = Len(lead) /\ (req[r].lead # 0 => req[r].seen = lead[req[r].lead]))
<1>1. req[r] \in Requested /\ InHand(req[r]) /\ req[r].touch \in Visits
  BY DEF IntakeInv, IntakeTyped, Requested
<1>2. PICK n \in Nat: n = Len(lead)
  BY DEF IntakeInv, IntakeTyped
<1>3. DOMAIN lead = 1..n /\ \A i \in DOMAIN lead: lead[i] \in Leads
  BY <1>2 DEF IntakeInv, IntakeTyped
<1>4. req[r].lead \in 0..n /\ (req[r].lead # 0 => req[r].seen \in Leads)
  BY <1>1, <1>2 DEF InHand
<1>5. req[r].lead # 0 => req[r].lead \in DOMAIN lead
  BY <1>3, <1>4
<1>6. "lead" \notin req[r].old => StillLast(req[r])
  BY <1>1 DEF InHand
<1> QED BY <1>1, <1>2, <1>3, <1>4, <1>5, <1>6 DEF StillLast

\* The request that is done.
LEMMA DoneInHand ==
  ASSUME IntakeInv, NEW t \in Seq(Leads), lead' = t, assessment' = assessment
  PROVE  NoRequest \in Requested /\ InHand(NoRequest)'
<1>1. Len(assessment') \in Nat
  BY DEF IntakeInv, IntakeTyped
<1>2. Len(lead') \in Nat
  OBVIOUS
<1> QED BY <1>1, <1>2, NothingAsked DEF InHand

LEMMA RowIn ==
  ASSUME NEW S, NEW s \in Seq(S), NEW e \in S, NEW d \in 0..Len(s), NEW t,
         t = IF d = 0 THEN Append(s, e) ELSE [s EXCEPT ![d] = e]
  PROVE  t \in Seq(S)
BY RowWritten

\* The contact a commit leaves behind, and what may be undone as it was.
LEMMA BesideIs ==
  ASSUME IntakeInv, assessment' = assessment, begun' = begun, enrolled' = enrolled, account' = account,
         contact' = [contact EXCEPT !.made = TRUE], undoable' = undoable
  PROVE  Beside
<1>1. contact' \in [made: BOOLEAN, linked: BOOLEAN] /\ contact'.made
  BY DEF IntakeInv, IntakeTyped
<1> QED BY <1>1 DEF Beside, IntakeInv, IntakeTyped, Connected

LEMMA RegisterCommitKeeps ==
  ASSUME IntakeInv, NEW r \in Requests, RegisterCommit(r)
  PROVE  IntakeInv'
<1>1. CASE registered
  BY <1>1, FailKeeps DEF RegisterCommit
<1>2. CASE ~registered
  <2>1. PICK l, w: l = req[r].lead
                   /\ w = {"lead"} \cup (IF contact.made THEN {} ELSE {"contact"})
    OBVIOUS
  <2>2. /\ req[r] \in Requested /\ l \in 0..Len(lead) /\ req[r].touch \in Visits
        /\ (l # 0 => l \in DOMAIN lead /\ lead[l] \in Leads /\ req[r].seen \in Leads)
        /\ ("lead" \notin req[r].old => l = Len(lead))
    BY <2>1, Committing DEF RegisterCommit, Is
  <2>3. PICK e: e = IF l = 0 THEN NewLead("NEW", req[r].touch, "WEBINAR")
                    ELSE [lead[l] EXCEPT !.touch = FirstTouch(req[r].seen.touch, req[r].touch)]
    OBVIOUS
  <2>4. e \in Leads
    <3>1. CASE l = 0
      BY <3>1, <2>2, <2>3, NewLeadIs DEF Statuses, PreScoring, Reusers
    <3>2. CASE l # 0
      <4>1. FirstTouch(req[r].seen.touch, req[r].touch) \in LeadTouches
        BY <3>2, <2>2, FirstTouchIs DEF Leads
      <4> QED BY <3>2, <2>2, <2>3, <4>1 DEF Leads
    <3> QED BY <3>1, <3>2
  <2>5. lead' = IF l = 0 THEN Append(lead, e) ELSE [lead EXCEPT ![l] = e]
    <3>1. lead' = IF l = 0 THEN Append(lead, NewLead("NEW", req[r].touch, "WEBINAR"))
                  ELSE [lead EXCEPT ![l].touch = FirstTouch(req[r].seen.touch, req[r].touch)]
      BY <1>2, <2>1 DEF RegisterCommit
    <3> QED BY <3>1, <2>3
  <2>6. Proceed(r, NoRequest, w) /\ "lead" \in w /\ w \in SUBSET Tables
    BY <1>2, <2>1 DEF RegisterCommit, Tables
  <2>7. Beside
    BY <1>2, BesideIs DEF RegisterCommit
  <2>8. NoRequest \in Requested /\ InHand(NoRequest)'
    <3>1. lead' \in Seq(Leads)
      BY <2>2, <2>4, <2>5, RowIn DEF IntakeInv, IntakeTyped
    <3> QED BY <3>1, <2>7, DoneInHand DEF Beside
  <2> QED BY <2>2, <2>4, <2>5, <2>6, <2>7, <2>8, LeadOnly
<1> QED BY <1>1, <1>2

LEMMA CreateCommitKeeps ==
  ASSUME IntakeInv, NEW r \in Requests, CreateCommit(r)
  PROVE  IntakeInv'
<1>1. CASE req[r].op = "wix" /\ wix
  BY <1>1, FailKeeps DEF CreateCommit
<1>2. CASE ~(req[r].op = "wix" /\ wix)
  <2>1. PICK w: w = {"lead"} \cup (IF contact.made THEN {} ELSE {"contact"})
    OBVIOUS
  <2>2. PICK e: e = IF req[r].op = "wix" THEN NewLead("NEW", Untouched, "WIX")
                    ELSE NewLead("SCORING_DONE", Untouched, "INTAKE")
    OBVIOUS
  <2>3. e \in Leads
    BY <2>2, NewLeadIs DEF Statuses, PreScoring, Visits
  <2>4. lead' = Append(lead, e)
    BY <1>2, <2>2 DEF CreateCommit
  <2>5. Proceed(r, NoRequest, w) /\ "lead" \in w /\ w \in SUBSET Tables
    BY <1>2, <2>1 DEF CreateCommit, Tables
  <2>6. Beside
    BY <1>2, BesideIs DEF CreateCommit
  <2>7. NoRequest \in Requested /\ InHand(NoRequest)'
    <3>1. lead' \in Seq(Leads)
      BY <2>3, <2>4 DEF IntakeInv, IntakeTyped
    <3> QED BY <3>1, <2>6, DoneInHand DEF Beside
  <2>8. PICK l \in 0..Len(lead): l = 0
    BY DEF IntakeInv, IntakeTyped
  <2>9. lead' = IF l = 0 THEN Append(lead, e) ELSE [lead EXCEPT ![l] = e]
    BY <2>4, <2>8
  <2> QED BY <2>3, <2>5, <2>6, <2>7, <2>8, <2>9, LeadOnly
<1> QED BY <1>1, <1>2

LEMMA StatusWriteKeeps ==
  ASSUME IntakeInv, NEW r \in Requests, StatusWrite(r)
  PROVE  IntakeInv'
<1>1. PICK n, l: n \in Nat /\ n = Len(lead) /\ l = req[r].lead
  BY DEF IntakeInv, IntakeTyped
<1>2. /\ req \in [Requests -> Requested] /\ InHand(req[r]) /\ req[r].op = "status"
      /\ req[r].at \in {"set", "qualify", "undo"}
  BY DEF IntakeInv, IntakeTyped, StatusWrite
<1>3. l \in 0..n /\ l # 0 /\ req[r].seen \in Leads /\ req[r].status \in Statuses
  BY <1>1, <1>2 DEF InHand
<1>4. DOMAIN lead = 1..n /\ lead[l] \in Leads /\ l \in 0..Len(lead)
  BY <1>1, <1>3 DEF IntakeInv, IntakeTyped
<1>5. PICK e: e = [lead[l] EXCEPT !.status = req[r].status]
  OBVIOUS
<1>6. e \in Leads /\ e.source = lead[l].source
  BY <1>3, <1>4, <1>5 DEF Leads
<1>7. lead' = IF l = 0 THEN Append(lead, e) ELSE [lead EXCEPT ![l] = e]
  <2>1. lead' = [lead EXCEPT ![l].status = req[r].status]
    BY <1>1 DEF StatusWrite
  <2> QED BY <2>1, <1>3, <1>5
<1>8. PICK new: new = IF req[r].at = "qualify" THEN [req[r] EXCEPT !.at = "provision"] ELSE NoRequest
  OBVIOUS
<1>9. Proceed(r, new, {"lead"}) /\ {"lead"} \in SUBSET Tables
  BY <1>8 DEF StatusWrite, Tables
<1>10. Beside
  <2> DEFINE undo == req[r].at = "undo"
  <2>1. undo \in BOOLEAN
    OBVIOUS
  <2>2. undoable' = [lead |-> l, from |-> req[r].seen.status, undo |-> undo]
    BY <1>1 DEF StatusWrite
  <2> HIDE DEF undo
  <2>3. req[r].seen.status \in Statuses /\ l \in Nat
    BY <1>3 DEF Leads
  <2>4. /\ undoable' \in [lead: Nat, from: Statuses \cup {None}, undo: BOOLEAN]
        /\ undoable'.lead = l /\ undoable'.from \in Statuses
    BY <2>1, <2>2, <2>3
  <2>5. contact \in [made: BOOLEAN, linked: BOOLEAN] /\ contact.made
    <3>1. lead # <<>>
      BY <1>3, <1>4
    <3> QED BY <3>1 DEF IntakeInv, IntakeTyped, Connected
  <2>6. /\ contact' = contact /\ assessment' = assessment /\ begun' = begun /\ enrolled' = enrolled
        /\ account' = account
    BY DEF StatusWrite
  <2> QED BY <1>4, <2>4, <2>5, <2>6 DEF Beside
<1>11. new \in Requested /\ InHand(new)'
  <2>1. lead' \in Seq(Leads)
    BY <1>4, <1>6, <1>7, RowIn DEF IntakeInv, IntakeTyped
  <2>2. CASE req[r].at # "qualify"
    BY <1>8, <1>10, <2>1, <2>2, DoneInHand DEF Beside
  <2>3. CASE req[r].at = "qualify"
    <3>1. /\ new \in Requested /\ new.op = "status" /\ new.at = "provision" /\ new.row = req[r].row
          /\ new.lead = l /\ new.seen = req[r].seen /\ new.status = req[r].status
      BY <1>1, <1>2, <1>8, <2>3 DEF Requested, Points
    <3>2. new.row \in 0..Len(assessment')
      BY <1>2, <1>10, <3>1 DEF InHand, Beside
    <3>3. Len(lead') = n
      <4> DEFINE t == lead'
      <4>1. t = IF l = 0 THEN Append(lead, e) ELSE [lead EXCEPT ![l] = e]
        BY <1>7
      <4> HIDE DEF t
      <4>2. l # 0 => Len(t) = Len(lead)
        BY <1>4, <1>6, <4>1, RowWritten DEF IntakeInv, IntakeTyped
      <4> QED BY <1>1, <1>3, <4>2 DEF t
    <3>4. new.lead \in 0..Len(lead')
      BY <1>3, <3>1, <3>3
    <3> QED BY <1>3, <3>1, <3>2, <3>4 DEF InHand
  <2> QED BY <2>2, <2>3
<1> QED BY <1>3, <1>4, <1>6, <1>7, <1>9, <1>10, <1>11, LeadOnly

-----------------------------------------------------------------------------
\* The specification.

LEMMA IntakeInitInv == IntakeInit => IntakeInv
<1> SUFFICES ASSUME IntakeInit PROVE IntakeInv
  OBVIOUS
<1>1. assessment = <<>> /\ lead = <<>> /\ DOMAIN assessment = {} /\ DOMAIN lead = {} /\ Len(lead) = 0
  BY DEF IntakeInit
<1>2. \A r \in Requests: req[r] = NoRequest
  BY DEF IntakeInit
<1>3. IntakeTyped
  BY <1>1, NothingAsked, IntakeAssumption DEF IntakeInit, IntakeTyped, NoChange
<1>4. Connected
  BY <1>1 DEF IntakeInit, Connected, NoChange
<1>5. \A r \in Requests: InHand(req[r])
  BY <1>2, <1>3, NothingInHand
<1> QED BY <1>3, <1>4, <1>5 DEF IntakeInv

LEMMA IntakeStepKeeps ==
  ASSUME IntakeInv, NEW r \in Requests, IntakeStep(r)
  PROVE  IntakeInv'
<1>1. CASE DraftWrite(r) \/ DraftTouch(r)
  BY <1>1, DraftWriteKeeps, DraftTouchKeeps
<1>2. CASE CreateAccount(r) \/ SubmitRead(r) \/ ReadLead(r) \/ Abort(r) \/ SubmitCommit(r)
  BY <1>2, CreateAccountKeeps, SubmitReadKeeps, ReadLeadKeeps, FailKeeps, SubmitCommitKeeps DEF Abort
<1>3. CASE RegisterCommit(r) \/ CreateCommit(r)
  BY <1>3, RegisterCommitKeeps, CreateCommitKeeps
<1>4. CASE StatusWrite(r) \/ Provision(r) \/ Enrol(r)
  BY <1>4, StatusWriteKeeps, ProvisionKeeps, EnrolKeeps
<1> QED BY <1>1, <1>2, <1>3, <1>4 DEF IntakeStep

LEMMA IntakeNextInv == IntakeInv /\ [IntakeNext]_intakeVars => IntakeInv'
<1> SUFFICES ASSUME IntakeInv, [IntakeNext]_intakeVars PROVE IntakeInv'
  OBVIOUS
<1>1. ASSUME NEW r \in Requests, IntakeStep(r) PROVE IntakeInv'
  BY <1>1, IntakeStepKeeps
<1>2. ASSUME NEW r \in Requests, NEW a \in Answers, NEW t \in Visits,
             SaveDraft(r, a, t) \/ Submit(r, a, t) \/ SubmitPublic(r, a, t)
      PROVE  IntakeInv'
  BY <1>2, SaveDraftKeeps, SubmitKeeps
<1>3. ASSUME NEW r \in Requests, NEW t \in Visits, Register(r, t) PROVE IntakeInv'
  BY <1>3, RegisterKeeps
<1>4. ASSUME NEW r \in Requests, SubmitIntakeForm(r) \/ CaptureWix(r) \/ UndoLastChange(r)
      PROVE  IntakeInv'
  BY <1>4, CreatorsKeep, UndoLastChangeKeeps
<1>5. ASSUME NEW r \in Requests, NEW l \in DOMAIN lead, NEW to \in Statuses,
             StaffSetStatus(r, l, to) \/ UpdateStatus(r, l, to)
      PROVE  IntakeInv'
  BY <1>5, StaffSetStatusKeeps
<1>6. CASE SignIn
  BY <1>6, SignInKeeps
<1>7. CASE UNCHANGED intakeVars
  <2>1. /\ assessment' = assessment /\ lead' = lead /\ undoable' = undoable /\ req' = req
        /\ account' = account /\ begun' = begun /\ enrolled' = enrolled /\ contact' = contact
    BY <1>7 DEF intakeVars
  <2>2. IntakeTyped' /\ Connected'
    BY <2>1 DEF IntakeInv, IntakeTyped, Connected
  <2>3. ASSUME NEW q \in Requests PROVE InHand(req[q])'
    BY <2>1 DEF IntakeInv, InHand, StillDraft, StillLast
  <2> QED BY <2>2, <2>3, IntakeTogether
<1> QED BY <1>1, <1>2, <1>3, <1>4, <1>5, <1>6, <1>7 DEF IntakeNext

\* The invariant of the ways a person becomes a lead holds throughout.
THEOREM IntakeHolds == IntakeSpec => []IntakeInv
BY IntakeInitInv, IntakeNextInv, PTL DEF IntakeSpec

\* Rows and requests stay well formed, and every attempt that was submitted has
\* its lead (IntakeTypeOK).
THEOREM IntakeTypeCorrect == IntakeSpec => []IntakeTypeOK
<1>1. IntakeInv => IntakeTypeOK
  <2> SUFFICES ASSUME IntakeInv PROVE IntakeTypeOK
    OBVIOUS
  <2>1. ASSUME NEW d \in DOMAIN assessment
        PROVE  /\ assessment[d].draft \in BOOLEAN /\ assessment[d].answers \in Answers
               /\ assessment[d].scored \in Answers \cup {None}
               /\ assessment[d].touch \in Visits
               /\ assessment[d].draft <=> assessment[d].lead \notin DOMAIN lead
    <3>1. assessment[d] \in Assessments /\ 0 \notin DOMAIN lead
      BY DEF IntakeInv, IntakeTyped
    <3>2. IF assessment[d].draft THEN assessment[d].lead = 0 ELSE assessment[d].lead \in DOMAIN lead
      BY DEF IntakeInv, Connected
    <3> QED BY <3>1, <3>2 DEF Assessments, Given
  <2>2. ASSUME NEW l \in DOMAIN lead
        PROVE  lead[l].status \in Statuses /\ lead[l].touch \in [LeadColumns -> Values \cup {None}]
    <3>1. lead[l] \in Leads
      BY DEF IntakeInv, IntakeTyped
    <3> QED BY <3>1 DEF Leads, LeadTouches
  <2>3. (contact.linked => contact.made) /\ enrolled \subseteq DOMAIN lead
        /\ begun \in 0..MaxRequests
    BY DEF IntakeInv, IntakeTyped, Connected
  <2> QED BY <2>1, <2>2, <2>3 DEF IntakeTypeOK
<1> QED BY <1>1, IntakeHolds, PTL

-----------------------------------------------------------------------------
\* What a step may do to a lead there is.

\* A request that has written was at another step before.
LEMMA Passing ==
  ASSUME IntakeInv, NEW r \in Requests, NEW local, NEW w, Proceed(r, local, w),
         local.at # req[r].at, NEW t, t \in req[r].old
  PROVE  Overtaken(r, t) /\ Late(t)
<1>1. req'[r] = local
  BY DEF Proceed
<1> QED BY <1>1 DEF Overtaken, Late

\* A lead found again: what it says of its campaign stays and its status moves
\* forward.
Reused(before, after) ==
  /\ \E t \in Visits: after.touch = FirstTouch(before.touch, t)
  /\ after.status \in {before.status, Advanced(before.status)}

LeadStands(l) ==
  \/ lead'[l] = lead[l] \/ Late("lead") \/ Reused(lead[l], lead'[l])
  \/ \E r \in Requests: StatusWrite(r) /\ lead'[l].touch = lead[l].touch

\* A commit decided on what it read, and no one had written it since.
LEMMA ReusedBy ==
  ASSUME IntakeInv, NEW r \in Requests, NEW k \in DOMAIN lead, SubmitCommit(r) \/ RegisterCommit(r)
  PROVE  LeadStands(k)
<1>1. CASE lead' = lead
  BY <1>1 DEF LeadStands
<1>2. CASE lead' # lead
  <2>1. PICK l, old: l = req[r].lead /\ old = req[r].old
    OBVIOUS
  <2>2. req[r].at = "commit"
    BY DEF SubmitCommit, RegisterCommit, Is
  <2>3. /\ lead[k] \in Leads /\ req[r].touch \in Visits
        /\ l # 0 => l \in DOMAIN lead /\ lead[l] \in Leads /\ req[r].seen \in Leads
        /\ ("lead" \notin old => (l # 0 => req[r].seen = lead[l]))
    BY <2>1, <2>2, Committing DEF IntakeInv, IntakeTyped
  <2>4. "lead" \in old => Late("lead")
    <3>1. PICK w: Proceed(r, NoRequest, w)
      BY <1>2 DEF SubmitCommit, RegisterCommit, Fail
    <3>2. NoRequest.at # req[r].at
      BY <2>2, NothingAsked
    <3> QED BY <2>1, <3>1, <3>2, Passing
  <2>5. CASE l = 0
    <3>1. PICK e: lead' = Append(lead, e)
      BY <1>2, <2>1, <2>5 DEF SubmitCommit, RegisterCommit, Fail
    <3>2. lead'[k] = lead[k]
      BY <3>1 DEF IntakeInv, IntakeTyped
    <3> QED BY <3>2 DEF LeadStands
  <2>6. CASE l # 0 /\ "lead" \notin old
    <3>1. PICK s \in {lead[l].status, Advanced(lead[l].status)}:
            lead' = [lead EXCEPT ![l].status = s, ![l].touch = FirstTouch(lead[l].touch, req[r].touch)]
      <4>1. CASE SubmitCommit(r)
        BY <2>1, <2>3, <2>6, <4>1 DEF SubmitCommit
      <4>2. CASE RegisterCommit(r)
        <5>1. lead' = [lead EXCEPT ![l].touch = FirstTouch(lead[l].touch, req[r].touch)]
          BY <1>2, <2>1, <2>3, <2>6, <4>2 DEF RegisterCommit, Fail
        <5>2. lead[l] \in Leads
          BY <2>3, <2>6
        <5>3. lead' = [lead EXCEPT ![l].status = lead[l].status,
                                   ![l].touch = FirstTouch(lead[l].touch, req[r].touch)]
          BY <5>1, <5>2 DEF Leads
        <5> QED BY <5>3
      <4> QED BY <4>1, <4>2
    <3>2. CASE k = l
      <4>1. lead'[k].touch = FirstTouch(lead[k].touch, req[r].touch) /\ lead'[k].status = s
        BY <2>3, <3>1, <3>2 DEF Leads
      <4> QED BY <2>3, <3>1, <3>2, <4>1 DEF LeadStands, Reused
    <3>3. CASE k # l
      BY <3>1, <3>3 DEF LeadStands
    <3> QED BY <3>2, <3>3
  <2> QED BY <2>4, <2>5, <2>6 DEF LeadStands
<1> QED BY <1>1, <1>2

LEMMA LeadsStand ==
  ASSUME IntakeInv, [IntakeNext]_intakeVars, NEW k \in DOMAIN lead
  PROVE  LeadStands(k)
<1>1. ASSUME lead' = lead PROVE LeadStands(k)
  BY <1>1 DEF LeadStands
<1>2. ASSUME NEW r \in Requests, IntakeStep(r) PROVE LeadStands(k)
  <2>1. CASE SubmitCommit(r) \/ RegisterCommit(r)
    BY <2>1, ReusedBy
  <2>2. CASE CreateCommit(r)
    <3>1. CASE Fail(r)
      BY <3>1, <1>1 DEF Fail
    <3>2. CASE ~Fail(r)
      <4>1. PICK e: lead' = Append(lead, e)
        BY <2>2, <3>2 DEF CreateCommit
      <4>2. lead'[k] = lead[k]
        BY <4>1 DEF IntakeInv, IntakeTyped
      <4> QED BY <4>2 DEF LeadStands
    <3> QED BY <3>1, <3>2
  <2>3. CASE StatusWrite(r)
    <3>1. lead' = [lead EXCEPT ![req[r].lead].status = req[r].status] /\ lead[k] \in Leads
      BY <2>3 DEF StatusWrite, IntakeInv, IntakeTyped
    <3>2. lead'[k].touch = lead[k].touch
      BY <3>1 DEF Leads
    <3> QED BY <2>3, <3>2 DEF LeadStands
  <2>4. CASE DraftWrite(r) \/ DraftTouch(r) \/ CreateAccount(r) \/ SubmitRead(r) \/ ReadLead(r) \/ Abort(r)
    BY <1>1, <2>4 DEF DraftWrite, DraftTouch, CreateAccount, SubmitRead, ReadLead, Abort, Fail
  <2>5. CASE Provision(r) \/ Enrol(r)
    BY <1>1, <2>5 DEF Provision, Enrol, Fail
  <2> QED BY <1>2, <2>1, <2>2, <2>3, <2>4, <2>5 DEF IntakeStep
<1>3. ASSUME NEW r \in Requests, NEW local, BeginRequest(r, local) PROVE LeadStands(k)
  BY <1>1, <1>3 DEF BeginRequest
<1>4. CASE SignIn
  BY <1>1, <1>4 DEF SignIn
<1>5. CASE UNCHANGED intakeVars
  BY <1>1, <1>5 DEF intakeVars
<1> QED BY <1>2, <1>3, <1>4, <1>5
        DEF IntakeNext, SaveDraft, Submit, SubmitPublic, Register, SubmitIntakeForm, CaptureWix,
            UndoLastChange, StaffSetStatus, UpdateStatus

\* What a lead says of its campaign is never replaced, column by column, except
\* by a request that another overtook on it (FirstTouchStays).
THEOREM FirstCampaignWins == IntakeSpec => FirstTouchStays
<1>1. IntakeInv /\ [IntakeNext]_intakeVars =>
        [\A l \in DOMAIN lead: \A c \in LeadColumns:
           lead[l].touch[c] # None => lead'[l].touch[c] = lead[l].touch[c] \/ Late("lead")]_intakeVars
  <2> SUFFICES ASSUME IntakeInv, [IntakeNext]_intakeVars, NEW l \in DOMAIN lead, NEW c \in LeadColumns,
                      lead[l].touch[c] # None
               PROVE  lead'[l].touch[c] = lead[l].touch[c] \/ Late("lead")
    OBVIOUS
  <2>1. LeadStands(l)
    BY LeadsStand
  <2>2. lead[l].touch \in LeadTouches
    <3>1. lead[l] \in Leads
      BY DEF IntakeInv, IntakeTyped
    <3> QED BY <3>1 DEF Leads
  <2>3. ASSUME NEW t \in Visits, lead'[l].touch = FirstTouch(lead[l].touch, t)
        PROVE  lead'[l].touch[c] = lead[l].touch[c]
    BY <2>2, <2>3, FirstTouchIs
  <2> QED BY <2>1, <2>3 DEF LeadStands, Reused
<1> QED BY <1>1, IntakeHolds, PTL DEF IntakeSpec, FirstTouchStays

\* A scored lead's status moves by a person's hand only, or by a request that
\* another overtook on it (MovedByHand).
THEOREM ScoredMovesByHand == IntakeSpec => MovedByHand
<1>1. IntakeInv /\ [IntakeNext]_intakeVars =>
        [\A l \in DOMAIN lead:
           lead[l].status \notin PreScoring /\ lead'[l].status # lead[l].status =>
             \/ \E r \in Requests: req[r].op = "status" /\ req'[r].at # req[r].at
             \/ Late("lead")]_intakeVars
  <2> SUFFICES ASSUME IntakeInv, [IntakeNext]_intakeVars, NEW l \in DOMAIN lead, ~Late("lead"),
                      lead[l].status \notin PreScoring, lead'[l].status # lead[l].status
               PROVE  \E r \in Requests: req[r].op = "status" /\ req'[r].at # req[r].at
    OBVIOUS
  <2>1. LeadStands(l)
    BY LeadsStand
  <2>2. PICK r \in Requests: StatusWrite(r)
    BY <2>1 DEF LeadStands, Reused, Advanced
  <2>3. req[r].op = "status" /\ req[r].at \in {"set", "qualify", "undo"} /\ req[r] \in Requested
    BY <2>2 DEF StatusWrite, IntakeInv, IntakeTyped
  <2>4. req'[r] = IF req[r].at = "qualify" THEN [req[r] EXCEPT !.at = "provision"] ELSE NoRequest
    BY <2>2 DEF StatusWrite, Proceed
  <2>5. req'[r].at \in {"provision", "idle"}
    BY <2>3, <2>4, NothingAsked DEF Requested
  <2> QED BY <2>3, <2>5
<1> QED BY <1>1, IntakeHolds, PTL DEF IntakeSpec, MovedByHand

-----------------------------------------------------------------------------
\* What a step may add to the leads.

AddedAlone(l) == lead'[l].source \in Reusers => DOMAIN lead = {} \/ Late("lead")

LEMMA LeadsAdded ==
  ASSUME IntakeInv, [IntakeNext]_intakeVars, NEW l \in DOMAIN lead' \ DOMAIN lead
  PROVE  AddedAlone(l)
<1>1. lead' # lead
  OBVIOUS
<1>2. /\ lead \in Seq(Leads) /\ Len(lead) \in Nat /\ DOMAIN lead = 1..Len(lead)
      /\ \A r \in Requests: req[r].lead \in 0..Len(lead)
  BY DEF IntakeInv, IntakeTyped, InHand
<1>3. ASSUME NEW r \in Requests, SubmitCommit(r) \/ RegisterCommit(r) PROVE AddedAlone(l)
  <2>1. req[r].at = "commit"
    BY <1>3 DEF SubmitCommit, RegisterCommit, Is
  <2>2. req[r].lead = 0
    <3>1. CASE SubmitCommit(r)
      BY <3>1 DEF SubmitCommit
    <3>2. CASE RegisterCommit(r)
      BY <1>1, <3>2 DEF RegisterCommit, Fail
    <3> QED BY <1>3, <3>1, <3>2
  <2>3. "lead" \notin req[r].old => DOMAIN lead = {}
    BY <1>2, <2>1, <2>2, Committing
  <2>4. PICK w: Proceed(r, NoRequest, w)
    BY <1>1, <1>3 DEF SubmitCommit, RegisterCommit, Fail
  <2>5. NoRequest.at # req[r].at
    BY <2>1, NothingAsked
  <2>6. "lead" \in req[r].old => Late("lead")
    BY <2>4, <2>5, Passing
  <2> QED BY <2>3, <2>6 DEF AddedAlone
<1>4. ASSUME NEW r \in Requests, CreateCommit(r) PROVE AddedAlone(l)
  <2>1. PICK e: lead' = Append(lead, e) /\ e.source \in {"WIX", "INTAKE"}
    BY <1>1, <1>4 DEF CreateCommit, NewLead, Fail
  <2>2. lead'[l] = e
    BY <1>2, <2>1
  <2> QED BY <2>1, <2>2 DEF AddedAlone, Reusers
<1>5. ASSUME NEW r \in Requests, StatusWrite(r) PROVE FALSE
  <2>1. lead' = [lead EXCEPT ![req[r].lead].status = req[r].status]
    BY <1>5 DEF StatusWrite
  <2> QED BY <2>1
<1>6. ASSUME NEW r \in Requests,
             \/ DraftWrite(r) \/ DraftTouch(r) \/ CreateAccount(r) \/ SubmitRead(r) \/ ReadLead(r)
             \/ Abort(r) \/ Provision(r) \/ Enrol(r)
      PROVE  FALSE
  BY <1>1, <1>6 DEF DraftWrite, DraftTouch, CreateAccount, SubmitRead, ReadLead, Abort, Provision,
     Enrol, Fail
<1>7. ASSUME NEW r \in Requests, NEW local, BeginRequest(r, local) PROVE FALSE
  BY <1>1, <1>7 DEF BeginRequest
<1>8. ~SignIn /\ ~UNCHANGED intakeVars
  BY <1>1 DEF SignIn, intakeVars
<1> QED BY <1>3, <1>4, <1>5, <1>6, <1>7, <1>8
        DEF IntakeNext, IntakeStep, SaveDraft, Submit, SubmitPublic, Register, SubmitIntakeForm,
            CaptureWix, UndoLastChange, StaffSetStatus, UpdateStatus

\* Assessments and webinars add at most one lead to a contact; a second one comes
\* only of a request that looked before the first was made (NotFragmented).
THEOREM OnePersonOneLead == IntakeSpec => NotFragmented
<1>1. IntakeInv /\ [IntakeNext]_intakeVars =>
        [\A k \in DOMAIN lead, l \in DOMAIN lead' \ DOMAIN lead:
           {lead[k].source, lead'[l].source} \subseteq Reusers => Late("lead")]_intakeVars
  BY LeadsAdded DEF AddedAlone
<1> QED BY <1>1, IntakeHolds, PTL DEF IntakeSpec, NotFragmented

-----------------------------------------------------------------------------
\* What a step may do to a score.

LateAutosave(d) ==
  \E r \in Requests: Is(r, "draft", "write") /\ req[r].row = d /\ Overtaken(r, "draft")
ScoreStands(d) == (d \in DOMAIN assessment => Scored(d)) => Scored(d)' \/ LateAutosave(d)

LEMMA ScoresStand ==
  ASSUME IntakeInv, [IntakeNext]_intakeVars, NEW d \in DOMAIN assessment'
  PROVE  ScoreStands(d)
<1>1. ASSUME assessment' = assessment PROVE ScoreStands(d)
  BY <1>1 DEF ScoreStands, Scored
<1>2. /\ assessment \in Seq(Assessments) /\ DOMAIN assessment = 1..Len(assessment)
      /\ Len(assessment) \in Nat /\ \A i \in DOMAIN assessment: assessment[i] \in Assessments
      /\ \A r \in Requests: req[r] \in Requested /\ InHand(req[r])
  BY DEF IntakeInv, IntakeTyped
<1>3. ASSUME NEW e, assessment' = Append(assessment, e), e.draft \/ e.scored = e.answers
      PROVE  ScoreStands(d)
  BY <1>2, <1>3 DEF ScoreStands, Scored
<1>4. ASSUME NEW r \in Requests, DraftWrite(r) PROVE ScoreStands(d)
  <2>1. req[r].op = "draft" /\ req[r].at = "write" /\ req[r].row \in 0..Len(assessment)
    BY <1>2, <1>4 DEF DraftWrite, Is, InHand
  <2>2. CASE req[r].row = 0
    <3>1. PICK e: /\ e = [draft |-> TRUE, answers |-> req[r].answers, scored |-> None,
                           touch |-> req[r].touch, lead |-> 0]
                  /\ assessment' = Append(assessment, e)
      BY <1>4, <2>2 DEF DraftWrite
    <3> QED BY <1>3, <3>1
  <2>3. CASE req[r].row # 0
    <3>1. assessment' = [assessment EXCEPT ![req[r].row].answers = req[r].answers]
      BY <1>4, <2>3 DEF DraftWrite
    <3>2. CASE d # req[r].row
      BY <3>1, <3>2 DEF ScoreStands, Scored
    <3>3. CASE d = req[r].row /\ "draft" \in req[r].old
      <4>1. PICK new, w: /\ Proceed(r, new, w)
                         /\ new = NoRequest \/ new = [req[r] EXCEPT !.at = "touch"]
        BY <1>4 DEF DraftWrite
      <4>2. new.at # req[r].at
        BY <1>2, <2>1, <4>1, NothingAsked DEF Requested
      <4>3. Overtaken(r, "draft")
        BY <3>3, <4>1, <4>2, Passing
      <4> QED BY <1>4, <3>3, <4>3 DEF ScoreStands, LateAutosave, DraftWrite
    <3>4. CASE d = req[r].row /\ "draft" \notin req[r].old
      <4>1. d \in DOMAIN assessment /\ assessment[d].draft
        BY <1>2, <2>1, <2>3, <3>4 DEF InHand, StillDraft
      <4>2. assessment'[d].draft
        BY <1>2, <3>1, <4>1 DEF Assessments
      <4> QED BY <4>2 DEF ScoreStands, Scored
    <3> QED BY <3>2, <3>3, <3>4
  <2> QED BY <2>2, <2>3
<1>5. ASSUME NEW r \in Requests, DraftTouch(r) PROVE ScoreStands(d)
  <2>1. CASE assessment' = assessment
    BY <1>1, <2>1
  <2>2. CASE assessment' = [assessment EXCEPT ![req[r].row].touch = req[r].touch]
    <3>1. d \in DOMAIN assessment
      BY <2>2
    <3>2. /\ assessment'[d].draft = assessment[d].draft /\ assessment'[d].scored = assessment[d].scored
          /\ assessment'[d].answers = assessment[d].answers
      BY <1>2, <2>2, <3>1 DEF Assessments
    <3> QED BY <3>1, <3>2 DEF ScoreStands, Scored
  <2> QED BY <1>5, <2>1, <2>2 DEF DraftTouch
<1>6. ASSUME NEW r \in Requests, SubmitCommit(r) PROVE ScoreStands(d)
  <2>1. PICK done: done = [draft |-> FALSE, answers |-> req[r].answers, scored |-> req[r].answers,
                           touch |-> req[r].touch,
                           lead |-> IF req[r].lead = 0 THEN Len(lead) + 1 ELSE req[r].lead]
    OBVIOUS
  <2>2. /\ done.scored = done.answers
        /\ assessment' = IF req[r].row = 0 THEN Append(assessment, done)
                         ELSE [assessment EXCEPT ![req[r].row] = done]
    BY <1>6, <2>1 DEF SubmitCommit
  <2>3. CASE req[r].row = 0
    BY <1>3, <2>2, <2>3
  <2>4. CASE req[r].row # 0
    BY <2>2, <2>4 DEF ScoreStands, Scored
  <2> QED BY <2>3, <2>4
<1>7. ASSUME NEW r \in Requests,
             \/ CreateAccount(r) \/ SubmitRead(r) \/ ReadLead(r) \/ Abort(r) \/ RegisterCommit(r)
             \/ CreateCommit(r) \/ StatusWrite(r) \/ Provision(r) \/ Enrol(r)
      PROVE  ScoreStands(d)
  BY <1>1, <1>7 DEF CreateAccount, SubmitRead, ReadLead, Abort, RegisterCommit, CreateCommit,
     StatusWrite, Provision, Enrol, Fail
<1>8. ASSUME NEW r \in Requests, NEW local, BeginRequest(r, local) PROVE ScoreStands(d)
  BY <1>1, <1>8 DEF BeginRequest
<1>9. ASSUME SignIn \/ UNCHANGED intakeVars PROVE ScoreStands(d)
  BY <1>1, <1>9 DEF SignIn, intakeVars
<1> QED BY <1>4, <1>5, <1>6, <1>7, <1>8, <1>9
        DEF IntakeNext, IntakeStep, SaveDraft, Submit, SubmitPublic, Register, SubmitIntakeForm,
            CaptureWix, UndoLastChange, StaffSetStatus, UpdateStatus

\* The score beside an attempt is that of its answers; a step parts them only if
\* it is an autosave whose draft was submitted after the autosave had looked for
\* it (ScoreMatchesAnswers).
THEOREM ScoresMatch == IntakeSpec => ScoreMatchesAnswers
<1>1. IntakeInv /\ [IntakeNext]_intakeVars =>
        [\A d \in DOMAIN assessment':
           (d \in DOMAIN assessment => Scored(d)) =>
             \/ Scored(d)'
             \/ \E r \in Requests:
                  Is(r, "draft", "write") /\ req[r].row = d /\ Overtaken(r, "draft")]_intakeVars
  BY ScoresStand DEF ScoreStands, LateAutosave
<1> QED BY <1>1, IntakeHolds, PTL DEF IntakeSpec, ScoreMatchesAnswers

-----------------------------------------------------------------------------
\* What a step may do to a draft.

DraftStands(d) == assessment'[d].draft /\ ~TouchFree(d) =>
                    assessment'[d].touch = assessment[d].touch

LEMMA DraftsStand ==
  ASSUME IntakeInv, [IntakeNext]_intakeVars, NEW d \in DOMAIN assessment
  PROVE  DraftStands(d)
<1>1. ASSUME assessment' = assessment PROVE DraftStands(d)
  BY <1>1 DEF DraftStands
<1>2. assessment \in Seq(Assessments) /\ assessment[d] \in Assessments /\ d # Len(assessment) + 1
  BY DEF IntakeInv, IntakeTyped
<1>3. ASSUME NEW e, assessment' = Append(assessment, e) PROVE DraftStands(d)
  BY <1>2, <1>3 DEF DraftStands
<1>4. ASSUME NEW r \in Requests, IntakeStep(r) PROVE DraftStands(d)
  <2>1. CASE DraftWrite(r)
    <3>1. CASE req[r].row = 0
      BY <1>3, <2>1, <3>1 DEF DraftWrite
    <3>2. CASE req[r].row # 0
      <4>1. assessment' = [assessment EXCEPT ![req[r].row].answers = req[r].answers]
        BY <2>1, <3>2 DEF DraftWrite
      <4> QED BY <1>2, <4>1 DEF DraftStands, Assessments
    <3> QED BY <3>1, <3>2
  <2>2. CASE DraftTouch(r)
    <3>1. CASE assessment' = assessment
      BY <1>1, <3>1
    <3>2. CASE assessment' # assessment
      <4>1. assessment' = [assessment EXCEPT ![req[r].row].touch = req[r].touch]
            /\ TouchFree(req[r].row)
        BY <2>2, <3>2 DEF DraftTouch
      <4> QED BY <1>2, <4>1 DEF DraftStands
    <3> QED BY <3>1, <3>2
  <2>3. CASE SubmitCommit(r)
    <3>4. PICK done: done = [draft |-> FALSE, answers |-> req[r].answers, scored |-> req[r].answers,
                             touch |-> req[r].touch,
                             lead |-> IF req[r].lead = 0 THEN Len(lead) + 1 ELSE req[r].lead]
      OBVIOUS
    <3>1. /\ done.draft = FALSE
          /\ assessment' = IF req[r].row = 0 THEN Append(assessment, done)
                           ELSE [assessment EXCEPT ![req[r].row] = done]
      BY <2>3, <3>4 DEF SubmitCommit
    <3>2. CASE req[r].row = 0
      BY <1>3, <3>1, <3>2
    <3>3. CASE req[r].row # 0
      BY <1>2, <3>1, <3>3 DEF DraftStands
    <3> QED BY <3>2, <3>3
  <2>4. CASE CreateAccount(r) \/ SubmitRead(r) \/ ReadLead(r) \/ Abort(r)
    BY <1>1, <2>4 DEF CreateAccount, SubmitRead, ReadLead, Abort, Fail
  <2>5. CASE RegisterCommit(r) \/ CreateCommit(r) \/ StatusWrite(r) \/ Provision(r) \/ Enrol(r)
    BY <1>1, <2>5 DEF RegisterCommit, CreateCommit, StatusWrite, Provision, Enrol, Fail
  <2> QED BY <1>4, <2>1, <2>2, <2>3, <2>4, <2>5 DEF IntakeStep
<1>5. ASSUME NEW r \in Requests, NEW local, BeginRequest(r, local) PROVE DraftStands(d)
  BY <1>1, <1>5 DEF BeginRequest
<1>6. CASE SignIn
  BY <1>1, <1>6 DEF SignIn
<1>7. CASE UNCHANGED intakeVars
  BY <1>1, <1>7 DEF intakeVars
<1> QED BY <1>4, <1>5, <1>6, <1>7
        DEF IntakeNext, SaveDraft, Submit, SubmitPublic, Register, SubmitIntakeForm, CaptureWix,
            UndoLastChange, StaffSetStatus, UpdateStatus

\* A row that stays a draft keeps its first attribution, however autosaves race
\* each other and a submission (DraftTouchStays).
THEOREM DraftAttributionFrozen == IntakeSpec => DraftTouchStays
<1>1. IntakeInv /\ [IntakeNext]_intakeVars =>
        [\A d \in DOMAIN assessment: ~TouchFree(d) /\ assessment'[d].draft
           => assessment'[d].touch = assessment[d].touch]_intakeVars
  BY DraftsStand DEF DraftStands
<1> QED BY <1>1, IntakeHolds, PTL DEF IntakeSpec, DraftTouchStays
=============================================================================
