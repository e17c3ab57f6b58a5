---------------------- MODULE BookingSettlement_proofs ----------------------
(***************************************************************************)
(* The money of a consultation, for any number of payment intents, refund  *)
(* rows, concurrent workers and failures, and any prices.                  *)
(*                                                                         *)
(* No step relies on another worker's step being next to it: what a worker *)
(* read stays true (an intent that has its Payment row keeps it, money     *)
(* that was spent stays spent) or is decided again by a unique index.  So  *)
(* the invariant is a part about the rows and, for each worker, what its   *)
(* step may still assume.                                                  *)
(***************************************************************************)
EXTENDS BookingSettlement, TLAPS

Answers == {"succeeded", "pending", "failed"}
Steps == {"idle", "record", "load", "clash", "confirm", "lost", "wallet", "debit", "basis",
          "recheck", "credit", "complete", "refund", "stripe", "recordRefund"}
Locals == [at: Steps, intent: Intents \cup {None}, slot: BOOLEAN, base: Nat, hours: Int,
           target: Statuses, row: Refunds \cup {None}, answer: Answers \cup {"none"}]

\* A Payment row, or the wallet entry, stands behind every mark of payment.
MoneyBehind ==
  /\ consult.intent # None => consult.intent \in payments /\ consult.with # "none"
  /\ consult.with = "CARD" => consult.intent # None
  /\ consult.with = "WALLET" => wallet.spent > 0
  /\ consult.paid # "PENDING" => consult.with # "none"
  /\ consult.status = "CONFIRMED" => consult.paid # "PENDING"

\* Stripe's first answer; only a pending refund changes afterwards.
AnswersHold ==
  \A i \in Intents:
    /\ stripe[i].answer \in {"succeeded", "failed"} => stripe[i].refund = stripe[i].answer
    /\ stripe[i].answer = "none" => stripe[i].refund = "none"

\* A refund row that exists is about an intent.
RowsAbout == \A x \in Refunds: refunds[x].status # "none" => refunds[x].payment \in Intents

\* Money that can be the base of a credit.
Paid(base) == base <= wallet.spent \/ (payments # {} /\ base <= CardTotal)

\* What the step worker w is about to take may rely upon.
Sure(w) ==
  LET l == work[w] IN
  /\ l.at = "record" => l.intent \in Intents
  /\ l.at \in {"load", "clash", "confirm", "lost"} => l.intent \in payments
  /\ l.at \in {"basis", "recheck", "credit"} => l.target \in {"CANCELLED", "NO_SHOW"}
  /\ l.at = "basis" => IF l.intent = None THEN wallet.spent > 0 ELSE l.intent \in payments
  /\ l.at \in {"recheck", "credit"} => l.base > 0 /\ Paid(l.base)
  /\ l.at \in {"refund", "stripe", "recordRefund"} => l.intent \in Intents /\ consult.with # "none"
  /\ l.at \in {"stripe", "recordRefund"} =>
       l.row \in Refunds /\ refunds[l.row].payment = l.intent /\ refunds[l.row].status = "PENDING"
  /\ l.at = "recordRefund" => l.answer # "none" /\ l.answer = stripe[l.intent].answer

\* A row under way belongs to one worker.
RowsOwned ==
  \A v, w \in Workers:
    /\ work[v].at \in {"stripe", "recordRefund"} /\ work[w].at \in {"stripe", "recordRefund"}
    /\ work[v].row = work[w].row
    => v = w

Typed == TypeOK /\ work \in [Workers -> Locals]

\* What is said of the rows alone.
Rows ==
  /\ MoneyBehind /\ AnswersHold /\ RowsAbout
  /\ SpentOnce /\ CreditWithinPaid /\ RefundBasisExists
  /\ RefundRowTruthful /\ OneLiveRefund

IInv == Typed /\ Rows /\ RowsOwned /\ \A w \in Workers: Sure(w)

\* What every step leaves true for the workers that do not take it.
Monotone ==
  /\ consult.with # "none" => consult'.with # "none"
  /\ payments \subseteq payments'
  /\ wallet.spent <= wallet'.spent
  /\ \A i \in Intents: stripe[i].answer # "none" => stripe'[i].answer = stripe[i].answer

\* Failures are counted, and never taken back.
FailuresGrow == failures' \in 0..MaxFailures /\ (failures' = 0 => failures = 0)

InFlight(v) == work[v].at \in {"stripe", "recordRefund"}
RowKept(v) ==
  InFlight(v) => /\ refunds'[work[v].row].payment = refunds[work[v].row].payment
                 /\ refunds'[work[v].row].status = refunds[work[v].row].status

-----------------------------------------------------------------------------
\* The policy never returns more than was paid, and never nothing of a payment.
LEMMA CreditBounds ==
  ASSUME NEW base \in Nat, base > 0, NEW kind \in Kinds, NEW h \in Int
  PROVE  /\ CreditCents(base, kind, h) \in Nat
         /\ CreditCents(base, kind, h) > 0
         /\ CreditCents(base, kind, h) <= base
<1>1. RetainedPct(kind, h) \in {0, 20, 25}
  BY DEF RetainedPct
<1> DEFINE kept == RetainedCents(base, kind, h)
<1>2. kept \in Nat /\ kept < base
  <2>1. CASE RetainedPct(kind, h) = 0
    <3>1. kept = (base * 0 + 50) \div 100
      BY <2>1 DEF RetainedCents
    <3> QED BY <3>1
  <2>2. CASE RetainedPct(kind, h) = 20
    <3>1. kept = (base * 20 + 50) \div 100
      BY <2>2 DEF RetainedCents
    <3> QED BY <3>1
  <2>3. CASE RetainedPct(kind, h) = 25
    <3>1. kept = (base * 25 + 50) \div 100
      BY <2>3 DEF RetainedCents
    <3> QED BY <3>1
  <2> QED BY <1>1, <2>1, <2>2, <2>3
<1>3. CreditCents(base, kind, h) = base - kept
  BY DEF CreditCents
<1> HIDE DEF kept
<1> QED BY <1>2, <1>3

LEMMA InitInv == Init => IInv
<1> SUFFICES ASSUME Init PROVE IInv
  OBVIOUS
<1>1. Idle \in Locals
  BY DEF Idle, Locals, Steps, Answers, Statuses
<1>2. Typed
  <2>1. /\ consult \in [status: Statuses, paid: {"PENDING", "PAID", "REFUNDED"},
                        with: {"none", "CARD", "WALLET"}, intent: Intents \cup {None},
                        hold: {"none", "live", "lapsed"}, slot: BOOLEAN]
        /\ consult.status # "CONFIRMED"
    BY DEF Init, Statuses
  <2>2. stripe \in [Intents -> [state: {"new", "open", "captured"}, acked: BOOLEAN,
                                refund: {"none", "succeeded", "pending", "failed"},
                                answer: {"none", "succeeded", "pending", "failed"}]]
    BY DEF Init
  <2>3. refunds \in [Refunds -> [payment: Intents \cup {None},
                                 status: {"none", "PENDING", "COMPLETED", "FAILED"},
                                 stripeId: Intents \cup {None}]]
    BY DEF Init, NoRefund
  <2>4. work \in [Workers -> Locals] /\ \A w \in Workers: work[w].base \in Nat /\ work[w].target \in Statuses
    BY <1>1 DEF Init, Idle, Statuses
  <2>5. failures \in 0..MaxFailures /\ hours \in {48, 12, -1} /\ payments \subseteq Intents
        /\ wallet \in [spent: Nat, credit: Nat]
    BY SettlementAssumption DEF Init
  <2> QED BY <2>1, <2>2, <2>3, <2>4, <2>5 DEF Typed, TypeOK
<1>3. Rows
  BY SettlementAssumption DEF Init, Rows, MoneyBehind, AnswersHold, RowsAbout, SpentOnce,
     CreditWithinPaid, RefundBasisExists, RefundRowTruthful, OneLiveRefund, NoRefund
<1>4. RowsOwned /\ \A w \in Workers: Sure(w)
  BY DEF Init, RowsOwned, Sure, Idle
<1> QED BY <1>2, <1>3, <1>4 DEF IInv

\* A worker that does not move may still rely on what it relied upon.
LEMMA OthersSure ==
  ASSUME IInv, Monotone, TypeOK', NEW v \in Workers, work'[v] = work[v], RowKept(v)
  PROVE  Sure(v)'
<1> DEFINE l == work[v]
<1>1. Sure(v) /\ l \in Locals
  BY DEF IInv, Typed
<1>2. Paid(l.base) => l.base <= wallet'.spent \/ (payments' # {} /\ l.base <= CardTotal)
  <2>1. l.base \in Nat /\ wallet.spent \in Nat /\ wallet'.spent \in Nat
    BY <1>1 DEF IInv, Typed, TypeOK, Locals
  <2> QED BY <2>1 DEF Paid, Monotone
<1>3. l.at = "basis" => IF l.intent = None THEN wallet'.spent > 0 ELSE l.intent \in payments'
  <2>1. wallet.spent \in Nat /\ wallet'.spent \in Nat
    BY DEF IInv, Typed, TypeOK
  <2> QED BY <1>1, <2>1 DEF Sure, Monotone
<1>4. l.at = "recordRefund" => l.answer # "none" /\ l.answer = stripe'[l.intent].answer
  BY <1>1 DEF Sure, Monotone
<1>5. l.at \in {"stripe", "recordRefund"} =>
        l.row \in Refunds /\ refunds'[l.row].payment = l.intent /\ refunds'[l.row].status = "PENDING"
  BY <1>1 DEF Sure, RowKept, InFlight
<1>6. l.at \in {"load", "clash", "confirm", "lost"} => l.intent \in payments'
  BY <1>1 DEF Sure, Monotone
<1>7. l.at \in {"refund", "stripe", "recordRefund"} => l.intent \in Intents /\ consult'.with # "none"
  BY <1>1 DEF Sure, Monotone
<1>8. work'[v] = l
  OBVIOUS
<1>9. /\ l.at = "record" => l.intent \in Intents
      /\ l.at \in {"basis", "recheck", "credit"} => l.target \in {"CANCELLED", "NO_SHOW"}
      /\ l.at \in {"recheck", "credit"} =>
           l.base > 0 /\ (l.base <= wallet'.spent \/ (payments' # {} /\ l.base <= CardTotal))
  BY <1>1, <1>2 DEF Sure
<1> HIDE DEF l
<1> QED
  BY <1>3, <1>4, <1>5, <1>6, <1>7, <1>8, <1>9 DEF Sure, Paid

\* One worker moves to the local state l: what has to be shown.
LEMMA OneMoves ==
  ASSUME IInv, Monotone, TypeOK', Rows', NEW w \in Workers, NEW l \in Locals,
         work' = [work EXCEPT ![w] = l], Sure(w)',
         \A v \in Workers \ {w}: RowKept(v),
         l.at \in {"stripe", "recordRefund"} =>
           \A v \in Workers \ {w}: InFlight(v) => work[v].row # l.row
  PROVE  IInv'
<1>1. work' \in [Workers -> Locals] /\ work'[w] = l
      /\ \A v \in Workers \ {w}: work'[v] = work[v]
  BY DEF IInv, Typed
<1>2. \A v \in Workers: Sure(v)'
  BY <1>1, OthersSure
<1>3. RowsOwned'
  <2> SUFFICES ASSUME NEW u \in Workers, NEW v \in Workers,
                      work'[u].at \in {"stripe", "recordRefund"},
                      work'[v].at \in {"stripe", "recordRefund"},
                      work'[u].row = work'[v].row
               PROVE  u = v
    BY DEF RowsOwned
  <2>1. CASE u = w
    BY <1>1, <2>1 DEF InFlight
  <2>2. CASE v = w
    BY <1>1, <2>2 DEF InFlight
  <2>3. CASE u # w /\ v # w
    BY <1>1, <2>3 DEF IInv, RowsOwned
  <2> QED BY <2>1, <2>2, <2>3
<1> QED BY <1>1, <1>2, <1>3 DEF IInv, Typed

\* Nobody moves: the clock, Stripe and the cleanup.
LEMMA NobodyMoves ==
  ASSUME IInv, Monotone, TypeOK', Rows', work' = work, \A v \in Workers: RowKept(v)
  PROVE  IInv'
<1>1. \A v \in Workers: Sure(v)'
  BY OthersSure
<1>2. RowsOwned'
  BY DEF IInv, RowsOwned
<1> QED BY <1>1, <1>2 DEF IInv, Typed

-----------------------------------------------------------------------------
\* What is said of the rows, by the tables it depends on.
LEMMA RefundsStay ==
  ASSUME IInv, refunds' = refunds, failures' = 0 => failures = 0,
         \A i \in Intents: stripe'[i].refund = stripe[i].refund /\ stripe'[i].answer = stripe[i].answer
  PROVE  AnswersHold' /\ RowsAbout' /\ RefundRowTruthful' /\ OneLiveRefund'
<1>1. AnswersHold' /\ RowsAbout' /\ OneLiveRefund'
  BY DEF IInv, Rows, AnswersHold, RowsAbout, OneLiveRefund
<1>2. RefundRowTruthful'
  BY DEF IInv, Rows, RowsAbout, RefundRowTruthful
<1> QED BY <1>1, <1>2

LEMMA WalletStays ==
  ASSUME IInv, wallet' = wallet, payments \subseteq payments'
  PROVE  SpentOnce' /\ CreditWithinPaid'
  BY DEF IInv, Rows, SpentOnce, CreditWithinPaid

LEMMA ConsultStays ==
  ASSUME IInv, wallet'.spent \in Nat, consult' = consult, payments \subseteq payments',
         wallet.spent <= wallet'.spent
  PROVE  MoneyBehind' /\ RefundBasisExists'
<1>1. wallet.spent \in Nat
  BY DEF IInv, Typed, TypeOK
<1> QED BY <1>1 DEF IInv, Rows, MoneyBehind, RefundBasisExists

LEMMA AllRowsStay ==
  ASSUME IInv, UNCHANGED <<consult, stripe, payments, wallet, refunds>>,
         failures' = 0 => failures = 0
  PROVE  Rows' /\ Monotone /\ \A v \in Workers: RowKept(v)
<1>1. wallet.spent \in Nat /\ wallet.spent <= wallet'.spent
  BY DEF IInv, Typed, TypeOK
<1>2. Monotone /\ \A v \in Workers: RowKept(v)
  BY <1>1 DEF Monotone, RowKept
<1>3. Rows'
  BY <1>1, RefundsStay, WalletStays, ConsultStays DEF Rows
<1> QED BY <1>2, <1>3

\* The rows' types, and what the type invariant says of the workers.
LEMMA WorkTyped ==
  ASSUME IInv, NEW w \in Workers, NEW l \in Locals, work' = [work EXCEPT ![w] = l]
  PROVE  /\ work'[w] = l
         /\ \A v \in Workers: work'[v].base \in Nat /\ work'[v].target \in Statuses
  BY DEF IInv, Typed, TypeOK, Locals

LEMMA IdleTyped == Idle \in Locals
  BY DEF Idle, Locals, Steps, Answers, Statuses

LEMMA IdleSure == ASSUME NEW w \in Workers, work'[w] = Idle PROVE Sure(w)'
  BY DEF Sure, Idle

\* A worker that moves without writing a row.
LEMMA LocalStep ==
  ASSUME IInv, NEW w \in Workers, NEW l \in Locals, work' = [work EXCEPT ![w] = l],
         UNCHANGED <<consult, hours, stripe, payments, wallet, refunds>>,
         FailuresGrow, Sure(w)', l.at \notin {"stripe", "recordRefund"}
  PROVE  IInv'
<1>1. TypeOK'
  BY ZenonT(60), WorkTyped DEF FailuresGrow, IInv, Typed, TypeOK
<1> QED BY <1>1, AllRowsStay, OneMoves DEF FailuresGrow

LEMMA GiveUp ==
  ASSUME IInv, NEW w \in Workers, Finish(w), FailuresGrow,
         UNCHANGED <<consult, hours, stripe, payments, wallet, refunds>>
  PROVE  IInv'
<1>1. work' = [work EXCEPT ![w] = Idle] /\ work'[w] = Idle /\ Idle.at = "idle"
  BY DEF IInv, Typed, Finish, Idle
<1> QED BY <1>1, IdleTyped, IdleSure, LocalStep

\* A worker goes on to another step, the rest of its state unchanged.
LEMMA GoesTo ==
  ASSUME IInv, NEW w \in Workers, NEW at \in Steps \ {"stripe", "recordRefund"}, Goto(w, at),
         UNCHANGED <<consult, hours, stripe, payments, wallet, refunds, failures>>,
         Sure(w)'
  PROVE  IInv'
<1> DEFINE l == [work[w] EXCEPT !.at = at]
<1>1. l \in Locals /\ l.at = at
  BY DEF IInv, Typed, Locals
<1>2. work' = [work EXCEPT ![w] = l]
  BY DEF IInv, Typed, Goto
<1>3. FailuresGrow
  BY DEF FailuresGrow, IInv, Typed, TypeOK
<1> HIDE DEF l
<1> QED BY <1>1, <1>2, <1>3, LocalStep

-----------------------------------------------------------------------------
\* Requests and deliveries begin.
LEMMA DeliverInv ==
  ASSUME IInv, NEW w \in Workers, NEW i \in Intents, Deliver(w, i)
  PROVE  IInv'
<1> DEFINE l == [Idle EXCEPT !.at = "record", !.intent = i]
<1>1. l \in Locals /\ l.at = "record" /\ l.intent = i
  BY IdleTyped DEF Locals, Steps, Idle
<1>2. work' = [work EXCEPT ![w] = l]
  BY DEF Deliver, Start
<1> HIDE DEF l
<1>3. Sure(w)'
  BY <1>1, <1>2, WorkTyped DEF Sure
<1> QED BY <1>1, <1>2, <1>3, LocalStep DEF Deliver, FailuresGrow, IInv, Typed, TypeOK

LEMMA WalletStartInv ==
  ASSUME IInv, NEW w \in Workers, WalletStart(w)
  PROVE  IInv'
<1> DEFINE l == [Idle EXCEPT !.at = "wallet"]
<1>1. l \in Locals /\ l.at = "wallet"
  BY IdleTyped DEF Locals, Steps, Idle
<1>2. work' = [work EXCEPT ![w] = l]
  BY DEF WalletStart, Start
<1> HIDE DEF l
<1>3. Sure(w)'
  BY <1>1, <1>2, WorkTyped DEF Sure
<1> QED BY <1>1, <1>2, <1>3, LocalStep DEF WalletStart, FailuresGrow, IInv, Typed, TypeOK

\* A confirmed booking's money is behind it: by the intent it names, or in the
\* wallet.
LEMMA ConfirmedIsPaid ==
  ASSUME IInv, consult.status = "CONFIRMED"
  PROVE  IF consult.intent = None THEN wallet.spent > 0 ELSE consult.intent \in payments
<1>1. consult.with \in {"CARD", "WALLET"}
  BY DEF IInv, Typed, TypeOK, Rows, MoneyBehind
<1> QED BY <1>1 DEF IInv, Rows, MoneyBehind

LEMMA EndStartInv ==
  ASSUME IInv, NEW w \in Workers, NEW target \in {"CANCELLED", "NO_SHOW", "COMPLETED"},
         EndStart(w, target)
  PROVE  IInv'
<1> DEFINE h == IF consult.slot THEN hours ELSE 0
           at == IF target = "COMPLETED" THEN "complete" ELSE "basis"
           l == [Idle EXCEPT !.at = at, !.target = target, !.intent = consult.intent, !.hours = h]
<1>1. h \in Int /\ at \in Steps /\ consult.intent \in Intents \cup {None} /\ target \in Statuses
  BY DEF IInv, Typed, TypeOK, Steps, Statuses
<1>2. l \in Locals /\ l.at = at /\ l.target = target /\ l.intent = consult.intent
  BY <1>1, IdleTyped DEF Locals, Idle
<1>3. work' = [work EXCEPT ![w] = l]
  BY DEF EndStart, Start
<1>4. at = "basis" => consult.status = "CONFIRMED"
  BY DEF EndStart
<1>5. at \in {"basis", "complete"} /\ (at = "basis" => target \in {"CANCELLED", "NO_SHOW"})
  OBVIOUS
<1>6. UNCHANGED <<consult, hours, stripe, payments, wallet, refunds, failures>>
  BY DEF EndStart
<1> HIDE DEF l, at, h
<1>7. work'[w] = l
  BY <1>2, <1>3, WorkTyped
<1>8. Sure(w)'
  BY <1>2, <1>4, <1>5, <1>6, <1>7, ConfirmedIsPaid DEF Sure
<1>9. l.at \notin {"stripe", "recordRefund"} /\ FailuresGrow
  BY <1>2, <1>5, <1>6 DEF FailuresGrow, IInv, Typed, TypeOK
<1> QED BY <1>2, <1>3, <1>6, <1>8, <1>9, LocalStep

LEMMA RefundStartInv ==
  ASSUME IInv, NEW w \in Workers, RefundStart(w)
  PROVE  IInv'
<1> DEFINE l == [Idle EXCEPT !.at = "refund", !.intent = consult.intent]
<1>1. consult.intent \in Intents /\ consult.with # "none"
  BY DEF RefundStart, IInv, Typed, TypeOK, Rows, MoneyBehind
<1>2. l \in Locals /\ l.at = "refund" /\ l.intent = consult.intent
  BY <1>1, IdleTyped DEF Locals, Steps, Idle
<1>3. work' = [work EXCEPT ![w] = l]
  BY DEF RefundStart, Start
<1> HIDE DEF l
<1>4. Sure(w)'
  BY <1>1, <1>2, <1>3, WorkTyped DEF Sure, RefundStart
<1> QED BY <1>2, <1>3, <1>4, LocalStep DEF RefundStart, FailuresGrow, IInv, Typed, TypeOK

\* Steps that read and go on.
LEMMA CheckClashInv ==
  ASSUME IInv, NEW w \in Workers, CheckClash(w)
  PROVE  IInv'
<1>1. PICK at \in {"confirm", "lost"}: Goto(w, at)
  BY DEF CheckClash
<1>2. work[w].intent \in payments /\ payments' = payments
  BY DEF CheckClash, IInv, Sure
<1>3. work'[w].at = at /\ work'[w].intent = work[w].intent
  BY <1>1 DEF Goto, IInv, Typed, Locals
<1>4. Sure(w)'
  BY <1>1, <1>2, <1>3 DEF Sure
<1> QED BY <1>1, <1>4, GoesTo DEF CheckClash, Steps

LEMMA WalletCheckInv ==
  ASSUME IInv, NEW w \in Workers, WalletCheck(w)
  PROVE  IInv'
<1>1. CASE Finish(w)
  BY <1>1, GiveUp DEF WalletCheck, FailuresGrow, IInv, Typed, TypeOK
<1>2. CASE Goto(w, "debit")
  <2>1. work'[w].at = "debit"
    BY <1>2 DEF Goto, IInv, Typed, Locals
  <2> QED BY <1>2, <2>1, GoesTo DEF WalletCheck, Steps, Sure
<1> QED BY <1>1, <1>2 DEF WalletCheck

LEMMA ResolveBasisInv ==
  ASSUME IInv, NEW w \in Workers, ResolveBasis(w)
  PROVE  IInv'
<1> DEFINE b == IF work[w].intent # None
                THEN (IF work[w].intent \in payments THEN CardTotal ELSE 0)
                ELSE wallet.spent
           l == [work[w] EXCEPT !.at = "recheck", !.base = b]
<1>1. work[w] \in Locals /\ work[w].at = "basis" /\ Sure(w) /\ wallet.spent \in Nat
  BY DEF ResolveBasis, IInv, Typed, TypeOK
<1>2. b \in Nat /\ b > 0 /\ Paid(b)
  BY <1>1, SettlementAssumption DEF Sure, Paid
<1> HIDE DEF b
<1>3. l \in Locals /\ l.at = "recheck" /\ l.base = b /\ l.target = work[w].target
  BY <1>1, <1>2 DEF Locals, Steps
<1>4. work' = [work EXCEPT ![w] = l]
  BY DEF ResolveBasis, b, IInv, Typed
<1>5. UNCHANGED <<consult, hours, stripe, payments, wallet, refunds, failures>>
  BY DEF ResolveBasis
<1> HIDE DEF l
<1>6. work'[w] = l /\ l.target \in {"CANCELLED", "NO_SHOW"}
  BY <1>1, <1>3, <1>4, WorkTyped DEF Sure
<1>7. Sure(w)'
  BY <1>2, <1>3, <1>5, <1>6 DEF Sure, Paid
<1> QED BY <1>3, <1>4, <1>5, <1>7, LocalStep DEF FailuresGrow, IInv, Typed, TypeOK

LEMMA EndRecheckInv ==
  ASSUME IInv, NEW w \in Workers, EndRecheck(w)
  PROVE  IInv'
<1>1. CASE Finish(w)
  BY <1>1, GiveUp DEF EndRecheck, FailuresGrow, IInv, Typed, TypeOK
<1>2. CASE Goto(w, "credit")
  <2>1. /\ work'[w].at = "credit" /\ work'[w].base = work[w].base
        /\ work'[w].target = work[w].target
    BY <1>2 DEF Goto, IInv, Typed, Locals
  <2>2. /\ work[w].target \in {"CANCELLED", "NO_SHOW"} /\ work[w].base > 0
        /\ Paid(work[w].base)
    BY DEF EndRecheck, IInv, Sure
  <2>3. Sure(w)'
    BY <2>1, <2>2 DEF Sure, Paid, EndRecheck
  <2> QED BY <1>2, <2>3, GoesTo DEF EndRecheck, Steps
<1> QED BY <1>1, <1>2 DEF EndRecheck

-----------------------------------------------------------------------------
\* The webhook.
LEMMA AckKeeps ==
  ASSUME IInv, NEW w \in Workers, work[w].intent \in Intents, Ack(w)
  PROVE  /\ \A i \in Intents: stripe'[i].refund = stripe[i].refund /\ stripe'[i].answer = stripe[i].answer
         /\ stripe' \in [Intents -> [state: {"new", "open", "captured"}, acked: BOOLEAN,
                                     refund: {"none", "succeeded", "pending", "failed"},
                                     answer: {"none", "succeeded", "pending", "failed"}]]
         /\ work' = [work EXCEPT ![w] = Idle]
<1> DEFINE j == work[w].intent
           s == [stripe[j] EXCEPT !.acked = TRUE]
           S == [state: {"new", "open", "captured"}, acked: BOOLEAN,
                 refund: {"none", "succeeded", "pending", "failed"},
                 answer: {"none", "succeeded", "pending", "failed"}]
<1>1. stripe \in [Intents -> S] /\ j \in Intents
  BY DEF IInv, Typed, TypeOK
<1>2. s \in S /\ s.refund = stripe[j].refund /\ s.answer = stripe[j].answer
  BY <1>1
<1>3. stripe' = [stripe EXCEPT ![j] = s]
  BY DEF Ack
<1>4. work' = [work EXCEPT ![w] = Idle]
  BY DEF Ack, Finish
<1> HIDE DEF s, S
<1>5. stripe' \in [Intents -> S]
      /\ \A i \in Intents: stripe'[i].refund = stripe[i].refund /\ stripe'[i].answer = stripe[i].answer
  BY <1>1, <1>2, <1>3
<1> QED BY <1>4, <1>5 DEF S

\* The webhook's last step: the row may change, the payment stays recorded.
LEMMA HandlerEnds ==
  ASSUME IInv, NEW w \in Workers, work[w].intent \in Intents, Ack(w),
         UNCHANGED <<hours, payments, wallet, refunds, failures>>,
         MoneyBehind', RefundBasisExists',
         consult' \in [status: Statuses, paid: {"PENDING", "PAID", "REFUNDED"},
                       with: {"none", "CARD", "WALLET"}, intent: Intents \cup {None},
                       hold: {"none", "live", "lapsed"}, slot: BOOLEAN],
         consult'.status = "CONFIRMED" => consult'.hold = "none",
         consult.with # "none" => consult'.with # "none"
  PROVE  IInv'
<1>1. /\ \A i \in Intents: stripe'[i].refund = stripe[i].refund /\ stripe'[i].answer = stripe[i].answer
      /\ stripe' \in [Intents -> [state: {"new", "open", "captured"}, acked: BOOLEAN,
                                  refund: {"none", "succeeded", "pending", "failed"},
                                  answer: {"none", "succeeded", "pending", "failed"}]]
      /\ work' = [work EXCEPT ![w] = Idle]
  BY AckKeeps
<1>2. work'[w] = Idle /\ \A v \in Workers: work'[v].base \in Nat /\ work'[v].target \in Statuses
  BY <1>1, IdleTyped, WorkTyped
<1>3. TypeOK'
  BY <1>1, <1>2 DEF IInv, Typed, TypeOK
<1>4. Rows'
  BY <1>1, RefundsStay, WalletStays DEF Rows
<1>5. Monotone /\ \A v \in Workers: RowKept(v)
  BY <1>1 DEF Monotone, RowKept, IInv, Typed, TypeOK
<1>6. Idle.at = "idle"
  BY DEF Idle
<1> QED BY <1>1, <1>2, <1>3, <1>4, <1>5, <1>6, IdleTyped, IdleSure, OneMoves

\* The booking's row is not written by the last step.
LEMMA AckOnly ==
  ASSUME IInv, NEW w \in Workers, work[w].intent \in Intents, Ack(w),
         UNCHANGED <<consult, hours, payments, wallet, refunds, failures>>
  PROVE  IInv'
<1>1. wallet'.spent \in Nat /\ wallet.spent <= wallet'.spent
  BY DEF IInv, Typed, TypeOK
<1>2. MoneyBehind' /\ RefundBasisExists'
  BY <1>1, ConsultStays
<1> QED BY <1>2, HandlerEnds DEF IInv, Typed, TypeOK

LEMMA RecordPaymentInv ==
  ASSUME IInv, NEW w \in Workers, RecordPayment(w)
  PROVE  IInv'
<1> DEFINE i == work[w].intent  l == [work[w] EXCEPT !.at = "load"]
<1>1. i \in Intents /\ work[w] \in Locals
  BY DEF RecordPayment, IInv, Typed, Sure
<1>2. CASE AlreadyRecorded(i)
  BY <1>1, <1>2, AckOnly DEF RecordPayment
<1>3. CASE ~AlreadyRecorded(i)
  <2>1. /\ payments' = payments \cup {i} /\ Goto(w, "load")
        /\ UNCHANGED <<consult, hours, stripe, wallet, refunds, failures>>
    BY <1>3 DEF RecordPayment
  <2>2. l \in Locals /\ l.at = "load" /\ l.intent = i /\ work' = [work EXCEPT ![w] = l]
    BY <1>1, <2>1 DEF Locals, Steps, Goto, IInv, Typed
  <2> HIDE DEF l
  <2>3. work'[w] = l /\ \A v \in Workers: work'[v].base \in Nat /\ work'[v].target \in Statuses
    BY <2>2, WorkTyped
  <2>4. TypeOK'
    BY <1>1, <2>1, <2>3 DEF IInv, Typed, TypeOK
  <2>5. payments \subseteq payments' /\ wallet'.spent \in Nat /\ wallet.spent <= wallet'.spent
    BY <2>1 DEF IInv, Typed, TypeOK
  <2>6. Rows'
    BY <2>1, <2>5, RefundsStay, WalletStays, ConsultStays DEF Rows
  <2>7. Monotone /\ \A v \in Workers: RowKept(v)
    BY <2>1, <2>5 DEF Monotone, RowKept
  <2>8. Sure(w)'
    BY <2>1, <2>2, <2>3 DEF Sure
  <2> QED BY <2>2, <2>4, <2>6, <2>7, <2>8, OneMoves
<1> QED BY <1>2, <1>3

LEMMA LoadConsultationInv ==
  ASSUME IInv, NEW w \in Workers, LoadConsultation(w)
  PROVE  IInv'
<1> DEFINE l == [work[w] EXCEPT !.at = "clash", !.slot = consult.slot]
<1>1. work[w].intent \in payments /\ work[w].intent \in Intents /\ work[w] \in Locals
  BY DEF LoadConsultation, IInv, Typed, TypeOK, Sure
<1>2. CASE Settled
  BY <1>1, <1>2, AckOnly DEF LoadConsultation
<1>3. CASE ~Settled
  <2>1. UNCHANGED <<consult, hours, stripe, payments, wallet, refunds, failures>>
    BY <1>3 DEF LoadConsultation
  <2>2. l \in Locals /\ l.at = "clash" /\ l.intent = work[w].intent
    BY <1>1 DEF Locals, Steps, IInv, Typed, TypeOK
  <2>3. work' = [work EXCEPT ![w] = l]
    BY <1>3 DEF LoadConsultation, IInv, Typed
  <2> HIDE DEF l
  <2>4. Sure(w)'
    <3>1. work'[w] = l
      BY <2>2, <2>3, WorkTyped
    <3>2. payments' = payments
      BY <2>1
    <3> QED BY <1>1, <2>2, <3>1, <3>2 DEF Sure
  <2>5. FailuresGrow /\ l.at \notin {"stripe", "recordRefund"}
    BY <2>1, <2>2 DEF FailuresGrow, IInv, Typed, TypeOK
  <2> QED BY <2>1, <2>2, <2>3, <2>4, <2>5, LocalStep
<1> QED BY <1>2, <1>3

\* A row marked as paid by card names the recorded intent that paid it.
LEMMA PaidByCardRow ==
  ASSUME IInv, NEW i \in payments, consult'.intent = i, consult'.with = "CARD",
         consult'.paid = "PAID", payments' = payments
  PROVE  MoneyBehind' /\ RefundBasisExists'
<1>1. i # None
  BY SettlementAssumption DEF IInv, Typed, TypeOK
<1> QED BY <1>1 DEF MoneyBehind, RefundBasisExists

LEMMA ConfirmByCardInv ==
  ASSUME IInv, NEW w \in Workers, ConfirmByCard(w)
  PROVE  IInv'
<1> DEFINE i == work[w].intent
<1>1. i \in payments /\ i \in Intents
  BY DEF ConfirmByCard, IInv, Typed, TypeOK, Sure
<1>2. CASE Goto(w, "lost") /\ UNCHANGED <<consult, stripe>>
  <2>1. work'[w].at = "lost" /\ work'[w].intent = i
    BY <1>2 DEF Goto, IInv, Typed, Locals
  <2>2. Sure(w)'
    BY <1>1, <2>1 DEF Sure, ConfirmByCard
  <2> QED BY <1>2, <2>2, GoesTo DEF ConfirmByCard, Steps
<1>3. CASE /\ consult' = [PaidByCard(i, consult) EXCEPT !.status = "CONFIRMED"]
           /\ Ack(w)
  <2>1. /\ consult'.intent = i /\ consult'.with = "CARD" /\ consult'.paid = "PAID"
        /\ consult'.hold = "none"
        /\ consult' \in [status: Statuses, paid: {"PENDING", "PAID", "REFUNDED"},
                         with: {"none", "CARD", "WALLET"}, intent: Intents \cup {None},
                         hold: {"none", "live", "lapsed"}, slot: BOOLEAN]
    BY <1>1, <1>3 DEF PaidByCard, IInv, Typed, TypeOK, Statuses
  <2> QED BY <1>1, <1>3, <2>1, PaidByCardRow, HandlerEnds DEF ConfirmByCard
<1> QED BY <1>2, <1>3 DEF ConfirmByCard

LEMMA SlotLostInv ==
  ASSUME IInv, NEW w \in Workers, SlotLost(w)
  PROVE  IInv'
<1> DEFINE i == work[w].intent
<1>1. i \in payments /\ i \in Intents
  BY DEF SlotLost, IInv, Typed, TypeOK, Sure
<1>2. /\ consult'.intent = i /\ consult'.with = "CARD" /\ consult'.paid = "PAID"
      /\ consult'.hold = "none"
      /\ consult' \in [status: Statuses, paid: {"PENDING", "PAID", "REFUNDED"},
                       with: {"none", "CARD", "WALLET"}, intent: Intents \cup {None},
                       hold: {"none", "live", "lapsed"}, slot: BOOLEAN]
  BY <1>1 DEF SlotLost, PaidByCard, IInv, Typed, TypeOK
<1> QED BY <1>1, <1>2, PaidByCardRow, HandlerEnds DEF SlotLost

-----------------------------------------------------------------------------
\* A worker ends after writing the booking and the wallet.
LEMMA EndsWithMoney ==
  ASSUME IInv, NEW w \in Workers, Finish(w),
         UNCHANGED <<hours, stripe, payments, refunds, failures>>,
         MoneyBehind', RefundBasisExists', SpentOnce', CreditWithinPaid',
         wallet' \in [spent: Nat, credit: Nat], wallet.spent <= wallet'.spent,
         consult' \in [status: Statuses, paid: {"PENDING", "PAID", "REFUNDED"},
                       with: {"none", "CARD", "WALLET"}, intent: Intents \cup {None},
                       hold: {"none", "live", "lapsed"}, slot: BOOLEAN],
         consult'.status = "CONFIRMED" => consult'.hold = "none",
         consult.with # "none" => consult'.with # "none"
  PROVE  IInv'
<1>1. work' = [work EXCEPT ![w] = Idle] /\ Idle.at = "idle"
  BY DEF Finish, Idle
<1>2. work'[w] = Idle /\ \A v \in Workers: work'[v].base \in Nat /\ work'[v].target \in Statuses
  BY <1>1, IdleTyped, WorkTyped
<1>3. TypeOK'
  BY <1>2 DEF IInv, Typed, TypeOK
<1>4. Rows'
  BY RefundsStay DEF Rows
<1>5. Monotone /\ \A v \in Workers: RowKept(v)
  BY DEF Monotone, RowKept
<1> QED BY <1>1, <1>2, <1>3, <1>4, <1>5, IdleTyped, IdleSure, OneMoves

LEMMA WalletConfirmInv ==
  ASSUME IInv, NEW w \in Workers, WalletConfirm(w)
  PROVE  IInv'
<1>1. CASE UNCHANGED <<wallet, consult>>
  BY <1>1, GiveUp DEF WalletConfirm, FailuresGrow, IInv, Typed, TypeOK
<1>2. CASE /\ ~SpendRefused
           /\ wallet' = [wallet EXCEPT !.spent = @ + WalletPrice]
           /\ consult' = [consult EXCEPT !.status = "CONFIRMED", !.paid = "PAID",
                                         !.with = "WALLET", !.hold = "none"]
  <2>1. wallet \in [spent: Nat, credit: Nat] /\ wallet.spent = 0
    BY <1>2 DEF SpendRefused, IInv, Typed, TypeOK
  <2>2. /\ wallet' \in [spent: Nat, credit: Nat] /\ wallet'.spent = WalletPrice
        /\ wallet'.credit = wallet.credit /\ wallet'.spent > 0
    BY <1>2, <2>1, SettlementAssumption
  <2>3. /\ consult'.with = "WALLET" /\ consult'.paid = "PAID" /\ consult'.hold = "none"
        /\ consult'.intent = consult.intent
        /\ consult' \in [status: Statuses, paid: {"PENDING", "PAID", "REFUNDED"},
                         with: {"none", "CARD", "WALLET"}, intent: Intents \cup {None},
                         hold: {"none", "live", "lapsed"}, slot: BOOLEAN]
    BY <1>2 DEF IInv, Typed, TypeOK, Statuses
  <2>4. payments' = payments
    BY DEF WalletConfirm
  <2>5. MoneyBehind' /\ RefundBasisExists'
    BY <2>2, <2>3, <2>4 DEF IInv, Rows, MoneyBehind, RefundBasisExists
  <2>6. SpentOnce'
    BY <2>2 DEF SpentOnce
  <2>7. CreditWithinPaid'
    BY <2>1, <2>2, <2>4, SettlementAssumption DEF IInv, Rows, CreditWithinPaid
  <2> QED BY <2>1, <2>2, <2>3, <2>5, <2>6, <2>7, EndsWithMoney DEF WalletConfirm
<1> QED BY <1>1, <1>2 DEF WalletConfirm

\* What a cancellation or a no-show credits: something, and no more than was paid.
LEMMA CreditOfEnd ==
  ASSUME IInv, NEW w \in Workers, work[w].at = "credit"
  PROVE  Credit(w) \in Nat /\ Credit(w) > 0 /\ Paid(Credit(w))
<1> DEFINE base == work[w].base
<1>1. /\ base \in Nat /\ base > 0 /\ Paid(base) /\ work[w].hours \in Int
      /\ wallet.spent \in Nat
  BY DEF IInv, Typed, TypeOK, Locals, Sure
<1>2. /\ Credit(w) \in Nat /\ Credit(w) > 0 /\ Credit(w) <= base
  BY <1>1, CreditBounds DEF Credit, Kinds
<1> QED BY <1>1, <1>2, SettlementAssumption DEF Paid

LEMMA EndWriteInv ==
  ASSUME IInv, NEW w \in Workers, EndWrite(w)
  PROVE  IInv'
<1>1. CASE CreditRefused(w)
  BY <1>1, GiveUp DEF EndWrite, FailuresGrow, IInv, Typed, TypeOK
<1>2. CASE ~CreditRefused(w)
  <2> DEFINE c == Credit(w)
  <2>1. c \in Nat /\ c > 0 /\ Paid(c) /\ work[w].target \in {"CANCELLED", "NO_SHOW"}
    BY CreditOfEnd DEF EndWrite, IInv, Sure
  <2>2. /\ wallet' = [wallet EXCEPT !.credit = @ + c]
        /\ consult' = [consult EXCEPT !.status = work[w].target]
    BY <1>2 DEF EndWrite
  <2>3. wallet \in [spent: Nat, credit: Nat] /\ wallet.credit = 0
    BY <1>2, <2>1 DEF CreditRefused, IInv, Typed, TypeOK
  <2> HIDE DEF c
  <2>4. /\ wallet' \in [spent: Nat, credit: Nat] /\ wallet'.spent = wallet.spent
        /\ wallet'.credit = c
    BY <2>1, <2>2, <2>3
  <2>5. /\ consult'.with = consult.with /\ consult'.paid = consult.paid
        /\ consult'.intent = consult.intent /\ consult'.status = work[w].target
        /\ consult' \in [status: Statuses, paid: {"PENDING", "PAID", "REFUNDED"},
                         with: {"none", "CARD", "WALLET"}, intent: Intents \cup {None},
                         hold: {"none", "live", "lapsed"}, slot: BOOLEAN]
    BY <2>1, <2>2 DEF IInv, Typed, TypeOK, Statuses
  <2>6. payments' = payments
    BY DEF EndWrite
  <2>7. MoneyBehind' /\ RefundBasisExists'
    BY <2>1, <2>4, <2>5, <2>6 DEF IInv, Rows, MoneyBehind, RefundBasisExists
  <2>8. SpentOnce' /\ CreditWithinPaid'
    BY <2>1, <2>4, <2>6 DEF IInv, Rows, SpentOnce, CreditWithinPaid, Paid
  <2>9. consult'.status # "CONFIRMED" /\ wallet.spent <= wallet'.spent
    BY <2>1, <2>3, <2>4, <2>5
  <2> QED BY <2>4, <2>5, <2>7, <2>8, <2>9, EndsWithMoney DEF EndWrite
<1> QED BY <1>1, <1>2

LEMMA CompleteWriteInv ==
  ASSUME IInv, NEW w \in Workers, CompleteWrite(w)
  PROVE  IInv'
<1>1. /\ consult'.with = consult.with /\ consult'.paid = consult.paid
      /\ consult'.intent = consult.intent /\ consult'.status = "COMPLETED"
      /\ consult' \in [status: Statuses, paid: {"PENDING", "PAID", "REFUNDED"},
                       with: {"none", "CARD", "WALLET"}, intent: Intents \cup {None},
                       hold: {"none", "live", "lapsed"}, slot: BOOLEAN]
  BY DEF CompleteWrite, IInv, Typed, TypeOK, Statuses
<1>2. payments' = payments /\ wallet' = wallet
  BY DEF CompleteWrite
<1>3. MoneyBehind' /\ RefundBasisExists'
  BY <1>1, <1>2 DEF IInv, Rows, MoneyBehind, RefundBasisExists
<1>4. SpentOnce' /\ CreditWithinPaid'
  BY <1>2, WalletStays
<1>5. wallet' \in [spent: Nat, credit: Nat] /\ wallet.spent <= wallet'.spent
  BY <1>2 DEF IInv, Typed, TypeOK
<1> QED BY <1>1, <1>3, <1>4, <1>5, EndsWithMoney DEF CompleteWrite

-----------------------------------------------------------------------------
\* The refund to the card.
RefundRows == [payment: Intents \cup {None}, status: {"none", "PENDING", "COMPLETED", "FAILED"},
               stripeId: Intents \cup {None}]

\* One refund row is rewritten, by a worker that owns it or with a free one.
LEMMA OneRefundRow ==
  ASSUME IInv, NEW x \in Refunds, NEW r \in RefundRows, refunds' = [refunds EXCEPT ![x] = r]
  PROVE  /\ refunds' \in [Refunds -> RefundRows] /\ refunds'[x] = r
         /\ \A y \in Refunds \ {x}: refunds'[y] = refunds[y]
  BY DEF IInv, Typed, TypeOK, RefundRows

\* The booking and its money as a refund step leaves them: only the mark
\* REFUNDED may be new, and only on a booking that was paid.
RefundLeaves ==
  /\ UNCHANGED <<hours, payments, wallet>>
  /\ consult' = consult \/ (consult.with # "none" /\ consult' = [consult EXCEPT !.paid = "REFUNDED"])

LEMMA RefundLeavesMoney ==
  ASSUME IInv, RefundLeaves
  PROVE  /\ MoneyBehind' /\ RefundBasisExists' /\ SpentOnce' /\ CreditWithinPaid'
         /\ consult'.with = consult.with
         /\ consult' \in [status: Statuses, paid: {"PENDING", "PAID", "REFUNDED"},
                          with: {"none", "CARD", "WALLET"}, intent: Intents \cup {None},
                          hold: {"none", "live", "lapsed"}, slot: BOOLEAN]
         /\ consult'.status = "CONFIRMED" => consult'.hold = "none"
<1>1. /\ consult'.with = consult.with /\ consult'.status = consult.status
      /\ consult'.intent = consult.intent /\ consult'.hold = consult.hold
      /\ consult'.paid = consult.paid \/ (consult'.paid = "REFUNDED" /\ consult.with # "none")
      /\ consult' \in [status: Statuses, paid: {"PENDING", "PAID", "REFUNDED"},
                       with: {"none", "CARD", "WALLET"}, intent: Intents \cup {None},
                       hold: {"none", "live", "lapsed"}, slot: BOOLEAN]
  BY DEF RefundLeaves, IInv, Typed, TypeOK
<1>2. payments' = payments /\ wallet' = wallet
  BY DEF RefundLeaves
<1>3. SpentOnce' /\ CreditWithinPaid'
  BY <1>2, WalletStays
<1>4. MoneyBehind'
  BY <1>1, <1>2 DEF IInv, Rows, MoneyBehind
<1>5. RefundBasisExists'
  BY <1>1, <1>2 DEF IInv, Typed, TypeOK, Rows, MoneyBehind, RefundBasisExists
<1>6. consult'.status = "CONFIRMED" => consult'.hold = "none"
  BY <1>1 DEF IInv, Typed, TypeOK
<1> QED BY <1>1, <1>3, <1>4, <1>5, <1>6

LEMMA RefundCreateInv ==
  ASSUME IInv, NEW w \in Workers, RefundCreate(w)
  PROVE  IInv'
<1> DEFINE i == work[w].intent
<1>1. i \in Intents /\ work[w] \in Locals /\ consult.with # "none"
  BY DEF RefundCreate, IInv, Typed, Sure
<1>2. CASE LiveRefund(i)
  BY <1>2, GiveUp DEF RefundCreate, FailuresGrow, IInv, Typed, TypeOK
<1>3. CASE ~LiveRefund(i)
  <2>1. PICK x \in Refunds:
          /\ refunds[x].status = "none"
          /\ refunds' = [refunds EXCEPT ![x] = [NoRefund EXCEPT !.payment = i, !.status = "PENDING"]]
          /\ work' = [work EXCEPT ![w].at = "stripe", ![w].row = x]
    BY <1>3 DEF RefundCreate
  <2> DEFINE r == [NoRefund EXCEPT !.payment = i, !.status = "PENDING"]
             l == [work[w] EXCEPT !.at = "stripe", !.row = x]
  <2>2. r \in RefundRows /\ r.payment = i /\ r.status = "PENDING"
    BY <1>1 DEF NoRefund, RefundRows
  <2>3. /\ l \in Locals /\ l.at = "stripe" /\ l.row = x /\ l.intent = i
        /\ work' = [work EXCEPT ![w] = l]
    BY <1>1, <2>1 DEF Locals, Steps, IInv, Typed
  <2>4. refunds' = [refunds EXCEPT ![x] = r]
    BY <2>1
  <2> HIDE DEF r, l
  <2>5. /\ refunds' \in [Refunds -> RefundRows] /\ refunds'[x] = r
        /\ \A y \in Refunds \ {x}: refunds'[y] = refunds[y]
    BY <2>2, <2>4, OneRefundRow
  <2>6. UNCHANGED <<consult, hours, stripe, payments, wallet, failures>>
    BY <1>3 DEF RefundCreate
  <2>7. work'[w] = l /\ \A v \in Workers: work'[v].base \in Nat /\ work'[v].target \in Statuses
    BY <2>3, WorkTyped
  <2>8. TypeOK'
    BY <2>5, <2>6, <2>7 DEF IInv, Typed, TypeOK, RefundRows
  <2>9. MoneyBehind' /\ RefundBasisExists' /\ SpentOnce' /\ CreditWithinPaid'
    BY <2>6, RefundLeavesMoney DEF RefundLeaves
  <2>10. AnswersHold' /\ RowsAbout'
    BY <1>1, <2>2, <2>5, <2>6 DEF IInv, Rows, AnswersHold, RowsAbout
  <2>11. RefundRowTruthful'
    BY <2>2, <2>5, <2>6 DEF IInv, Rows, RefundRowTruthful
  <2>12. OneLiveRefund'
    BY <1>3, <2>2, <2>5 DEF IInv, Rows, OneLiveRefund, LiveRefund
  <2>13. \A v \in Workers \ {w}: InFlight(v) => work[v].row # x
    BY <2>1 DEF InFlight, IInv, Sure
  <2>14. \A v \in Workers \ {w}: RowKept(v)
    BY <2>5, <2>13 DEF RowKept, InFlight, IInv, Sure
  <2>15. Monotone
    BY <2>6 DEF Monotone, IInv, Typed, TypeOK
  <2>16. Sure(w)'
    BY <1>1, <2>2, <2>3, <2>5, <2>6, <2>7 DEF Sure
  <2>17. Rows'
    BY <2>9, <2>10, <2>11, <2>12 DEF Rows
  <2> QED BY <2>3, <2>8, <2>13, <2>14, <2>15, <2>16, <2>17, OneMoves
<1> QED BY <1>2, <1>3

LEMMA StripeRefundInv ==
  ASSUME IInv, NEW w \in Workers, StripeRefund(w)
  PROVE  IInv'
<1> DEFINE i == work[w].intent  s0 == stripe[i]
<1>1. /\ i \in Intents /\ work[w] \in Locals /\ Sure(w) /\ work[w].at = "stripe"
  BY DEF StripeRefund, IInv, Typed, Sure
<1>2. PICK outcome \in {"succeeded", "pending", "failed"}:
        /\ s0.answer # "none" => outcome = s0.answer
        /\ stripe' = IF s0.answer # "none" THEN stripe
                     ELSE [stripe EXCEPT ![i].refund = outcome, ![i].answer = outcome]
        /\ work' = [work EXCEPT ![w].at = "recordRefund", ![w].answer = outcome]
  BY DEF StripeRefund
<1> DEFINE s1 == IF s0.answer # "none" THEN s0 ELSE [s0 EXCEPT !.refund = outcome, !.answer = outcome]
           S == [state: {"new", "open", "captured"}, acked: BOOLEAN,
                 refund: {"none", "succeeded", "pending", "failed"},
                 answer: {"none", "succeeded", "pending", "failed"}]
           l == [work[w] EXCEPT !.at = "recordRefund", !.answer = outcome]
<1>3. stripe \in [Intents -> S] /\ s0 \in S
  BY <1>1 DEF IInv, Typed, TypeOK
<1>4. /\ s1 \in S /\ s1.answer = outcome
      /\ s0.answer # "none" => s1.refund = s0.refund /\ s1.answer = s0.answer
      /\ s0.answer = "none" => s1.refund = outcome
  BY <1>2, <1>3
<1>5. stripe' = [stripe EXCEPT ![i] = s1]
  BY <1>1, <1>2, <1>3
<1>6. /\ l \in Locals /\ l.at = "recordRefund" /\ l.row = work[w].row /\ l.intent = i
      /\ l.answer = outcome /\ work' = [work EXCEPT ![w] = l]
  BY <1>1, <1>2 DEF Locals, Steps, Answers, IInv, Typed
<1> HIDE DEF s1, S, l
<1>7. stripe' \in [Intents -> S] /\ stripe'[i] = s1 /\ \A j \in Intents \ {i}: stripe'[j] = stripe[j]
  BY <1>1, <1>3, <1>4, <1>5
<1>8. UNCHANGED <<consult, hours, payments, wallet, refunds, failures>>
  BY DEF StripeRefund
<1>9. work'[w] = l /\ \A v \in Workers: work'[v].base \in Nat /\ work'[v].target \in Statuses
  BY <1>6, WorkTyped
<1>10. TypeOK'
  BY <1>7, <1>8, <1>9 DEF IInv, Typed, TypeOK, S
<1>11. MoneyBehind' /\ RefundBasisExists' /\ SpentOnce' /\ CreditWithinPaid'
  BY <1>8, RefundLeavesMoney DEF RefundLeaves
<1>12. AnswersHold'
  BY <1>1, <1>4, <1>7 DEF IInv, Rows, AnswersHold
<1>13. RowsAbout' /\ OneLiveRefund'
  BY <1>8 DEF IInv, Rows, RowsAbout, OneLiveRefund
<1>14. RefundRowTruthful'
  <2> SUFFICES ASSUME NEW x \in Refunds, NEW settled \in {"succeeded", "failed"},
                      refunds[x].status \in {"COMPLETED", "FAILED"},
                      stripe[refunds[x].payment].refund = settled
               PROVE  stripe'[refunds[x].payment].refund = settled
    BY <1>8 DEF RefundRowTruthful, IInv, Rows
  <2>1. refunds[x].payment \in Intents
    BY DEF IInv, Rows, RowsAbout
  <2>2. CASE refunds[x].payment = i
    <3>1. s0.answer # "none"
      BY <1>1, <2>1, <2>2 DEF IInv, Rows, AnswersHold
    <3> QED BY <1>4, <1>7, <2>1, <2>2, <3>1
  <2> QED BY <1>7, <2>1, <2>2
<1>15. Rows'
  BY <1>11, <1>12, <1>13, <1>14 DEF Rows
<1>16. Monotone /\ \A v \in Workers: RowKept(v)
  <2>1. wallet.spent <= wallet'.spent
    BY <1>8 DEF IInv, Typed, TypeOK
  <2>2. \A j \in Intents: stripe[j].answer # "none" => stripe'[j].answer = stripe[j].answer
    BY <1>4, <1>7
  <2> QED BY <1>8, <2>1, <2>2 DEF Monotone, RowKept
<1>17. Sure(w)'
  BY <1>1, <1>2, <1>4, <1>6, <1>7, <1>8, <1>9 DEF Sure
<1>18. \A v \in Workers \ {w}: InFlight(v) => work[v].row # l.row
  BY <1>1, <1>6 DEF InFlight, IInv, RowsOwned
<1> QED BY <1>6, <1>10, <1>15, <1>16, <1>17, <1>18, OneMoves

\* The worker that owned row x leaves it as r and ends.
LEMMA RowSettled ==
  ASSUME IInv, NEW w \in Workers, InFlight(w), Finish(w), RefundLeaves,
         NEW r \in RefundRows, refunds' = [refunds EXCEPT ![work[w].row] = r],
         r.status \in {"PENDING", "COMPLETED"} => r.payment = work[w].intent,
         r.status # "none" => r.payment \in Intents,
         r.status = "COMPLETED" => stripe[r.payment].refund = "succeeded",
         r.status = "FAILED" /\ failures' = 0 => stripe[r.payment].refund = "failed",
         stripe' = stripe, FailuresGrow
  PROVE  IInv'
<1> DEFINE x == work[w].row
<1>1. /\ x \in Refunds /\ refunds[x].payment = work[w].intent /\ refunds[x].status = "PENDING"
  BY DEF InFlight, IInv, Sure
<1>2. /\ refunds' \in [Refunds -> RefundRows] /\ refunds'[x] = r
      /\ \A y \in Refunds \ {x}: refunds'[y] = refunds[y]
  BY <1>1, OneRefundRow
<1>3. work' = [work EXCEPT ![w] = Idle] /\ Idle.at = "idle"
  BY DEF Finish, Idle
<1>4. work'[w] = Idle /\ \A v \in Workers: work'[v].base \in Nat /\ work'[v].target \in Statuses
  BY <1>3, IdleTyped, WorkTyped
<1>5. /\ MoneyBehind' /\ RefundBasisExists' /\ SpentOnce' /\ CreditWithinPaid'
      /\ consult'.with = consult.with
      /\ consult' \in [status: Statuses, paid: {"PENDING", "PAID", "REFUNDED"},
                       with: {"none", "CARD", "WALLET"}, intent: Intents \cup {None},
                       hold: {"none", "live", "lapsed"}, slot: BOOLEAN]
      /\ consult'.status = "CONFIRMED" => consult'.hold = "none"
  BY RefundLeavesMoney
<1>6. hours' = hours /\ payments' = payments /\ wallet' = wallet
  BY DEF RefundLeaves
<1>7. TypeOK'
  BY <1>2, <1>4, <1>5, <1>6 DEF FailuresGrow, IInv, Typed, TypeOK, RefundRows
<1>8. AnswersHold' /\ RowsAbout'
  BY <1>2 DEF IInv, Rows, AnswersHold, RowsAbout
<1>9. RefundRowTruthful'
  BY <1>2 DEF FailuresGrow, IInv, Rows, RefundRowTruthful
<1>10. OneLiveRefund'
  <2> SUFFICES ASSUME NEW y \in Refunds, NEW z \in Refunds,
                      refunds'[y].payment = refunds'[z].payment,
                      refunds'[y].status \in {"PENDING", "COMPLETED"},
                      refunds'[z].status \in {"PENDING", "COMPLETED"}
               PROVE  y = z
    BY DEF OneLiveRefund
  <2>1. refunds[y].payment = refunds'[y].payment /\ refunds[y].status \in {"PENDING", "COMPLETED"}
    BY <1>1, <1>2
  <2>2. refunds[z].payment = refunds'[z].payment /\ refunds[z].status \in {"PENDING", "COMPLETED"}
    BY <1>1, <1>2
  <2> QED BY <2>1, <2>2 DEF IInv, Rows, OneLiveRefund
<1>11. Rows'
  BY <1>5, <1>8, <1>9, <1>10 DEF Rows
<1>12. Monotone
  BY <1>5, <1>6 DEF Monotone, IInv, Typed, TypeOK
<1>13. \A v \in Workers \ {w}: RowKept(v)
  <2> SUFFICES ASSUME NEW v \in Workers \ {w}, InFlight(v)
               PROVE  refunds'[work[v].row] = refunds[work[v].row]
    BY DEF RowKept
  <2>1. work[v].row \in Refunds
    BY DEF InFlight, IInv, Sure
  <2>2. work[v].row # x
    BY DEF InFlight, IInv, RowsOwned
  <2> QED BY <1>2, <2>1, <2>2
<1> QED BY <1>3, <1>4, <1>7, <1>11, <1>12, <1>13, IdleTyped, IdleSure, OneMoves

LEMMA RecordRefundInv ==
  ASSUME IInv, NEW w \in Workers, RecordRefund(w)
  PROVE  IInv'
<1> DEFINE i == work[w].intent  x == work[w].row  status == RowStatus(work[w].answer)
<1>1. /\ i \in Intents /\ x \in Refunds /\ work[w] \in Locals /\ consult.with # "none"
      /\ refunds[x].payment = i /\ refunds[x] \in RefundRows
      /\ work[w].answer \in Answers /\ work[w].answer = stripe[i].answer
      /\ InFlight(w)
  BY DEF RecordRefund, IInv, Typed, TypeOK, RefundRows, Sure, Locals, InFlight
<1>2. /\ status \in {"COMPLETED", "PENDING", "FAILED"}
      /\ status = "COMPLETED" => stripe[i].refund = "succeeded"
      /\ status = "FAILED" => stripe[i].refund = "failed"
  BY <1>1 DEF RowStatus, Answers, IInv, Rows, AnswersHold
<1>3. UNCHANGED <<hours, stripe, payments, wallet, failures>> /\ Finish(w)
      /\ FailuresGrow
  BY DEF FailuresGrow, RecordRefund, IInv, Typed, TypeOK
<1>4. CASE \E y \in Refunds \ {x}: refunds[y].stripeId = i
  <2>1. refunds' = [refunds EXCEPT ![x] = NoRefund] /\ consult' = consult
    BY <1>4 DEF RecordRefund
  <2>2. NoRefund \in RefundRows /\ NoRefund.status = "none"
    BY DEF NoRefund, RefundRows
  <2>3. RefundLeaves
    BY <1>3, <2>1 DEF RefundLeaves
  <2> QED BY <1>1, <1>3, <2>1, <2>2, <2>3, RowSettled
<1>5. CASE ~\E y \in Refunds \ {x}: refunds[y].stripeId = i
  <2> DEFINE r == [refunds[x] EXCEPT !.status = status, !.stripeId = i]
  <2>1. /\ refunds' = [refunds EXCEPT ![x].status = status, ![x].stripeId = i]
        /\ consult' = IF status = "FAILED" THEN consult ELSE [consult EXCEPT !.paid = "REFUNDED"]
    BY <1>5 DEF RecordRefund
  <2>2. refunds' = [refunds EXCEPT ![x] = r]
    BY <1>1, <2>1 DEF IInv, Typed, TypeOK
  <2> HIDE DEF status
  <2>3. r \in RefundRows /\ r.status = status /\ r.payment = i
    BY <1>1, <1>2 DEF RefundRows
  <2>4. RefundLeaves
    BY <1>1, <1>3, <2>1 DEF RefundLeaves
  <2> HIDE DEF r
  <2> QED BY <1>1, <1>2, <1>3, <2>2, <2>3, <2>4, RowSettled
<1> QED BY <1>4, <1>5

LEMMA RefundErrorInv ==
  ASSUME IInv, NEW w \in Workers, RefundError(w)
  PROVE  IInv'
<1> DEFINE x == work[w].row  r == [refunds[x] EXCEPT !.status = "FAILED"]
<1>1. /\ x \in Refunds /\ refunds[x] \in RefundRows /\ refunds[x].payment \in Intents
      /\ InFlight(w)
  BY DEF RefundError, IInv, Typed, TypeOK, RefundRows, Sure, InFlight
<1>2. r \in RefundRows /\ r.status = "FAILED" /\ r.payment \in Intents
  BY <1>1 DEF RefundRows
<1>3. refunds' = [refunds EXCEPT ![x] = r]
  BY <1>1 DEF RefundError, IInv, Typed, TypeOK
<1>4. FailuresGrow /\ failures' # 0
  BY SettlementAssumption DEF FailuresGrow, RefundError, IInv, Typed, TypeOK
<1>5. RefundLeaves /\ stripe' = stripe /\ Finish(w)
  BY DEF RefundError, RefundLeaves
<1> HIDE DEF r
<1> QED BY <1>1, <1>2, <1>3, <1>4, <1>5, RowSettled

-----------------------------------------------------------------------------
\* Stripe's own steps, the clock and the cleanup.
LEMMA StripeMovesInv ==
  ASSUME IInv, NEW i \in Intents, Checkout(i) \/ Capture(i) \/ StripeSettles(i)
  PROVE  IInv'
<1> DEFINE S == [state: {"new", "open", "captured"}, acked: BOOLEAN,
                 refund: {"none", "succeeded", "pending", "failed"},
                 answer: {"none", "succeeded", "pending", "failed"}]
<1>1. stripe \in [Intents -> S]
  BY DEF IInv, Typed, TypeOK
<1>2. PICK s \in S:
        /\ stripe' = [stripe EXCEPT ![i] = s] /\ s.answer = stripe[i].answer
        /\ s.refund = stripe[i].refund \/ stripe[i].refund = "pending"
  <2>1. CASE Checkout(i)
    <3> DEFINE t == [stripe[i] EXCEPT !.state = "open"]
    <3>2. /\ t \in S /\ t.answer = stripe[i].answer
          /\ t.refund = stripe[i].refund \/ stripe[i].refund = "pending"
          /\ stripe' = [stripe EXCEPT ![i] = t]
      BY <1>1, <2>1 DEF Checkout
    <3> HIDE DEF t, S
    <3> QED BY <3>2
  <2>2. CASE Capture(i)
    <3> DEFINE t == [stripe[i] EXCEPT !.state = "captured"]
    <3>2. /\ t \in S /\ t.answer = stripe[i].answer
          /\ t.refund = stripe[i].refund \/ stripe[i].refund = "pending"
          /\ stripe' = [stripe EXCEPT ![i] = t]
      BY <1>1, <2>2 DEF Capture
    <3> HIDE DEF t, S
    <3> QED BY <3>2
  <2>3. CASE StripeSettles(i)
    <3>1. PICK outcome \in {"succeeded", "failed"}:
            stripe' = [stripe EXCEPT ![i].refund = outcome]
      BY <2>3 DEF StripeSettles
    <3> DEFINE t == [stripe[i] EXCEPT !.refund = outcome]
    <3>2. /\ t \in S /\ t.answer = stripe[i].answer
          /\ t.refund = stripe[i].refund \/ stripe[i].refund = "pending"
          /\ stripe' = [stripe EXCEPT ![i] = t]
      BY <1>1, <2>3, <3>1 DEF StripeSettles
    <3> HIDE DEF t, S
    <3> QED BY <3>2
  <2> QED BY <2>1, <2>2, <2>3
<1>3. UNCHANGED <<consult, hours, payments, wallet, refunds, work, failures>>
  BY DEF Checkout, Capture, StripeSettles
<1> HIDE DEF S
<1>4. stripe' \in [Intents -> S] /\ stripe'[i] = s /\ \A j \in Intents \ {i}: stripe'[j] = stripe[j]
  BY <1>1, <1>2
<1>5. TypeOK'
  BY <1>3, <1>4 DEF IInv, Typed, TypeOK, S
<1>6. AnswersHold'
  BY <1>2, <1>4 DEF IInv, Rows, AnswersHold
<1>7. RefundRowTruthful' /\ RowsAbout' /\ OneLiveRefund'
  <2>1. RowsAbout' /\ OneLiveRefund'
    BY <1>3 DEF IInv, Rows, RowsAbout, OneLiveRefund
  <2>2. ASSUME NEW x \in Refunds, NEW settled \in {"succeeded", "failed"},
               refunds[x].status \in {"COMPLETED", "FAILED"},
               stripe[refunds[x].payment].refund = settled
        PROVE  stripe'[refunds[x].payment].refund = settled
    BY <1>2, <1>4, <2>2 DEF IInv, Rows, RowsAbout
  <2> QED BY <1>3, <2>1, <2>2 DEF RefundRowTruthful, IInv, Rows
<1>8. MoneyBehind' /\ RefundBasisExists' /\ SpentOnce' /\ CreditWithinPaid'
  BY <1>3, RefundLeavesMoney DEF RefundLeaves
<1>9. Monotone
  BY <1>2, <1>3, <1>4 DEF Monotone, IInv, Typed, TypeOK
<1>10. \A v \in Workers: RowKept(v)
  BY <1>3 DEF RowKept
<1> QED BY <1>3, <1>5, <1>6, <1>7, <1>8, <1>9, <1>10, NobodyMoves DEF Rows

LEMMA HoldEndsInv ==
  ASSUME IInv, HoldLapses \/ ReleaseExpiredHold
  PROVE  IInv'
<1>1. /\ consult'.with = consult.with /\ consult'.paid = consult.paid
      /\ consult'.intent = consult.intent
      /\ consult'.status = "CONFIRMED" => consult.status = "CONFIRMED" /\ consult'.hold = consult.hold
      /\ consult' \in [status: Statuses, paid: {"PENDING", "PAID", "REFUNDED"},
                       with: {"none", "CARD", "WALLET"}, intent: Intents \cup {None},
                       hold: {"none", "live", "lapsed"}, slot: BOOLEAN]
  <2>1. CASE HoldLapses
    BY <2>1 DEF HoldLapses, IInv, Typed, TypeOK
  <2>2. CASE ReleaseExpiredHold
    BY <2>2 DEF ReleaseExpiredHold, IInv, Typed, TypeOK, Statuses
  <2> QED BY <2>1, <2>2
<1>2. UNCHANGED <<hours, stripe, payments, wallet, refunds, work, failures>>
  BY DEF HoldLapses, ReleaseExpiredHold
<1>3. TypeOK'
  BY <1>1, <1>2 DEF IInv, Typed, TypeOK
<1>4. MoneyBehind' /\ RefundBasisExists'
  BY <1>1, <1>2 DEF IInv, Rows, MoneyBehind, RefundBasisExists
<1>5. Rows'
  BY <1>2, <1>4, RefundsStay, WalletStays DEF Rows
<1>6. Monotone /\ \A v \in Workers: RowKept(v)
  BY <1>1, <1>2 DEF Monotone, RowKept, IInv, Typed, TypeOK
<1> QED BY <1>2, <1>3, <1>5, <1>6, NobodyMoves

LEMMA TimePassesInv ==
  ASSUME IInv, TimePasses
  PROVE  IInv'
<1>1. TypeOK'
  BY DEF TimePasses, IInv, Typed, TypeOK
<1> QED BY <1>1, AllRowsStay, NobodyMoves DEF TimePasses

LEMMA FailInv ==
  ASSUME IInv, NEW w \in Workers, Fail(w)
  PROVE  IInv'
<1>1. FailuresGrow
  BY SettlementAssumption DEF FailuresGrow, Fail, IInv, Typed, TypeOK
<1> QED BY <1>1, GiveUp DEF Fail

LEMMA StutterInv == ASSUME IInv, UNCHANGED vars PROVE IInv'
<1>1. TypeOK'
  BY DEF vars, IInv, Typed, TypeOK
<1> QED BY <1>1, AllRowsStay, NobodyMoves DEF vars

-----------------------------------------------------------------------------
\* Every step keeps the invariant.
LEMMA NextInv == IInv /\ [Next]_vars => IInv'
<1> SUFFICES ASSUME IInv, [Next]_vars PROVE IInv'
  OBVIOUS
<1>1. ASSUME NEW w \in Workers, Advance(w) PROVE IInv'
  BY <1>1, RecordPaymentInv, LoadConsultationInv, CheckClashInv, ConfirmByCardInv, SlotLostInv,
     WalletCheckInv, WalletConfirmInv, ResolveBasisInv, EndRecheckInv, EndWriteInv,
     CompleteWriteInv, RefundCreateInv, StripeRefundInv, RecordRefundInv DEF Advance
<1>2. ASSUME NEW w \in Workers,
             \/ \E i \in Intents: Deliver(w, i)
             \/ \E target \in {"CANCELLED", "NO_SHOW", "COMPLETED"}: EndStart(w, target)
             \/ WalletStart(w) \/ RefundStart(w) \/ RefundError(w) \/ Fail(w)
      PROVE  IInv'
  BY <1>2, DeliverInv, EndStartInv, WalletStartInv, RefundStartInv, RefundErrorInv, FailInv
<1> QED
  BY <1>1, <1>2, StripeMovesInv, HoldEndsInv, TimePassesInv, StutterInv DEF Next

\* Every reachable state satisfies the inductive invariant.
THEOREM Invariant == Spec => []IInv
<1> QED BY InitInv, NextInv, PTL DEF Spec

\* The consultation, its payments, refund rows and the steps of every worker
\* keep their shapes; a confirmed booking holds no slot on trial any more
\* (handlePaymentSucceeded and payWithWallet end the hold when they confirm).
THEOREM TypeCorrect == Spec => []TypeOK
<1>1. IInv => TypeOK
  BY DEF IInv, Typed
<1> QED BY <1>1, Invariant, PTL

\* refunds.status says COMPLETED only of money that Stripe did return, whichever
\* workers crashed, retried or got a remembered answer in between; while nothing
\* has failed, it says FAILED only of money Stripe did not return.
THEOREM RefundRowsTruthful == Spec => []RefundRowTruthful
<1>1. IInv => RefundRowTruthful
  BY DEF IInv, Rows
<1> QED BY <1>1, Invariant, PTL

\* refundBookingToCard never has two live refund rows of one payment, for any
\* number of approvals at once.
THEOREM LiveRefundIsOne == Spec => []OneLiveRefund
<1>1. IInv => OneLiveRefund
  BY DEF IInv, Rows
<1> QED BY <1>1, Invariant, PTL

\* Racing cancellations and no-show marks credit the client no more than one of
\* the payments of the booking, and racing wallet checkouts debit it once.
THEOREM CreditAndDebitBounded == Spec => [](CreditWithinPaid /\ SpentOnce)
<1>1. IInv => CreditWithinPaid /\ SpentOnce
  BY DEF IInv, Rows
<1> QED BY <1>1, Invariant, PTL

\* Whichever payment methods raced, a booking marked paid names money that a
\* cancellation (resolveRefundBasis) and the card refund will find.
THEOREM PaidIsBacked == Spec => []RefundBasisExists
<1>1. IInv => RefundBasisExists
  BY DEF IInv, Rows
<1> QED BY <1>1, Invariant, PTL

-----------------------------------------------------------------------------
\* Only the write that ends a booking takes it from CONFIRMED to CANCELLED or
\* NO_SHOW, and it credits with the same commit.
LEMMA EndIsCredited ==
  ASSUME IInv, [Next]_vars, consult.status = "CONFIRMED",
         consult'.status \in {"CANCELLED", "NO_SHOW"}
  PROVE  wallet'.credit > 0
<1>1. ASSUME NEW w \in Workers, EndWrite(w) PROVE wallet'.credit > 0
  <2>1. Credit(w) \in Nat /\ Credit(w) > 0 /\ wallet \in [spent: Nat, credit: Nat]
    BY <1>1, CreditOfEnd DEF EndWrite, IInv, Typed, TypeOK
  <2> QED BY <1>1, <2>1 DEF EndWrite, CreditRefused
<1>2. ASSUME NEW w \in Workers, ConfirmByCard(w) \/ WalletConfirm(w) \/ CompleteWrite(w)
      PROVE  consult'.status \in {"CONFIRMED", "COMPLETED"}
  BY <1>2 DEF ConfirmByCard, PaidByCard, WalletConfirm, CompleteWrite, IInv, Typed, TypeOK
<1>3. ASSUME NEW w \in Workers, SlotLost(w) \/ RecordRefund(w) PROVE consult'.status = consult.status
  BY <1>3 DEF SlotLost, PaidByCard, RecordRefund, IInv, Typed, TypeOK
<1>4. ASSUME NEW w \in Workers,
             \/ RecordPayment(w) \/ LoadConsultation(w) \/ CheckClash(w) \/ WalletCheck(w)
             \/ ResolveBasis(w) \/ EndRecheck(w) \/ RefundCreate(w) \/ StripeRefund(w)
             \/ WalletStart(w) \/ RefundStart(w) \/ RefundError(w) \/ Fail(w)
             \/ \E i \in Intents: Deliver(w, i)
             \/ \E target \in {"CANCELLED", "NO_SHOW", "COMPLETED"}: EndStart(w, target)
      PROVE  consult' = consult
  BY <1>4 DEF RecordPayment, LoadConsultation, CheckClash, WalletCheck, ResolveBasis, EndRecheck,
     RefundCreate, StripeRefund, WalletStart, RefundStart, RefundError, Fail, Deliver, EndStart
<1>5. ASSUME NEW i \in Intents, Checkout(i) \/ Capture(i) \/ StripeSettles(i) PROVE consult' = consult
  BY <1>5 DEF Checkout, Capture, StripeSettles
<1>6. ASSUME HoldLapses \/ ReleaseExpiredHold \/ TimePasses PROVE consult'.status = consult.status
  BY <1>6 DEF HoldLapses, ReleaseExpiredHold, TimePasses, IInv, Typed, TypeOK
<1>7. ASSUME UNCHANGED vars PROVE consult' = consult
  BY <1>7 DEF vars
<1>8. ASSUME NEW w \in Workers, Advance(w), ~EndWrite(w) PROVE consult'.status # "CANCELLED" /\ consult'.status # "NO_SHOW"
  BY <1>2, <1>3, <1>4, <1>8 DEF Advance
<1>9. CASE \E w \in Workers: EndWrite(w)
  BY <1>1, <1>9
<1>10. CASE ~\E w \in Workers: EndWrite(w)
  BY <1>4, <1>5, <1>6, <1>7, <1>8, <1>10 DEF Next
<1> QED BY <1>9, <1>10

\* clientCancel and staffMarkStatus never take a confirmed, paid booking from
\* the client without leaving a store credit, whatever runs beside them.
THEOREM EndsAreCredited == Spec => NoUncreditedEnd
<1>1. IInv /\ [Next]_vars =>
        [consult.status = "CONFIRMED" /\ consult'.status \in {"CANCELLED", "NO_SHOW"}
         => wallet'.credit > 0]_vars
  BY EndIsCredited
<1> QED BY <1>1, Invariant, PTL DEF Spec, NoUncreditedEnd
=============================================================================
