------------------------- MODULE BookingSettlement -------------------------
(***************************************************************************)
(* The money of one paid consultation: Stripe captures and their webhook,  *)
(* the wallet checkout, the store credit of a cancellation or no-show, and *)
(* the owner-approved refund to the card, run by concurrent workers that   *)
(* may fail between any two statements.                                    *)
(*                                                                         *)
(* Slots are reduced to "the row has one" and to a clash that other        *)
(* bookings may cause at any check (module BookingCalendar has them).      *)
(***************************************************************************)
EXTENDS RefundPolicy, FiniteSets

CONSTANTS
  Intents,      \* Stripe payment intents the hold's checkouts may create
  Workers,      \* requests and webhook deliveries in flight at once
  CardTotal,    \* cents captured by a card payment: base + GST + card fee
  WalletPrice,  \* cents debited by a wallet payment: base + GST
  IsLia,        \* is it an LIA consultation (a verdict may complete it)?
  Refunds,      \* rows of the refunds table that may be created
  MaxFailures,  \* bound: workers that die half-way
  None

ASSUME SettlementAssumption ==
  /\ CardTotal \in Nat \ {0} /\ WalletPrice \in Nat \ {0}
  /\ IsLia \in BOOLEAN
  /\ MaxFailures \in Nat
  /\ None \notin Intents \cup Refunds

VARIABLES
  consult,    \* the consultation row
  hours,      \* hours until the session: 24 or more, fewer, or started
  stripe,     \* per intent: checkout state, event acknowledged, refund object
              \* and the answer remembered under its idempotency key
  payments,   \* intents that have a Payment row
  wallet,     \* cents of the SPEND_BOOKING and REFUND_* entries of the booking
  refunds,    \* refunds rows
  work,       \* worker-local state
  failures

vars == <<consult, hours, stripe, payments, wallet, refunds, work, failures>>

Statuses == {"PENDING", "CONFIRMED", "CANCELLED", "NO_SHOW", "COMPLETED"}
Idle == [at |-> "idle", intent |-> None, slot |-> FALSE, base |-> 0, hours |-> 0,
         target |-> "PENDING", row |-> None, answer |-> "none"]
NoRefund == [payment |-> None, status |-> "none", stripeId |-> None]

\* A hold has just been created.
Init ==
  /\ consult = [status |-> "PENDING", paid |-> "PENDING", with |-> "none",
                intent |-> None, hold |-> "live", slot |-> TRUE]
  /\ hours = 48
  /\ stripe = [i \in Intents |->
       [state |-> "new", acked |-> FALSE, refund |-> "none", answer |-> "none"]]
  /\ payments = {}
  /\ wallet = [spent |-> 0, credit |-> 0]
  /\ refunds = [x \in Refunds |-> NoRefund]
  /\ work = [w \in Workers |-> Idle]
  /\ failures = 0

Goto(w, at) == work' = [work EXCEPT ![w].at = at]
Finish(w) == work' = [work EXCEPT ![w] = Idle]
Start(w, local) == work[w].at = "idle" /\ work' = [work EXCEPT ![w] = local]

-----------------------------------------------------------------------------
\* Card: checkout, capture, webhook.

Payable == consult.status = "PENDING" /\ consult.paid # "PAID" /\ consult.hold = "live"

\* POST /booking/checkout: one more Stripe session for a live hold.
Checkout(i) ==
  /\ Payable
  /\ stripe[i].state = "new"
  /\ stripe' = [stripe EXCEPT ![i].state = "open"]
  /\ UNCHANGED <<consult, hours, payments, wallet, refunds, work, failures>>

\* The client pays on Stripe's page.
Capture(i) ==
  /\ stripe[i].state = "open"
  /\ stripe' = [stripe EXCEPT ![i].state = "captured"]
  /\ UNCHANGED <<consult, hours, payments, wallet, refunds, work, failures>>

\* Mutant: the 2xx is sent before the event is handled.
DeliverAcked(w, i) ==
  /\ stripe[i].state = "captured" /\ ~stripe[i].acked
  /\ stripe' = [stripe EXCEPT ![i].acked = TRUE]
  /\ Start(w, [Idle EXCEPT !.at = "record", !.intent = i])
  /\ UNCHANGED <<consult, hours, payments, wallet, refunds, failures>>
\* Stripe delivers payment_intent.succeeded, perhaps twice at once, until it
\* gets a 2xx.
Deliver(w, i) ==
  /\ stripe[i].state = "captured" /\ ~stripe[i].acked
  /\ Start(w, [Idle EXCEPT !.at = "record", !.intent = i])
  /\ UNCHANGED <<consult, hours, stripe, payments, wallet, refunds, failures>>

\* The handler ends with a 200.
Ack(w) ==
  /\ stripe' = [stripe EXCEPT ![work[w].intent].acked = TRUE]
  /\ Finish(w)

AlreadyRecorded(i) == i \in payments

\* Payment.create is the lock: a recorded intent short-circuits the handler.
RecordPayment(w) ==
  LET i == work[w].intent IN
  /\ work[w].at = "record"
  /\ IF AlreadyRecorded(i)
     THEN Ack(w) /\ UNCHANGED payments
     ELSE payments' = payments \cup {i} /\ Goto(w, "load") /\ UNCHANGED stripe
  /\ UNCHANGED <<consult, hours, wallet, refunds, failures>>

\* Mutant: only a still pending hold is settled by its payment.
SettledUnlessPending == consult.status # "PENDING"
Settled == consult.status = "CONFIRMED"

LoadConsultation(w) ==
  /\ work[w].at = "load"
  /\ IF Settled
     THEN Ack(w)
     ELSE /\ work' = [work EXCEPT ![w].at = "clash", ![w].slot = consult.slot]
          /\ UNCHANGED stripe
  /\ UNCHANGED <<consult, hours, payments, wallet, refunds, failures>>

\* Somebody else may have confirmed the slot this worker read.
CheckClash(w) ==
  /\ work[w].at = "clash"
  /\ \/ Goto(w, "confirm")
     \/ work[w].slot /\ Goto(w, "lost")
  /\ UNCHANGED <<consult, hours, stripe, payments, wallet, refunds, failures>>

\* Mutants: the webhook forgets to store which intent paid, or to end the hold.
PaidByCardHolding(i, c) == [c EXCEPT !.paid = "PAID", !.with = "CARD", !.intent = i]
PaidByCardUnlinked(i, c) == [c EXCEPT !.paid = "PAID", !.with = "CARD", !.hold = "none"]
PaidByCard(i, c) ==
  [c EXCEPT !.paid = "PAID", !.with = "CARD", !.hold = "none", !.intent = i]

\* The confirm, or the unique index refuses it.
ConfirmByCard(w) ==
  /\ work[w].at = "confirm"
  /\ \/ /\ consult' = [PaidByCard(work[w].intent, consult) EXCEPT !.status = "CONFIRMED"]
        /\ Ack(w)
     \/ /\ consult.slot
        /\ Goto(w, "lost")
        /\ UNCHANGED <<consult, stripe>>
  /\ UNCHANGED <<hours, payments, wallet, refunds, failures>>

\* Paid, no slot: keep the money, drop the slot, flag for staff.
SlotLost(w) ==
  /\ work[w].at = "lost"
  /\ consult' = [PaidByCard(work[w].intent, consult) EXCEPT !.slot = FALSE]
  /\ Ack(w)
  /\ UNCHANGED <<hours, payments, wallet, refunds, failures>>

-----------------------------------------------------------------------------
\* Wallet: POST /booking/pay-with-wallet.

WalletStart(w) ==
  /\ Payable
  /\ Start(w, [Idle EXCEPT !.at = "wallet"])
  /\ UNCHANGED <<consult, hours, stripe, payments, wallet, refunds, failures>>

\* Fresh read and clash inside the transaction; `now` is still the first one,
\* so a hold that lapsed meanwhile passes.
WalletCheck(w) ==
  /\ work[w].at = "wallet"
  /\ \/ /\ consult.status = "PENDING" /\ consult.paid # "PAID" /\ consult.hold # "none"
        /\ Goto(w, "debit")
     \/ Finish(w)
  /\ UNCHANGED <<consult, hours, stripe, payments, wallet, refunds, failures>>

SpendRefused == wallet.spent > 0

\* Debit and confirm commit together or not at all (balance, index, slot).
WalletConfirm(w) ==
  /\ work[w].at = "debit"
  /\ \/ /\ ~SpendRefused
        /\ wallet' = [wallet EXCEPT !.spent = @ + WalletPrice]
        /\ consult' = [consult EXCEPT !.status = "CONFIRMED", !.paid = "PAID",
                                      !.with = "WALLET", !.hold = "none"]
     \/ UNCHANGED <<wallet, consult>>
  /\ Finish(w)
  /\ UNCHANGED <<hours, stripe, payments, refunds, failures>>

-----------------------------------------------------------------------------
\* Ending the booking: cancel, no-show, complete.

\* clientCancel and staffMarkStatus load the row, apply their gates and take the
\* time that decides the tier; an LIA verdict completes any booking that is not
\* cancelled or missed.
EndStart(w, target) ==
  /\ \/ target = "CANCELLED" /\ consult.status = "CONFIRMED"
     \/ target = "NO_SHOW" /\ consult.status = "CONFIRMED" /\ consult.slot /\ hours < 0
     \/ target = "COMPLETED" /\ consult.status = "CONFIRMED"
     \/ target = "COMPLETED" /\ IsLia /\ consult.status \notin {"CANCELLED", "NO_SHOW"}
  /\ Start(w, [Idle EXCEPT !.at = IF target = "COMPLETED" THEN "complete" ELSE "basis",
                           !.target = target, !.intent = consult.intent,
                           !.hours = IF consult.slot THEN hours ELSE 0])
  /\ UNCHANGED <<consult, hours, stripe, payments, wallet, refunds, failures>>

\* resolveRefundBasis: the card payment if an intent is linked, else the spend.
ResolveBasis(w) ==
  /\ work[w].at = "basis"
  /\ work' = [work EXCEPT ![w].at = "recheck", ![w].base =
       IF work[w].intent # None
       THEN (IF work[w].intent \in payments THEN CardTotal ELSE 0)
       ELSE wallet.spent]
  /\ UNCHANGED <<consult, hours, stripe, payments, wallet, refunds, failures>>

StillEndable == consult.status = "CONFIRMED"

EndRecheck(w) ==
  /\ work[w].at = "recheck"
  /\ IF StillEndable THEN Goto(w, "credit") ELSE Finish(w)
  /\ UNCHANGED <<consult, hours, stripe, payments, wallet, refunds, failures>>

Credit(w) ==
  CreditCents(work[w].base, IF work[w].target = "NO_SHOW" THEN "NO_SHOW" ELSE "CANCEL",
              work[w].hours)

CreditRefused(w) == Credit(w) > 0 /\ wallet.credit > 0

\* Credit and status flip commit together.
EndWrite(w) ==
  /\ work[w].at = "credit"
  /\ IF CreditRefused(w)
     THEN UNCHANGED <<consult, wallet>>
     ELSE /\ wallet' = [wallet EXCEPT !.credit = @ + Credit(w)]
          /\ consult' = [consult EXCEPT !.status = work[w].target]
  /\ Finish(w)
  /\ UNCHANGED <<hours, stripe, payments, refunds, failures>>

\* COMPLETED is written by id, with no re-check.
CompleteWrite(w) ==
  /\ work[w].at = "complete"
  /\ consult' = [consult EXCEPT !.status = "COMPLETED"]
  /\ Finish(w)
  /\ UNCHANGED <<hours, stripe, payments, wallet, refunds, failures>>

-----------------------------------------------------------------------------
\* Refund to card: an approved ISSUE_REFUND runs refundBookingToCard.

\* Mutant: neither the lookup nor the index sees the first refund.
LiveRefundIgnored(i) == FALSE
LiveRefund(i) ==
  \E x \in Refunds: refunds[x].payment = i /\ refunds[x].status \in {"PENDING", "COMPLETED"}

Refundable(i) ==
  /\ consult.with # "WALLET"
  /\ wallet.credit = 0
  /\ i \in payments
  /\ ~LiveRefund(i)

RefundStart(w) ==
  /\ consult.intent # None
  /\ Refundable(consult.intent)
  /\ Start(w, [Idle EXCEPT !.at = "refund", !.intent = consult.intent])
  /\ UNCHANGED <<consult, hours, stripe, payments, wallet, refunds, failures>>

\* The PENDING row, unless refunds_payment_live_once_idx refuses it.
RefundCreate(w) ==
  /\ work[w].at = "refund"
  /\ IF LiveRefund(work[w].intent)
     THEN Finish(w) /\ UNCHANGED refunds
     ELSE \E x \in Refunds:
            /\ refunds[x].status = "none"
            /\ refunds' = [refunds EXCEPT ![x] =
                 [NoRefund EXCEPT !.payment = work[w].intent, !.status = "PENDING"]]
            /\ work' = [work EXCEPT ![w].at = "stripe", ![w].row = x]
  /\ UNCHANGED <<consult, hours, stripe, payments, wallet, failures>>

\* Stripe refunds the intent once per idempotency key, and the key is the
\* payment: a later call gets the first answer.  The call itself may fail
\* before or after Stripe acted.
StripeRefund(w) ==
  LET i == work[w].intent IN
  /\ work[w].at = "stripe"
  /\ \E outcome \in {"succeeded", "pending", "failed"}:
       /\ stripe[i].answer # "none" => outcome = stripe[i].answer
       /\ stripe' = IF stripe[i].answer # "none" THEN stripe
                    ELSE [stripe EXCEPT ![i].refund = outcome, ![i].answer = outcome]
       /\ work' = [work EXCEPT ![w].at = "recordRefund", ![w].answer = outcome]
  /\ UNCHANGED <<consult, hours, payments, wallet, refunds, failures>>

\* Mutant: everything but an exception counts as done.
RowStatusOptimistic(answer) == IF answer = "failed" THEN "FAILED" ELSE "COMPLETED"
RowStatus(answer) ==
  CASE answer = "succeeded" -> "COMPLETED" [] answer = "pending" -> "PENDING" [] OTHER -> "FAILED"

\* The stripeRefundId is unique: a second row for the same Stripe refund is a
\* duplicate and is dropped.
RecordRefund(w) ==
  LET i == work[w].intent  x == work[w].row  status == RowStatus(work[w].answer) IN
  /\ work[w].at = "recordRefund"
  /\ IF \E y \in Refunds \ {x}: refunds[y].stripeId = i
     THEN refunds' = [refunds EXCEPT ![x] = NoRefund] /\ UNCHANGED consult
     ELSE /\ refunds' = [refunds EXCEPT ![x].status = status, ![x].stripeId = i]
          /\ consult' = IF status = "FAILED" THEN consult ELSE [consult EXCEPT !.paid = "REFUNDED"]
  /\ Finish(w)
  /\ UNCHANGED <<hours, stripe, payments, wallet, failures>>

\* The call, or the write after it, throws: the row is marked FAILED.
RefundError(w) ==
  /\ work[w].at \in {"stripe", "recordRefund"}
  /\ failures < MaxFailures
  /\ failures' = failures + 1
  /\ refunds' = [refunds EXCEPT ![work[w].row].status = "FAILED"]
  /\ Finish(w)
  /\ UNCHANGED <<consult, hours, stripe, payments, wallet>>

\* A pending Stripe refund settles; no webhook of the platform listens.
StripeSettles(i) ==
  /\ stripe[i].refund = "pending"
  /\ \E outcome \in {"succeeded", "failed"}: stripe' = [stripe EXCEPT ![i].refund = outcome]
  /\ UNCHANGED <<consult, hours, payments, wallet, refunds, work, failures>>

-----------------------------------------------------------------------------
\* Time, the cleanup cron and failures.

HoldLapses ==
  /\ consult.hold = "live"
  /\ consult' = [consult EXCEPT !.hold = "lapsed"]
  /\ UNCHANGED <<hours, stripe, payments, wallet, refunds, work, failures>>

ReleaseExpiredHold ==
  /\ consult.status = "PENDING" /\ consult.paid # "PAID" /\ consult.hold = "lapsed"
  /\ consult' = [consult EXCEPT !.status = "CANCELLED"]
  /\ UNCHANGED <<hours, stripe, payments, wallet, refunds, work, failures>>

TimePasses ==
  /\ hours > 0
  /\ hours' = IF hours = 48 THEN 12 ELSE -1
  /\ UNCHANGED <<consult, stripe, payments, wallet, refunds, work, failures>>

\* The worker dies: no 2xx, nothing rolled back that was committed.
Fail(w) ==
  /\ work[w].at # "idle"
  /\ failures < MaxFailures
  /\ failures' = failures + 1
  /\ Finish(w)
  /\ UNCHANGED <<consult, hours, stripe, payments, wallet, refunds>>

Advance(w) ==
  \/ RecordPayment(w) \/ LoadConsultation(w) \/ CheckClash(w) \/ ConfirmByCard(w) \/ SlotLost(w)
  \/ WalletCheck(w) \/ WalletConfirm(w)
  \/ ResolveBasis(w) \/ EndRecheck(w) \/ EndWrite(w) \/ CompleteWrite(w)
  \/ RefundCreate(w) \/ StripeRefund(w) \/ RecordRefund(w)

Next ==
  \/ \E i \in Intents: Checkout(i) \/ Capture(i) \/ StripeSettles(i)
  \/ \E w \in Workers:
       \/ \E i \in Intents: Deliver(w, i)
       \/ \E target \in {"CANCELLED", "NO_SHOW", "COMPLETED"}: EndStart(w, target)
       \/ WalletStart(w) \/ RefundStart(w)
       \/ Advance(w) \/ RefundError(w) \/ Fail(w)
  \/ HoldLapses \/ ReleaseExpiredHold \/ TimePasses

Spec == Init /\ [][Next]_vars

\* Requests run to their end unless they fail, and Stripe keeps redelivering.
FairSpec ==
  /\ Spec
  /\ \A w \in Workers: WF_vars(Advance(w))
  /\ \A i \in Intents: SF_vars(\E w \in Workers: Deliver(w, i))

-----------------------------------------------------------------------------
\* Rows and local states are well formed; no confirmed row still has a hold.
TypeOK ==
  /\ consult \in [status: Statuses, paid: {"PENDING", "PAID", "REFUNDED"},
                  with: {"none", "CARD", "WALLET"}, intent: Intents \cup {None},
                  hold: {"none", "live", "lapsed"}, slot: BOOLEAN]
  /\ consult.status = "CONFIRMED" => consult.hold = "none"
  /\ hours \in {48, 12, -1}
  /\ stripe \in [Intents -> [state: {"new", "open", "captured"}, acked: BOOLEAN,
                             refund: {"none", "succeeded", "pending", "failed"},
                             answer: {"none", "succeeded", "pending", "failed"}]]
  /\ payments \subseteq Intents
  /\ wallet \in [spent: Nat, credit: Nat]
  /\ refunds \in [Refunds -> [payment: Intents \cup {None},
                              status: {"none", "PENDING", "COMPLETED", "FAILED"},
                              stripeId: Intents \cup {None}]]
  /\ \A w \in Workers: work[w].base \in Nat /\ work[w].target \in Statuses
  /\ failures \in 0..MaxFailures

\* Racing cancellations and no-show marks never credit more than one payment
\* of the booking, by card or by wallet.
CreditWithinPaid ==
  \/ wallet.credit <= wallet.spent
  \/ payments # {} /\ wallet.credit <= CardTotal

\* Racing and repeated wallet checkouts debit the booking once.
SpentOnce == wallet.spent \in {0, WalletPrice}

\* A booking marked paid leads to the money it was paid with: resolveRefundBasis
\* and the card refund will find it, whichever payment methods raced.
RefundBasisExists ==
  consult.paid # "PENDING" =>
    \/ consult.with = "CARD" /\ consult.intent \in payments
    \/ consult.with = "WALLET" /\ wallet.spent > 0

\* A refund row says COMPLETED only if Stripe returned the money and, as long
\* as no call or handler has failed, FAILED only if Stripe did not.
RefundRowTruthful ==
  \A x \in Refunds:
    /\ refunds[x].status = "COMPLETED" => stripe[refunds[x].payment].refund = "succeeded"
    /\ refunds[x].status = "FAILED" /\ failures = 0 => stripe[refunds[x].payment].refund = "failed"

\* A refund row says FAILED only if Stripe returned nothing.
FailedReturnedNothing ==
  \A x \in Refunds:
    refunds[x].status = "FAILED" => stripe[refunds[x].payment].refund \in {"none", "failed"}

\* "At most ONE live refund per payment", however many approvals run.
OneLiveRefund ==
  \A x, y \in Refunds:
    /\ refunds[x].payment = refunds[y].payment
    /\ {refunds[x].status, refunds[y].status} \subseteq {"PENDING", "COMPLETED"}
    => x = y

\* Cancelling or missing a confirmed paid booking always leaves a store credit.
NoUncreditedEnd ==
  [][consult.status = "CONFIRMED" /\ consult'.status \in {"CANCELLED", "NO_SHOW"}
     => wallet'.credit > 0]_vars

\* Every captured intent gets its Payment row and its 2xx, through crashes and
\* duplicate deliveries.
CapturedIsRecorded ==
  \A i \in Intents: stripe[i].state = "captured" ~> i \in payments /\ stripe[i].acked

\* A client who paid by card does not keep an unpaid booking, whatever became
\* of the hold before the webhook ran...
PaymentSettles ==
  \A i \in Intents: stripe[i].state = "captured" ~> consult.paid # "PENDING"

\* ... which the handlers achieve as long as none of them dies half-way.
PaymentSettlesUnlessFailed ==
  \A i \in Intents: stripe[i].state = "captured" ~> consult.paid # "PENDING" \/ failures > 0

\* "Total returned to a client (wallet credit + card cash) must never exceed the
\* captured amount."
MoneyIntegrity ==
  wallet.credit + CardTotal * Cardinality({i \in Intents: stripe[i].refund \in {"pending", "succeeded"}})
    <= wallet.spent + CardTotal * Cardinality({i \in Intents: stripe[i].state = "captured"})

\* "Never lose the money": every captured payment is linked to the booking it
\* was for, so that a cancellation or a card refund can find it.
CapturedIsLinked ==
  \A i \in Intents: stripe[i].state = "captured" ~> consult.intent = i

\* A refund Stripe failed does not keep the payment locked against a new one.
FailedRefundUnlocks ==
  \A i \in Intents: stripe[i].refund = "failed" ~> ~LiveRefund(i)

\* A refund attempt is dropped as a duplicate only if another one is live.
DroppedOnlyIfLive ==
  [][\A x \in Refunds:
       refunds[x].status # "none" /\ refunds'[x].status = "none"
       => LiveRefund(refunds[x].payment)']_vars
=============================================================================
