-------------------------- MODULE BookingCalendar --------------------------
(***************************************************************************)
(* Who owns which adviser slot: the consultation rows as written by the    *)
(* slot engine, the 15-minute holds, the free-booking commit, the Stripe   *)
(* webhook, the wallet checkout, the cancel / no-show / complete markers   *)
(* and the hold-cleanup cron, interleaved statement by statement.          *)
(*                                                                         *)
(* Money is reduced to what decides a slot: whether a row is PAID, whether *)
(* it was store-credited, and how many Stripe sessions can still pay it.   *)
(* Module BookingSettlement has the amounts.                               *)
(*                                                                         *)
(* Two history variables say what a request could know when it wrote; no   *)
(* action reads them.                                                      *)
(***************************************************************************)
EXTENDS Naturals, FiniteSets

CONSTANTS
  Bookings,     \* consultation ids
  TypeOf,       \* session type of a booking
  ClientOf,     \* client user of a booking
  Advisers,
  Pool,         \* advisers with the type in bookableSessionTypes
  Dur,          \* SESSION_TYPES.durationMinutes, in grid units
  Hours,        \* weekly window sets an adviser may be given, for the day
  Horizon,      \* bound: the latest start a client asks for, in grid units
  Requests,     \* HTTP requests and webhooks in flight at once
  MaxSessions,  \* bound: Stripe checkout sessions one hold may open
  MaxCrashes,   \* bound: requests that die half-way
  None

Types == {"FREE_15", "GAP_CLOSING", "LIA"}

ASSUME CalendarAssumption ==
  /\ TypeOf \in [Bookings -> Types]
  /\ Pool \in [Types -> SUBSET Advisers]
  /\ Dur \in [Types -> Nat \ {0}]
  /\ \A h \in Hours:
       /\ h \subseteq [from: Nat, to: Nat]
       /\ \A v, w \in h: v # w => v.to <= w.from \/ w.to <= v.from
  /\ Horizon \in Nat
  /\ MaxSessions \in Nat /\ MaxCrashes \in Nat
  /\ None \notin Advisers \cup Bookings \cup Nat

VARIABLES
  row,        \* consultations
  hours,      \* availability windows of an adviser on the day
  onLeave,    \* advisers with REQUESTED or APPROVED leave on the day
  started,    \* the day of the sessions has come
  sessions,   \* Stripe sessions of a booking: still payable, and paid
  req,        \* request-local state
  crashes,
  missed,     \* history: claims written since a request last looked
  offered     \* history: the hours a booking's time was listed under

history == <<missed, offered>>
vars == <<row, hours, onLeave, started, sessions, req, crashes, history>>

\* BOOKED is in the enum but every caller of commitBooking passes confirm: true.
Statuses == {"none", "PENDING", "CONFIRMED", "CANCELLED", "NO_SHOW", "COMPLETED"}
Rows == [status: Statuses, adviser: Advisers \cup {None}, start: Nat \cup {None},
         hold: {"none", "live", "lapsed"}, paid: BOOLEAN, credited: BOOLEAN]
NoRow == [status |-> "none", adviser |-> None, start |-> None,
          hold |-> "none", paid |-> FALSE, credited |-> FALSE]

Steps == {"idle", "asked", "listed", "checked", "paid", "slotOk", "slotLost",
          "wallet", "walletOk", "mark", "markOk"}
Reqs == [at: Steps, booking: Bookings \cup {None}, adviser: Advisers \cup {None},
         start: Nat \cup {None}, pool: SUBSET Advisers, lapsed: SUBSET Bookings,
         target: Statuses]
Idle == [at |-> "idle", booking |-> None, adviser |-> None, start |-> None,
         pool |-> {}, lapsed |-> {}, target |-> "none"]

Init ==
  /\ row = [b \in Bookings |-> NoRow]
  /\ hours \in [Advisers -> Hours]
  /\ onLeave = {}
  /\ started = FALSE
  /\ sessions = [b \in Bookings |-> [open |-> 0, paid |-> 0]]
  /\ req = [r \in Requests |-> Idle]
  /\ crashes = 0
  /\ missed = [r \in Requests |-> {}]
  /\ offered = [b \in Bookings |-> hours]

-----------------------------------------------------------------------------
\* Queries.

Free(b) == TypeOf[b] = "FREE_15"
Length(b) == Dur[TypeOf[b]]
Active(b) == row[b].status = "CONFIRMED"

\* Mutant: a start at every unit of the window, whatever the session's length.
StartsEveryUnit(b, h) ==
  {s \in 0..Horizon: \E w \in h: w.from <= s /\ s + Length(b) <= w.to}
\* computeAvailableSlots: each window is cut into whole sessions from its start.
Starts(b, h) ==
  {s \in 0..Horizon: \E w \in h, k \in 0..Horizon:
     s = w.from + k * Length(b) /\ s + Length(b) <= w.to}

\* Row o takes adviser a's time somewhere in [s, s + len), ends exclusive.
Overlaps(o, a, s, len) ==
  /\ row[o].adviser = a
  /\ row[o].start # None
  /\ row[o].start < s + len
  /\ s < row[o].start + Length(o)

ActiveClash(b, a, s) ==
  \E o \in Bookings \ {b}: Active(o) /\ Overlaps(o, a, s, Length(b))

\* holdExpiresAt > now, for the `now` request r took when it started.
HoldLive(r, o) == row[o].status = "PENDING" /\ row[o].hold # "none" /\ o \notin req[r].lapsed

\* Mutant: the slot engine does not count holds as busy.
HoldClashIgnored(r, b, a, s) == FALSE
HoldClash(r, b, a, s) ==
  \E o \in Bookings \ {b}: HoldLive(r, o) /\ Overlaps(o, a, s, Length(b))

IndexTaken(b, a, s) ==
  /\ s # None
  /\ \E o \in Bookings \ {b}: Active(o) /\ row[o].adviser = a /\ row[o].start = s

AvailableStaff(r, b, s) ==
  {a \in Pool[TypeOf[b]]:
     /\ s \in Starts(b, hours[a])
     /\ a \notin onLeave
     /\ ~ActiveClash(b, a, s)
     /\ ~HoldClash(r, b, a, s)}

HasUsedFreeSession(c) ==
  \E o \in Bookings:
    /\ Free(o) /\ ClientOf[o] = c
    /\ row[o].status \notin {"none", "CANCELLED"}

\* Mutants: the expiry comparison is lost; the paymentStatus filter is inverted.
StaleAnyHold(b) == row[b].status = "PENDING" /\ ~row[b].paid /\ row[b].hold # "none"
StalePaidOnly(b) == row[b].status = "PENDING" /\ row[b].paid /\ row[b].hold = "lapsed"
Stale(b) == row[b].status = "PENDING" /\ ~row[b].paid /\ row[b].hold = "lapsed"
Lapsed == {b \in Bookings: row[b].hold = "lapsed"}

-----------------------------------------------------------------------------
\* History: what was written behind a request's back.

Held(o) == row[o].status = "PENDING" /\ row[o].hold = "live"
NewClaims == {o \in Bookings: (Active(o)' /\ ~Active(o)) \/ (Held(o)' /\ ~Held(o))}

\* Steps at which a request has looked at the calendar and has not yet written.
Looked == {"listed", "checked", "slotOk", "walletOk"}
Looks(r) == req'[r] # req[r] /\ req[r].at # "checked"

\* Every look sees the confirmed rows; holds are seen by a listing and by the
\* re-check of a new hold, not by that of a free booking.
Watch ==
  /\ missed' = [r \in Requests |->
       IF req'[r].at \notin Looked THEN {}
       ELSE IF Looks(r) THEN {o \in missed[r]: Free(req[r].booking) /\ ~Active(o)}
       ELSE missed[r] \cup NewClaims]
  /\ offered' = [b \in Bookings |->
       IF \E r \in Requests: /\ req[r].booking = b /\ req[r].at = "asked"
                             /\ req'[r].at = "listed"
       THEN hours ELSE offered[b]]

-----------------------------------------------------------------------------
\* Placing a booking: createFreeBooking and createHold.

Finish(r) == req' = [req EXCEPT ![r] = Idle]
Goto(r, at) == req' = [req EXCEPT ![r].at = at]

FreeGate(b) == Free(b) => ~HasUsedFreeSession(ClientOf[b])

\* assertEligible, the free-once backstop, and (paid types only) the release
\* of the client's own expired holds.  Band and hard stop are per client.
Ask(r, b, s) ==
  /\ req[r].at = "idle"
  /\ row[b].status = "none"
  /\ \A q \in Requests: req[q].booking # b
  /\ ~started
  /\ FreeGate(b)
  /\ row' = [o \in Bookings |->
       IF ~Free(b) /\ ClientOf[o] = ClientOf[b] /\ Stale(o)
       THEN [row[o] EXCEPT !.status = "CANCELLED"] ELSE row[o]]
  /\ req' = [req EXCEPT ![r] =
       [Idle EXCEPT !.at = "asked", !.booking = b, !.start = s, !.lapsed = Lapsed]]
  /\ UNCHANGED <<hours, onLeave, started, sessions, crashes>>
  /\ Watch

\* availableStaffAt; a free booking then gets its PENDING row, already "PAID".
List(r) ==
  LET b == req[r].booking
      free == AvailableStaff(r, b, req[r].start)
  IN  /\ req[r].at = "asked"
      /\ IF free = {}
         THEN Finish(r) /\ UNCHANGED row
         ELSE /\ req' = [req EXCEPT ![r].at = "listed", ![r].pool = free]
              /\ row' = IF Free(b)
                        THEN [row EXCEPT ![b] = [NoRow EXCEPT !.status = "PENDING", !.paid = TRUE]]
                        ELSE row
      /\ UNCHANGED <<hours, onLeave, started, sessions, crashes>>
      /\ Watch

\* The re-check inside the transaction: active bookings for everybody, other
\* live holds only for a new hold, and leave.
Taken(r, a) ==
  LET b == req[r].booking IN
  \/ ActiveClash(b, a, req[r].start)
  \/ ~Free(b) /\ HoldClash(r, b, a, req[r].start)
  \/ a \in onLeave

\* Try one more free adviser (the preferred one, or the next in pool order).
TryAdviser(r) ==
  /\ req[r].at = "listed"
  /\ \E a \in req[r].pool:
       req' = [req EXCEPT ![r].pool = @ \ {a},
                          ![r].adviser = a,
                          ![r].at = IF Taken(r, a) THEN "listed" ELSE "checked"]
  /\ UNCHANGED <<row, hours, onLeave, started, sessions, crashes>>
  /\ Watch

\* The write: commitBooking's update under the unique index, or the new hold,
\* which no index protects.
Place(r) ==
  LET b == req[r].booking
      placed == [row[b] EXCEPT !.adviser = req[r].adviser, !.start = req[r].start]
  IN  /\ req[r].at = "checked"
      /\ \/ /\ Free(b) /\ IndexTaken(b, req[r].adviser, req[r].start)
            /\ Goto(r, "listed")
            /\ UNCHANGED row
         \/ /\ Free(b) /\ ~IndexTaken(b, req[r].adviser, req[r].start)
            /\ row' = [row EXCEPT ![b] = [placed EXCEPT !.status = "CONFIRMED"]]
            /\ Finish(r)
         \/ /\ ~Free(b)
            /\ row' = [row EXCEPT ![b] = [placed EXCEPT !.status = "PENDING", !.hold = "live"]]
            /\ Finish(r)
      /\ UNCHANGED <<hours, onLeave, started, sessions, crashes>>
      /\ Watch

Discard(b) == IF Free(b) THEN NoRow ELSE row[b]

\* Every free adviser was taken, or another error: the free row is deleted.
GiveUp(r) ==
  /\ \/ req[r].at = "listed" /\ req[r].pool = {}
     \/ req[r].at = "checked"
  /\ row' = [row EXCEPT ![req[r].booking] = Discard(req[r].booking)]
  /\ Finish(r)
  /\ UNCHANGED <<hours, onLeave, started, sessions, crashes>>
  /\ Watch

-----------------------------------------------------------------------------
\* Paying: POST /booking/checkout, the Stripe webhook, POST /booking/pay-with-wallet.

\* getHoldForCheckout: a live, unpaid hold.
Payable(b) == row[b].status = "PENDING" /\ ~row[b].paid /\ row[b].hold = "live"

Checkout(b) ==
  /\ ~Free(b) /\ Payable(b)
  /\ sessions[b].open + sessions[b].paid < MaxSessions
  /\ sessions' = [sessions EXCEPT ![b].open = @ + 1]
  /\ UNCHANGED <<row, hours, onLeave, started, req, crashes, history>>

\* confirmHeldBookingPayment, once per captured intent: read the row ...
PaymentArrives(r, b) ==
  /\ req[r].at = "idle"
  /\ sessions[b].open > 0
  /\ sessions' = [sessions EXCEPT ![b] = [open |-> @.open - 1, paid |-> @.paid + 1]]
  /\ req' = IF Active(b) THEN req
            ELSE [req EXCEPT ![r] = [Idle EXCEPT !.at = "paid", !.booking = b,
                                       !.adviser = row[b].adviser, !.start = row[b].start]]
  /\ UNCHANGED <<row, hours, onLeave, started, crashes>>
  /\ Watch

\* Mutant: the webhook trusts the lapsed hold and does not look for a clash.
SlotGoneTrusting(r) == FALSE
\* Did somebody else confirm an overlapping slot since request r read the row?
SlotGone(r) ==
  /\ req[r].adviser # None /\ req[r].start # None
  /\ ActiveClash(req[r].booking, req[r].adviser, req[r].start)

\* ... look for a clash with the slot read then ...
PaymentCheck(r) ==
  /\ req[r].at = "paid"
  /\ Goto(r, IF SlotGone(r) THEN "slotLost" ELSE "slotOk")
  /\ UNCHANGED <<row, hours, onLeave, started, sessions, crashes>>
  /\ Watch

\* ... confirm whatever the row has become, unless the index refuses ...
PaymentConfirm(r) ==
  LET b == req[r].booking IN
  /\ req[r].at = "slotOk"
  /\ IF IndexTaken(b, row[b].adviser, row[b].start)
     THEN Goto(r, "slotLost") /\ UNCHANGED row
     ELSE /\ row' = [row EXCEPT ![b] =
                       [@ EXCEPT !.status = "CONFIRMED", !.paid = TRUE, !.hold = "none"]]
          /\ Finish(r)
  /\ UNCHANGED <<hours, onLeave, started, sessions, crashes>>
  /\ Watch

\* Mutant: the lost slot stays on the row.
LoseSlotKeeping(b) == [row[b] EXCEPT !.paid = TRUE, !.hold = "none"]
LoseSlot(b) == [row[b] EXCEPT !.paid = TRUE, !.hold = "none", !.start = None]

\* ... or keep the money, drop the slot and flag the booking.
PaymentSlotLost(r) ==
  /\ req[r].at = "slotLost"
  /\ row' = [row EXCEPT ![req[r].booking] = LoseSlot(req[r].booking)]
  /\ Finish(r)
  /\ UNCHANGED <<hours, onLeave, started, sessions, crashes>>
  /\ Watch

\* payHeldBookingWithWallet: getHoldForCheckout outside the transaction ...
WalletPay(r, b) ==
  /\ req[r].at = "idle"
  /\ ~Free(b) /\ Payable(b)
  /\ req' = [req EXCEPT ![r] =
       [Idle EXCEPT !.at = "wallet", !.booking = b, !.lapsed = Lapsed]]
  /\ UNCHANGED <<row, hours, onLeave, started, sessions, crashes>>
  /\ Watch

\* ... the same test and the clash inside it, by the same `now` ...
WalletCheck(r) ==
  LET b == req[r].booking
      ok == /\ ~row[b].paid /\ HoldLive(r, b)
            /\ ~ActiveClash(b, row[b].adviser, row[b].start)
  IN  /\ req[r].at = "wallet"
      /\ IF ok THEN Goto(r, "walletOk") ELSE Finish(r)
      /\ UNCHANGED <<row, hours, onLeave, started, sessions, crashes>>
      /\ Watch

\* ... then the debit, which may be refused, and the update by id, all or
\* nothing under the index.
WalletConfirm(r) ==
  LET b == req[r].booking IN
  /\ req[r].at = "walletOk"
  /\ \/ UNCHANGED row
     \/ /\ ~IndexTaken(b, row[b].adviser, row[b].start)
        /\ row' = [row EXCEPT ![b] =
             [@ EXCEPT !.status = "CONFIRMED", !.paid = TRUE, !.hold = "none"]]
  /\ Finish(r)
  /\ UNCHANGED <<hours, onLeave, started, sessions, crashes>>
  /\ Watch

-----------------------------------------------------------------------------
\* Ending a booking: clientCancel, staffMarkStatus, recordLiaDecision.

\* The first read and its gates; an LIA verdict also completes a row that is
\* not confirmed.
Mark(r, b, target) ==
  /\ req[r].at = "idle"
  /\ \/ target \in {"CANCELLED", "COMPLETED"} /\ Active(b)
     \/ target = "NO_SHOW" /\ Active(b) /\ row[b].start # None /\ started
     \/ /\ target = "COMPLETED" /\ TypeOf[b] = "LIA"
        /\ row[b].status \notin {"none", "CANCELLED", "NO_SHOW"}
  /\ req' = [req EXCEPT ![r] =
       [Idle EXCEPT !.at = IF target = "COMPLETED" THEN "markOk" ELSE "mark",
                    !.booking = b, !.target = target]]
  /\ UNCHANGED <<row, hours, onLeave, started, sessions, crashes>>
  /\ Watch

\* applyTerminal's re-check; COMPLETED has none.
MarkCheck(r) ==
  /\ req[r].at = "mark"
  /\ IF Active(req[r].booking) THEN Goto(r, "markOk") ELSE Finish(r)
  /\ UNCHANGED <<row, hours, onLeave, started, sessions, crashes>>
  /\ Watch

\* The status write.  A cancelled or missed paid booking is store-credited in
\* the same transaction, and the refund-once index refuses a second credit.
MarkWrite(r) ==
  LET b == req[r].booking
      credits == req[r].target # "COMPLETED" /\ ~Free(b)
  IN  /\ req[r].at = "markOk"
      /\ row' = IF credits /\ row[b].credited THEN row
                ELSE [row EXCEPT ![b] = [row[b] EXCEPT !.status = req[r].target,
                                                       !.credited = @ \/ credits]]
      /\ Finish(r)
      /\ UNCHANGED <<hours, onLeave, started, sessions, crashes>>
      /\ Watch

-----------------------------------------------------------------------------
\* Time, the cron, leave and crashes.

HoldLapses(b) ==
  /\ row[b].hold = "live"
  /\ row' = [row EXCEPT ![b].hold = "lapsed"]
  /\ UNCHANGED <<hours, onLeave, started, sessions, req, crashes, history>>

\* releaseExpiredHolds.
Cleanup ==
  /\ \E b \in Bookings: Stale(b)
  /\ row' = [b \in Bookings |->
               IF Stale(b) THEN [row[b] EXCEPT !.status = "CANCELLED"] ELSE row[b]]
  /\ UNCHANGED <<hours, onLeave, started, sessions, req, crashes, history>>

\* Leave is raised (REQUESTED), or rejected / withdrawn.
Leave(a) ==
  /\ onLeave' = IF a \in onLeave THEN onLeave \ {a} ELSE onLeave \cup {a}
  /\ UNCHANGED <<row, hours, started, sessions, req, crashes, history>>

\* Staff replace the weekly windows of an adviser, or move them with the zone.
ReplaceAvailability(a) ==
  /\ \E h \in Hours \ {hours[a]}: hours' = [hours EXCEPT ![a] = h]
  /\ UNCHANGED <<row, onLeave, started, sessions, req, crashes, history>>

DayComes ==
  /\ ~started
  /\ started' = TRUE
  /\ UNCHANGED <<row, hours, onLeave, sessions, req, crashes, history>>

\* The process dies; what was written stays, what was not is lost.
Crash(r) ==
  /\ req[r].at # "idle"
  /\ crashes < MaxCrashes
  /\ crashes' = crashes + 1
  /\ Finish(r)
  /\ UNCHANGED <<row, hours, onLeave, started, sessions>>
  /\ Watch

Advance(r) ==
  \/ List(r) \/ TryAdviser(r) \/ Place(r) \/ GiveUp(r)
  \/ PaymentCheck(r) \/ PaymentConfirm(r) \/ PaymentSlotLost(r)
  \/ WalletCheck(r) \/ WalletConfirm(r)
  \/ MarkCheck(r) \/ MarkWrite(r)

Next ==
  \/ \E r \in Requests, b \in Bookings:
       \/ \E s \in 0..Horizon: Ask(r, b, s)
       \/ PaymentArrives(r, b)
       \/ WalletPay(r, b)
       \/ \E target \in {"CANCELLED", "NO_SHOW", "COMPLETED"}: Mark(r, b, target)
  \/ \E r \in Requests: Advance(r) \/ Crash(r)
  \/ \E b \in Bookings: Checkout(b) \/ HoldLapses(b)
  \/ Cleanup
  \/ \E a \in Advisers: Leave(a) \/ ReplaceAvailability(a)
  \/ DayComes

Spec == Init /\ [][Next]_vars

Fairness ==
  /\ \A r \in Requests: WF_vars(Advance(r))
  /\ \A b \in Bookings: WF_vars(HoldLapses(b))
  /\ WF_vars(Cleanup)

FairSpec == Spec /\ Fairness

-----------------------------------------------------------------------------
\* Rows and local states are well formed; a row with a live hold is unpaid and
\* has an adviser and a time.
CalendarOK ==
  /\ row \in [Bookings -> Rows]
  /\ \A b \in Bookings: row[b].hold = "live" =>
       ~row[b].paid /\ row[b].adviser # None /\ row[b].start # None
  /\ hours \in [Advisers -> Hours]
  /\ onLeave \subseteq Advisers
  /\ started \in BOOLEAN
  /\ sessions \in [Bookings -> [open: 0..MaxSessions, paid: 0..MaxSessions]]
  /\ req \in [Requests -> Reqs]
  /\ \A r \in Requests: req[r].at # "idle" => req[r].booking \in Bookings
  /\ crashes \in 0..MaxCrashes

TypeOK ==
  /\ CalendarOK
  /\ missed \in [Requests -> SUBSET Bookings]
  /\ offered \in [Bookings -> [Advisers -> Hours]]

\* "The hard double-booking backstop": whatever races, an adviser never has two
\* confirmed bookings starting at the same time.
NoDoubleBooking ==
  \A b, o \in Bookings:
    /\ b # o /\ Active(b) /\ Active(o)
    /\ row[b].adviser = row[o].adviser
    => row[b].start # row[o].start \/ row[b].start = None

\* An adviser is never in two overlapping confirmed sessions.
NoOverlap ==
  \A b, o \in Bookings:
    b # o /\ Active(b) /\ Active(o) /\ row[b].start # None
    => ~Overlaps(o, row[b].adviser, row[b].start, Length(b))

\* A time that is held is nobody else's session.
HeldTimeKept ==
  \A b, o \in Bookings:
    b # o /\ Held(b) /\ Active(o)
    => ~Overlaps(o, row[b].adviser, row[b].start, Length(b))

\* Request r has looked, is about to write b, and could not know of claim o.
WroteBlindly(r, b, o) ==
  req'[r] # req[r] /\ req[r].booking = b /\ req[r].at \in Looked /\ o \in missed[r]

\* A step that confirms b overlaps no confirmed session of the adviser, unless
\* that session was confirmed after the request last looked: the webhook's and
\* the wallet's clash check and the re-check of a commit see all there is.
SessionsApart ==
  [][\A b \in Bookings: ~Active(b) /\ Active(b)' /\ row'[b].start # None =>
       \A o \in Bookings \ {b}:
         /\ Active(o)
         /\ Overlaps(o, row'[b].adviser, row'[b].start, Length(b))
         => \E r \in Requests: WroteBlindly(r, b, o)]_vars

\* A new hold or a free booking is placed over no live hold and no confirmed
\* session, unless that one was written after its request last looked.  (What a
\* late payment of a lapsed hold may be confirmed over is HeldTimeKept.)
HoldsApart ==
  [][\A b \in Bookings: row[b].start = None /\ row'[b].start # None =>
       \A o \in Bookings \ {b}:
         /\ Held(o) \/ Active(o)
         /\ Overlaps(o, row'[b].adviser, row'[b].start, Length(b))
         => \E r \in Requests: WroteBlindly(r, b, o)]_vars

\* Two sessions of one type whose times were listed under the same hours of
\* their adviser never overlap, whatever races: the cut of a window into whole
\* sessions turns an overlap into an equal start, which the index refuses.
SameTypeNeverOverlaps ==
  \A b, o \in Bookings:
    /\ b # o /\ TypeOf[b] = TypeOf[o] /\ Active(b) /\ Active(o) /\ row[b].start # None
    /\ offered[b][row[b].adviser] = offered[o][row[b].adviser]
    => ~Overlaps(o, row[b].adviser, row[b].start, Length(b))

\* "One FREE_15 per client, ever" (cancelled ones aside).
FreeOnce ==
  \A b, o \in Bookings:
    /\ Free(b) /\ Free(o) /\ ClientOf[b] = ClientOf[o]
    /\ {row[b].status, row[o].status} \cap {"none", "CANCELLED"} = {}
    => b = o

\* A booking the client was told is confirmed has a time and an adviser.
ConfirmedHasSlot ==
  \A b \in Bookings: Active(b) => row[b].start # None /\ row[b].adviser # None

\* Money kept on an unconfirmed paid-type booking means its slot was lost: no
\* path leaves a client paid, unconfirmed and still holding the time.
PaidUnconfirmedLostSlot ==
  \A b \in Bookings:
    ~Free(b) /\ row[b].paid /\ row[b].status \in {"PENDING", "CANCELLED"}
    => row[b].start = None \/ row[b].credited

\* A cancelled and credited booking stays ended.
EndedStaysEnded ==
  [][\A b \in Bookings: row[b].credited => row'[b].status = row[b].status]_vars

\* Confirmation comes only to a booking still pending.
ConfirmsOnlyPending ==
  [][\A b \in Bookings: ~Active(b) /\ Active(b)' => row[b].status = "PENDING"]_vars

\* Nobody but its own client's payment, a staff verdict or the clock ends a
\* hold: while it is live it is neither cancelled nor deleted.
LiveHoldKept ==
  [][\A b \in Bookings:
       row[b].status = "PENDING" /\ row[b].hold = "live"
       => row'[b].status \in {"PENDING", "CONFIRMED", "COMPLETED"}]_vars

\* Every hold ends: it is paid, or it lapses and the cron cancels it.
HoldsEnd ==
  \A b \in Bookings: row[b].hold = "live" ~> row[b].status # "PENDING" \/ row[b].start = None

\* A free booking's provisional row is confirmed or deleted, never left behind.
FreeRowResolved ==
  \A b \in Bookings: Free(b) /\ row[b].status = "PENDING" ~> row[b].status # "PENDING"
=============================================================================
