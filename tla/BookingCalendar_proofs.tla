----------------------- MODULE BookingCalendar_proofs -----------------------
(***************************************************************************)
(* The adviser calendar for any bookings, clients, advisers, pools, hours  *)
(* and requests in flight.                                                 *)
(*                                                                         *)
(* Nothing locks a row between a request's reads and its write.  What      *)
(* carries the proof is what the others cannot do meanwhile (Local): a     *)
(* booking being placed is nobody else's, a row that was seen stays, and a *)
(* hold that has lapsed, or been confirmed, is never live again.           *)
(*                                                                         *)
(* That two sessions of one type and one set of hours never overlap is the *)
(* index and the cut of the windows.  Across types, across moved hours and *)
(* for holds there is only the check before the write: what is proved is   *)
(* that it misses nothing but what was written after it.                   *)
(***************************************************************************)
EXTENDS BookingCalendar, TLAPS

Placing == {"asked", "listed", "checked"}
Paying == {"paid", "slotOk", "slotLost", "wallet", "walletOk"}
Marking == {"mark", "markOk"}

\* The row of a free booking before its commit.
Provisional == [NoRow EXCEPT !.status = "PENDING", !.paid = TRUE]

\* A row: only paid types are held, a time comes with an adviser, and what is
\* confirmed is not held any more.
RowOK(b) ==
  /\ Free(b) => row[b].hold = "none"
  /\ row[b].start # None => row[b].adviser # None
  /\ row[b].status = "none" => row[b] = NoRow
  /\ Active(b) => row[b].hold # "live"
  /\ row[b].hold = "live" => ~row[b].paid /\ row[b].adviser # None /\ row[b].start # None

\* A request that places a booking has the row to itself.
Places(r) ==
  LET b == req[r].booking IN
  /\ req[r].start \in Nat
  /\ req[r].pool \subseteq Advisers
  /\ req[r].at = "checked" => req[r].adviser \in Advisers
  /\ row[b] = IF Free(b) /\ req[r].at # "asked" THEN Provisional ELSE NoRow

\* What a request in flight may assume of the rows, whatever others do to them.
Local(r) ==
  LET b == req[r].booking IN
  /\ req[r].at \in Placing => Places(r)
  /\ req[r].at \in Paying \cup Marking => row[b].status # "none"
  /\ req[r].at \in Paying => ~Free(b)
  /\ req[r].at \in Marking =>
       /\ req[r].target \in {"CANCELLED", "NO_SHOW", "COMPLETED"}
       /\ req[r].target # "COMPLETED" => row[b].hold # "live"
  /\ \A o \in req[r].lapsed: ~Free(o) /\ row[o].status # "none" /\ row[o].hold # "live"

Rowful == \A b \in Bookings: RowOK(b)
Locals == \A r \in Requests: Local(r)
OnePlaces ==
  \A q, r \in Requests: q # r /\ req[r].at \in Placing => req[q].booking # req[r].booking
SessionsOK ==
  \A b \in Bookings:
    /\ sessions[b].open + sessions[b].paid <= MaxSessions
    /\ sessions[b].open > 0 => ~Free(b) /\ row[b].status # "none"

IInv ==
  CalendarOK /\ Rowful /\ Locals /\ OnePlaces /\ SessionsOK /\ NoDoubleBooking /\ PaidUnconfirmedLostSlot

-----------------------------------------------------------------------------
\* Rows.

LEMMA Lengths == \A b \in Bookings: Length(b) \in Nat \ {0}
BY CalendarAssumption DEF Length

LEMMA NoneIsNoTime == None \notin Nat /\ None \notin Advisers /\ None \notin Bookings
BY CalendarAssumption

LEMMA NewRows ==
  /\ NoRow \in Rows /\ NoRow.status = "none" /\ NoRow.hold = "none" /\ NoRow.start = None
  /\ ~NoRow.paid /\ NoRow.adviser = None /\ ~NoRow.credited
  /\ Provisional \in Rows /\ Provisional.status = "PENDING" /\ Provisional.hold = "none"
  /\ Provisional.start = None /\ Provisional.paid /\ Provisional.adviser = None
  /\ ~Provisional.credited
<1>1. /\ NoRow \in Rows /\ NoRow.status = "none" /\ NoRow.hold = "none" /\ NoRow.start = None
      /\ NoRow.paid = FALSE /\ NoRow.adviser = None /\ NoRow.credited = FALSE
  BY DEF NoRow, Rows, Statuses
<1>2. /\ Provisional \in Rows /\ Provisional.status = "PENDING" /\ Provisional.hold = "none"
      /\ Provisional.start = None /\ Provisional.paid = TRUE /\ Provisional.adviser = None
      /\ Provisional.credited = FALSE
  BY <1>1 DEF Provisional, Rows, Statuses
<1> QED BY <1>1, <1>2

\* A row write that spares what other requests have seen of the row.
Spares(o) ==
  /\ row[o].status # "none" => row'[o].status # "none"
  /\ row'[o].hold = "live" => row[o].hold = "live" \/ row[o].status = "none"

\* ... and that claims no time for a confirmed row.
Settles(o) ==
  Active(o)' => /\ Active(o) /\ row'[o].adviser = row[o].adviser
                /\ row'[o].start \in {row[o].start, None}

PaidOK(b) ==
  ~Free(b) /\ row[b].paid /\ row[b].status \in {"PENDING", "CANCELLED"}
  => row[b].start = None \/ row[b].credited

Table == Rowful /\ SessionsOK /\ NoDoubleBooking /\ PaidUnconfirmedLostSlot

\* One row is written.
LEMMA OneRow ==
  ASSUME IInv, NEW b \in Bookings, NEW new \in Rows, row' = [row EXCEPT ![b] = new],
         UNCHANGED sessions, RowOK(b)', PaidOK(b)',
         new.status = "none" => row[b].status = "none" \/ Free(b),
         Settles(b) \/ ~IndexTaken(b, new.adviser, new.start)
  PROVE  Table' /\ row' \in [Bookings -> Rows]
<1>1. row \in [Bookings -> Rows] /\ row' \in [Bookings -> Rows]
  BY DEF IInv, CalendarOK
<1>2. row'[b] = new /\ \A o \in Bookings \ {b}: row'[o] = row[o]
  BY <1>1
<1>3. Rowful'
  <2>1. ASSUME NEW o \in Bookings \ {b} PROVE RowOK(o)'
    BY <1>2, <2>1 DEF IInv, Rowful, RowOK, Active
  <2> QED BY <2>1 DEF Rowful
<1>4. SessionsOK'
  BY <1>2 DEF IInv, SessionsOK
<1>5. PaidUnconfirmedLostSlot'
  <2>1. ASSUME NEW o \in Bookings \ {b} PROVE PaidOK(o)'
    BY <1>2, <2>1 DEF IInv, PaidUnconfirmedLostSlot, PaidOK
  <2> QED BY <2>1 DEF PaidUnconfirmedLostSlot, PaidOK
<1>6. NoDoubleBooking'
  <2>1. CASE Settles(b)
    BY <1>2, <2>1 DEF IInv, NoDoubleBooking, Settles, Active
  <2>2. CASE ~IndexTaken(b, new.adviser, new.start)
    <3>1. \A o \in Bookings \ {b}: Active(o) /\ row[o].adviser = new.adviser =>
             row[o].start # new.start \/ new.start = None
      BY <2>2 DEF IndexTaken
    <3>2. ASSUME NEW p \in Bookings, NEW o \in Bookings, p # o, Active(p)', Active(o)',
                 row'[p].adviser = row'[o].adviser
          PROVE  row'[p].start # row'[o].start \/ row'[p].start = None
      <4>1. CASE p = b
        BY <1>2, <3>1, <3>2, <4>1 DEF Active
      <4>2. CASE o = b
        BY <1>2, <3>1, <3>2, <4>2 DEF Active
      <4>3. CASE p # b /\ o # b
        BY <1>2, <3>2, <4>3 DEF IInv, NoDoubleBooking, Active
      <4> QED BY <4>1, <4>2, <4>3
    <3> QED BY <3>2 DEF NoDoubleBooking
  <2> QED BY <2>1, <2>2
<1> QED BY <1>1, <1>3, <1>4, <1>5, <1>6 DEF Table

\* Expired unpaid holds are released: nobody is placing those.
LEMMA Release ==
  ASSUME IInv, UNCHANGED sessions, row' \in [Bookings -> Rows],
         \A o \in Bookings: row'[o] = row[o]
           \/ (Stale(o) /\ row'[o] = [row[o] EXCEPT !.status = "CANCELLED"])
  PROVE  /\ Table' /\ \A o \in Bookings: Spares(o)
         /\ \A q \in Requests: req[q].at \in Placing => row'[req[q].booking] = row[req[q].booking]
<1>1. row \in [Bookings -> Rows]
  BY DEF IInv, CalendarOK
<1>2. \A o \in Bookings: row'[o] = row[o] \/
        (/\ Stale(o) /\ row'[o].status = "CANCELLED" /\ row'[o].adviser = row[o].adviser
         /\ row'[o].start = row[o].start /\ row'[o].hold = row[o].hold
         /\ row'[o].paid = row[o].paid /\ row'[o].credited = row[o].credited)
  BY <1>1 DEF Rows
<1>3. \A o \in Bookings: Stale(o) => row[o].status = "PENDING" /\ ~row[o].paid /\ row[o].hold = "lapsed"
  BY DEF Stale
<1>4. Rowful'
  <2>1. ASSUME NEW o \in Bookings PROVE RowOK(o)'
    BY <1>2, <1>3, <2>1 DEF IInv, Rowful, RowOK, Active
  <2> QED BY <2>1 DEF Rowful
<1>5. SessionsOK' /\ \A o \in Bookings: Spares(o)
  BY <1>2, <1>3 DEF IInv, SessionsOK, Spares
<1>6. NoDoubleBooking' /\ PaidUnconfirmedLostSlot'
  BY <1>2, <1>3 DEF IInv, NoDoubleBooking, PaidUnconfirmedLostSlot, Active
<1>7. ASSUME NEW q \in Requests, req[q].at \in Placing
      PROVE  row'[req[q].booking] = row[req[q].booking]
  <2>1. req[q].booking \in Bookings /\ row[req[q].booking] \in {NoRow, Provisional}
    BY <1>7 DEF IInv, CalendarOK, Locals, Local, Places, Placing
  <2>2. row[req[q].booking].hold = "none"
    BY <2>1, NewRows
  <2> QED BY <1>2, <1>3, <2>1, <2>2
<1> QED BY <1>4, <1>5, <1>6, <1>7 DEF Table

-----------------------------------------------------------------------------
\* Requests.

ReqOK(r) == req[r] \in Reqs /\ (req[r].at # "idle" => req[r].booking \in Bookings)

\* One request takes a step; the others may go on assuming what they did.
LEMMA OneRequestMoves ==
  ASSUME IInv, NEW r \in Requests, req' = [req EXCEPT ![r] = req'[r]],
         \A o \in Bookings: Spares(o)
           \/ (o = req[r].booking /\ req[r].at \in Placing /\ Free(o)),
         \A q \in Requests \ {r}: req[q].at \in Placing =>
           row'[req[q].booking] = row[req[q].booking] /\ req[q].booking # req'[r].booking,
         ReqOK(r)', Local(r)',
         req'[r].at \in Placing => \A q \in Requests \ {r}: req[q].booking # req'[r].booking
  PROVE  /\ Locals' /\ OnePlaces'
         /\ req' \in [Requests -> Reqs]
         /\ \A q \in Requests: req'[q].at # "idle" => req'[q].booking \in Bookings
<1>1. req \in [Requests -> Reqs] /\ \A q \in Requests: req[q].at # "idle" => req[q].booking \in Bookings
  BY DEF IInv, CalendarOK
<1>2. \A q \in Requests \ {r}: req'[q] = req[q]
  BY <1>1
<1>3. req' \in [Requests -> Reqs] /\ \A q \in Requests: req'[q].at # "idle" => req'[q].booking \in Bookings
  BY <1>1, <1>2 DEF ReqOK
<1>4. OnePlaces'
  BY <1>2 DEF IInv, OnePlaces
<1>5. ASSUME NEW q \in Requests \ {r} PROVE Local(q)'
  <2>1. req'[q] = req[q] /\ Local(q) /\ req[q] \in Reqs
    BY <1>1, <1>2, <1>5 DEF IInv, Locals
  <2>2. req[q].at \in Placing => Places(q)'
    BY <1>5, <2>1 DEF Local, Places
  <2>3. req[q].at \in Placing \cup Paying \cup Marking => req[q].booking \in Bookings
    BY <1>1, <1>5 DEF Placing, Paying, Marking
  <2>4. req[r].at \in Placing => req[q].booking # req[r].booking
    BY <1>5 DEF IInv, OnePlaces
  <2>5. req[q].at \in Paying \cup Marking => Spares(req[q].booking)
    BY <2>3, <2>4
  <2>6. ASSUME NEW o \in req[q].lapsed
        PROVE  ~Free(o) /\ row'[o].status # "none" /\ row'[o].hold # "live"
    <3>1. o \in Bookings
      BY <2>1, <2>6 DEF Reqs
    <3>2. ~Free(o) /\ row[o].status # "none" /\ row[o].hold # "live"
      BY <2>1, <2>6 DEF Local
    <3> QED BY <3>1, <3>2 DEF Spares
  <2> QED BY <2>1, <2>2, <2>5, <2>6 DEF Local, Spares
<1>6. Locals'
  BY <1>5 DEF Locals
<1> QED BY <1>3, <1>4, <1>6

\* A request that stays with its booking, or ends, is nobody's rival.
LEMMA NoRival ==
  ASSUME IInv, NEW r \in Requests,
         req'[r] = Idle \/ (/\ req'[r].booking = req[r].booking
                            /\ req'[r].at \in Placing => req[r].at \in Placing)
  PROVE  /\ \A q \in Requests \ {r}: req[q].at \in Placing => req[q].booking # req'[r].booking
         /\ req'[r].at \in Placing => \A q \in Requests \ {r}: req[q].booking # req'[r].booking
<1>1. \A q \in Requests: req[q].at \in Placing => req[q].booking \in Bookings
  BY DEF IInv, CalendarOK, Placing
<1>2. Idle.booking = None /\ Idle.at = "idle" /\ None \notin Bookings
  BY NoneIsNoTime DEF Idle
<1> QED BY <1>1, <1>2 DEF IInv, OnePlaces, Placing

LEMMA IdleOK == Idle \in Reqs /\ Idle.at = "idle" /\ Idle.lapsed = {} /\ Idle.booking = None
BY DEF Idle, Reqs, Steps, Statuses

LEMMA EndsOK ==
  ASSUME NEW r \in Requests, req'[r] = Idle
  PROVE  ReqOK(r)' /\ Local(r)'
BY IdleOK DEF ReqOK, Local, Placing, Paying, Marking

\* The rows stay as they are.
LEMMA RowsStay ==
  ASSUME IInv, UNCHANGED <<row, sessions>>
  PROVE  /\ Table' /\ row' \in [Bookings -> Rows] /\ \A o \in Bookings: Spares(o)
         /\ \A q \in Requests: req[q].at \in Placing => row'[req[q].booking] = row[req[q].booking]
BY DEF IInv, CalendarOK, Table, Rowful, RowOK, SessionsOK, NoDoubleBooking, PaidUnconfirmedLostSlot,
       Active, Spares

\* What remains once the rows and the requests are settled.
Rest1 ==
  /\ hours \in [Advisers -> Hours] /\ onLeave \subseteq Advisers /\ started \in BOOLEAN /\ crashes \in 0..MaxCrashes
  /\ sessions \in [Bookings -> [open: 0..MaxSessions, paid: 0..MaxSessions]]

LEMMA Together ==
  ASSUME Table', Locals', OnePlaces', row' \in [Bookings -> Rows], req' \in [Requests -> Reqs],
         \A q \in Requests: req'[q].at # "idle" => req'[q].booking \in Bookings, Rest1'
  PROVE  IInv'
BY DEF IInv, Table, Rowful, RowOK, CalendarOK, Rest1

\* A step of a request that reads.
LEMMA Reads ==
  ASSUME IInv, NEW r \in Requests, req' = [req EXCEPT ![r] = req'[r]], ReqOK(r)', Local(r)',
         UNCHANGED <<row, sessions>>, Rest1',
         req'[r] = Idle \/ (/\ req'[r].booking = req[r].booking
                            /\ req'[r].at \in Placing => req[r].at \in Placing)
  PROVE  IInv'
<1>1. /\ Table' /\ row' \in [Bookings -> Rows] /\ \A o \in Bookings: Spares(o)
      /\ \A q \in Requests: req[q].at \in Placing => row'[req[q].booking] = row[req[q].booking]
  BY RowsStay
<1>2. /\ \A q \in Requests \ {r}: req[q].at \in Placing => req[q].booking # req'[r].booking
      /\ req'[r].at \in Placing => \A q \in Requests \ {r}: req[q].booking # req'[r].booking
  BY NoRival
<1>3. /\ Locals' /\ OnePlaces' /\ req' \in [Requests -> Reqs]
      /\ \A q \in Requests: req'[q].at # "idle" => req'[q].booking \in Bookings
  BY <1>1, <1>2, OneRequestMoves
<1> QED BY <1>1, <1>3, Together

\* A step of a request that writes the row of its booking.
LEMMA Writes ==
  ASSUME IInv, NEW r \in Requests, req' = [req EXCEPT ![r] = req'[r]], ReqOK(r)', Local(r)',
         NEW b \in Bookings, b = req[r].booking, NEW new \in Rows, row' = [row EXCEPT ![b] = new],
         UNCHANGED sessions, Rest1', RowOK(b)', PaidOK(b)',
         new.status = "none" => row[b].status = "none" \/ Free(b),
         Settles(b) \/ ~IndexTaken(b, new.adviser, new.start),
         Spares(b) \/ (req[r].at \in Placing /\ Free(b)),
         req'[r] = Idle \/ (/\ req'[r].booking = req[r].booking
                            /\ req'[r].at \in Placing => req[r].at \in Placing)
  PROVE  IInv'
<1>1. Table' /\ row' \in [Bookings -> Rows]
  BY OneRow
<1>2. row'[b] = new /\ \A o \in Bookings \ {b}: row'[o] = row[o]
  BY DEF IInv, CalendarOK
<1>3. \A o \in Bookings: Spares(o) \/ (o = req[r].booking /\ req[r].at \in Placing /\ Free(o))
  BY <1>2 DEF Spares
<1>4. ASSUME NEW q \in Requests \ {r}, req[q].at \in Placing
      PROVE  row'[req[q].booking] = row[req[q].booking]
  <2>1. req[q].booking \in Bookings
    BY <1>4 DEF IInv, CalendarOK, Placing
  <2>2. req[q].booking # b
    BY <1>4 DEF IInv, OnePlaces
  <2> QED BY <1>2, <2>1, <2>2
<1>5. /\ \A q \in Requests \ {r}: req[q].at \in Placing => req[q].booking # req'[r].booking
      /\ req'[r].at \in Placing => \A q \in Requests \ {r}: req[q].booking # req'[r].booking
  BY NoRival
<1>6. /\ Locals' /\ OnePlaces' /\ req' \in [Requests -> Reqs]
      /\ \A q \in Requests: req'[q].at # "idle" => req'[q].booking \in Bookings
  BY <1>3, <1>4, <1>5, OneRequestMoves
<1> QED BY <1>1, <1>6, Together

\* Steps of the clock and of the world: every request stays where it is.
LEMMA WorldMoves ==
  ASSUME IInv, UNCHANGED req, Table', row' \in [Bookings -> Rows], \A o \in Bookings: Spares(o),
         \A q \in Requests: req[q].at \in Placing => row'[req[q].booking] = row[req[q].booking],
         Rest1'
  PROVE  IInv'
<1>1. req \in [Requests -> Reqs] /\ \A q \in Requests: req[q].at # "idle" => req[q].booking \in Bookings
  BY DEF IInv, CalendarOK
<1>2. OnePlaces'
  BY DEF IInv, OnePlaces
<1>3. ASSUME NEW q \in Requests PROVE Local(q)'
  <2>1. Local(q) /\ req[q] \in Reqs
    BY <1>1, <1>3 DEF IInv, Locals
  <2>2. req[q].at \in Placing => Places(q)'
    BY <1>3, <2>1 DEF Local, Places
  <2>3. req[q].at \in Paying \cup Marking => req[q].booking \in Bookings /\ Spares(req[q].booking)
    BY <1>1, <1>3 DEF Paying, Marking
  <2>4. ASSUME NEW o \in req[q].lapsed
        PROVE  ~Free(o) /\ row'[o].status # "none" /\ row'[o].hold # "live"
    <3>1. o \in Bookings
      BY <2>1, <2>4 DEF Reqs
    <3>2. ~Free(o) /\ row[o].status # "none" /\ row[o].hold # "live"
      BY <2>1, <2>4 DEF Local
    <3> QED BY <3>1, <3>2 DEF Spares
  <2> QED BY <2>1, <2>2, <2>3, <2>4 DEF Local, Spares
<1>4. Locals'
  BY <1>3 DEF Locals
<1> QED BY <1>1, <1>2, <1>4, Together

LEMMA Typed == ASSUME IInv PROVE Rest1
BY DEF IInv, CalendarOK, Rest1

LEMMA Finishes ==
  ASSUME IInv, NEW r \in Requests, Finish(r)
  PROVE  req' = [req EXCEPT ![r] = req'[r]] /\ req'[r] = Idle /\ ReqOK(r)' /\ Local(r)'
<1>1. req' = [req EXCEPT ![r] = req'[r]] /\ req'[r] = Idle
  BY DEF Finish, IInv, CalendarOK
<1> QED BY <1>1, EndsOK

LEMMA GoesTo ==
  ASSUME IInv, NEW r \in Requests, NEW at \in Steps \ {"idle"}, Goto(r, at), req[r].at # "idle"
  PROVE  /\ req' = [req EXCEPT ![r] = req'[r]] /\ ReqOK(r)'
         /\ req'[r].at = at /\ req'[r].booking = req[r].booking /\ req'[r].start = req[r].start
         /\ req'[r].adviser = req[r].adviser /\ req'[r].pool = req[r].pool
         /\ req'[r].lapsed = req[r].lapsed /\ req'[r].target = req[r].target
<1>1. req[r] \in Reqs /\ req[r].booking \in Bookings /\ req \in [Requests -> Reqs]
  BY DEF IInv, CalendarOK
<1>2. req'[r] = [req[r] EXCEPT !.at = at] /\ req' = [req EXCEPT ![r] = req'[r]]
  BY <1>1 DEF Goto
<1>3. /\ req'[r].at = at /\ req'[r].booking = req[r].booking /\ req'[r].start = req[r].start
      /\ req'[r].adviser = req[r].adviser /\ req'[r].pool = req[r].pool
      /\ req'[r].lapsed = req[r].lapsed /\ req'[r].target = req[r].target
  BY <1>1, <1>2 DEF Reqs
<1>4. req'[r] \in Reqs
  BY <1>1, <1>2 DEF Reqs
<1> QED BY <1>1, <1>2, <1>3, <1>4 DEF ReqOK

\* What is known of the request that takes a step.
LEMMA Here ==
  ASSUME IInv, NEW r \in Requests, req[r].at # "idle"
  PROVE  /\ req[r] \in Reqs /\ req[r].booking \in Bookings /\ row[req[r].booking] \in Rows
         /\ RowOK(req[r].booking) /\ PaidOK(req[r].booking) /\ Local(r) /\ Rest1
BY Typed DEF IInv, CalendarOK, Rowful, PaidUnconfirmedLostSlot, PaidOK, Locals

-----------------------------------------------------------------------------
\* Placing a booking.

LEMMA AskStep ==
  ASSUME IInv, NEW r \in Requests, NEW b \in Bookings, NEW s \in 0..Horizon, Ask(r, b, s)
  PROVE  IInv'
<1> DEFINE new == [Idle EXCEPT !.at = "asked", !.booking = b, !.start = s, !.lapsed = Lapsed]
<1>1. /\ row[b].status = "none" /\ \A q \in Requests: req[q].booking # b
      /\ req' = [req EXCEPT ![r] = new] /\ UNCHANGED <<hours, onLeave, started, sessions, crashes>>
      /\ row' = [o \in Bookings |-> IF ~Free(b) /\ ClientOf[o] = ClientOf[b] /\ Stale(o)
                                    THEN [row[o] EXCEPT !.status = "CANCELLED"] ELSE row[o]]
  BY DEF Ask
<1>2. row \in [Bookings -> Rows] /\ req \in [Requests -> Reqs] /\ row[b] = NoRow
  BY <1>1 DEF IInv, CalendarOK, Rowful, RowOK
<1>3. s \in Nat /\ Lapsed \in SUBSET Bookings
  BY CalendarAssumption DEF Lapsed
<1>4. /\ new \in Reqs /\ new.at = "asked" /\ new.booking = b /\ new.start = s
      /\ new.lapsed = Lapsed /\ new.pool = {}
  BY <1>3 DEF Idle, Reqs, Steps, Statuses
<1>5. row' \in [Bookings -> Rows]
  <2>1. ASSUME NEW o \in Bookings PROVE [row[o] EXCEPT !.status = "CANCELLED"] \in Rows
    BY <1>2, <2>1 DEF Rows, Statuses
  <2> QED BY <1>1, <1>2, <2>1
<1>6. /\ Table' /\ \A o \in Bookings: Spares(o)
      /\ \A q \in Requests: req[q].at \in Placing => row'[req[q].booking] = row[req[q].booking]
  BY <1>1, <1>5, Release
<1> HIDE DEF new
<1>7. req'[r] = new /\ req' = [req EXCEPT ![r] = req'[r]]
  BY <1>1, <1>2
<1>8. row'[b] = NoRow
  BY <1>1, <1>2, NewRows DEF Stale
<1>9. ASSUME NEW o \in Lapsed PROVE ~Free(o) /\ row'[o].status # "none" /\ row'[o].hold # "live"
  <2>1. o \in Bookings /\ row[o].hold = "lapsed"
    BY <1>9 DEF Lapsed
  <2>2. ~Free(o) /\ row[o].status # "none"
    BY <2>1, NewRows DEF IInv, Rowful, RowOK
  <2> QED BY <1>6, <2>1, <2>2 DEF Spares
<1>10. Local(r)' /\ ReqOK(r)'
  BY <1>4, <1>7, <1>8, <1>9 DEF Local, Places, Placing, Paying, Marking, ReqOK
<1>11. /\ Locals' /\ OnePlaces' /\ req' \in [Requests -> Reqs]
       /\ \A q \in Requests: req'[q].at # "idle" => req'[q].booking \in Bookings
  BY <1>1, <1>4, <1>6, <1>7, <1>10, OneRequestMoves
<1>12. Rest1'
  BY <1>1, Typed DEF Rest1
<1> QED BY <1>5, <1>6, <1>11, <1>12, Together

LEMMA ListStep ==
  ASSUME IInv, NEW r \in Requests, List(r)
  PROVE  IInv'
<1>1. req[r].at = "asked" /\ UNCHANGED <<hours, onLeave, started, sessions, crashes>>
  BY DEF List
<1>7. PICK b \in Bookings: b = req[r].booking
  BY <1>1, Here
<1> DEFINE free == AvailableStaff(r, b, req[r].start)
<1>2. /\ req[r] \in Reqs /\ row[b] \in Rows /\ Local(r) /\ Rest1
  BY <1>1, <1>7, Here
<1>3. Places(r) /\ row[b] = NoRow
  BY <1>1, <1>2, <1>7 DEF Local, Places, Placing
<1>4. Rest1'
  BY <1>1, <1>2 DEF Rest1
<1>5. CASE free = {}
  BY <1>1, <1>4, <1>5, <1>7, Finishes, Reads DEF List
<1>6. CASE free # {}
  <2>1. /\ req' = [req EXCEPT ![r].at = "listed", ![r].pool = free]
        /\ row' = IF Free(b) THEN [row EXCEPT ![b] = Provisional] ELSE row
    BY <1>6, <1>7 DEF List, Provisional
  <2>2. free \subseteq Advisers
    BY <1>2, CalendarAssumption DEF AvailableStaff
  <2> HIDE DEF free
  <2>3. /\ req' = [req EXCEPT ![r] = req'[r]] /\ req'[r] \in Reqs
        /\ req'[r].at = "listed" /\ req'[r].pool = free /\ req'[r].booking = b
        /\ req'[r].start = req[r].start /\ req'[r].lapsed = req[r].lapsed
    BY <1>2, <1>7, <2>1, <2>2 DEF IInv, CalendarOK, Reqs, Steps
  <2>4. row \in [Bookings -> Rows]
    BY DEF IInv, CalendarOK
  <2>5. row'[b] = (IF Free(b) THEN Provisional ELSE NoRow) /\ \A o \in Bookings \ {b}: row'[o] = row[o]
    BY <1>2, <1>3, <2>1, <2>4
  <2>6. ASSUME NEW o \in req[r].lapsed
        PROVE  ~Free(o) /\ row'[o].status # "none" /\ row'[o].hold # "live"
    <3>1. o \in Bookings /\ ~Free(o) /\ row[o].status # "none" /\ row[o].hold # "live"
      BY <1>2, <2>6 DEF Local, Reqs
    <3> QED BY <1>3, <2>5, <3>1, NewRows
  <2>7. Local(r)' /\ ReqOK(r)'
    BY <1>2, <1>3, <1>7, <2>2, <2>3, <2>5, <2>6 DEF Local, Places, Placing, Paying, Marking, ReqOK
  <2>8. CASE Free(b)
    <3>1. RowOK(b)' /\ PaidOK(b)' /\ Settles(b) /\ Spares(b)
      BY <1>3, <2>5, <2>8, NewRows DEF RowOK, PaidOK, Settles, Spares, Active
    <3>2. row' = [row EXCEPT ![b] = Provisional]
      BY <2>1, <2>8
    <3>3. req[r].at \in Placing
      BY <1>1 DEF Placing
    <3> QED BY <1>1, <1>2, <1>4, <1>7, <2>3, <2>7, <3>1, <3>2, <3>3, NewRows, Writes
  <2>9. CASE ~Free(b)
    <3>1. row' = row /\ req[r].at \in Placing
      BY <1>1, <2>1, <2>9 DEF Placing
    <3> QED BY <1>1, <1>4, <1>7, <2>3, <2>7, <3>1, Reads
  <2> QED BY <2>8, <2>9
<1> QED BY <1>5, <1>6

LEMMA TryAdviserStep ==
  ASSUME IInv, NEW r \in Requests, TryAdviser(r)
  PROVE  IInv'
<1>1. req[r].at = "listed" /\ UNCHANGED <<row, hours, onLeave, started, sessions, crashes>>
  BY DEF TryAdviser
<1>2. /\ req[r] \in Reqs /\ req[r].booking \in Bookings /\ Local(r) /\ Rest1
  BY <1>1, Here
<1>3. Places(r) /\ req[r].at \in Placing
  BY <1>1, <1>2 DEF Local, Placing
<1>4. PICK a \in req[r].pool:
        req' = [req EXCEPT ![r].pool = @ \ {a}, ![r].adviser = a,
                           ![r].at = IF Taken(r, a) THEN "listed" ELSE "checked"]
  BY DEF TryAdviser
<1>5. a \in Advisers
  BY <1>3 DEF Places
<1>6. PICK at \in {"listed", "checked"}:
        req' = [req EXCEPT ![r].pool = @ \ {a}, ![r].adviser = a, ![r].at = at]
  BY <1>4
<1>7. req' = [req EXCEPT ![r] = req'[r]] /\ req'[r] \in Reqs
        /\ req'[r].at = at /\ req'[r].pool = req[r].pool \ {a} /\ req'[r].adviser = a
        /\ req'[r].booking = req[r].booking /\ req'[r].start = req[r].start
        /\ req'[r].lapsed = req[r].lapsed
  BY <1>2, <1>5, <1>6 DEF IInv, CalendarOK, Reqs, Steps
<1>8. Local(r)' /\ ReqOK(r)'
  BY <1>1, <1>2, <1>3, <1>5, <1>6, <1>7 DEF Local, Places, Placing, Paying, Marking, ReqOK
<1>9. Rest1'
  BY <1>1, <1>2 DEF Rest1
<1> QED BY <1>1, <1>3, <1>7, <1>8, <1>9, Reads

LEMMA PlaceStep ==
  ASSUME IInv, NEW r \in Requests, Place(r)
  PROVE  IInv'
<1>1. req[r].at = "checked" /\ UNCHANGED <<hours, onLeave, started, sessions, crashes>>
  BY DEF Place
<1>2. PICK b \in Bookings: b = req[r].booking
  BY <1>1, Here
<1>3. /\ req[r] \in Reqs /\ row[b] \in Rows /\ Local(r) /\ Rest1
  BY <1>1, <1>2, Here
<1>4. /\ req[r].start \in Nat /\ req[r].adviser \in Advisers /\ req[r].at \in Placing
      /\ row[b] = IF Free(b) THEN Provisional ELSE NoRow
  BY <1>1, <1>2, <1>3 DEF Local, Places, Placing
<1>5. Rest1'
  BY <1>1, <1>3 DEF Rest1
<1>6. row[b].hold = "none" /\ row[b].start = None /\ (Free(b) <=> row[b].status = "PENDING")
  BY <1>4, NewRows
<1>7. ASSUME Goto(r, "listed"), UNCHANGED row PROVE IInv'
  <2>1. /\ req' = [req EXCEPT ![r] = req'[r]] /\ ReqOK(r)'
        /\ req'[r].at = "listed" /\ req'[r].booking = req[r].booking /\ req'[r].start = req[r].start
        /\ req'[r].pool = req[r].pool /\ req'[r].lapsed = req[r].lapsed
    BY <1>1, <1>7, GoesTo DEF Steps
  <2>2. Local(r)'
    BY <1>1, <1>3, <1>7, <2>1 DEF Local, Places, Placing, Paying, Marking
  <2> QED BY <1>1, <1>4, <1>5, <1>7, <2>1, <2>2, Reads
<1>8. ASSUME NEW status \in {"CONFIRMED", "PENDING"}, NEW hold \in {"none", "live"},
             row' = [row EXCEPT ![b] = [row[b] EXCEPT !.adviser = req[r].adviser, !.start = req[r].start,
                                                      !.status = status, !.hold = hold]],
             Finish(r),
             \/ Free(b) /\ status = "CONFIRMED" /\ hold = "none"
                  /\ ~IndexTaken(b, req[r].adviser, req[r].start)
             \/ ~Free(b) /\ status = "PENDING" /\ hold = "live"
      PROVE  IInv'
  <2> DEFINE new == [row[b] EXCEPT !.adviser = req[r].adviser, !.start = req[r].start,
                                   !.status = status, !.hold = hold]
  <2>1. /\ new.adviser = req[r].adviser /\ new.start = req[r].start /\ new.status = status
        /\ new.hold = hold /\ new.paid = row[b].paid /\ new.credited = row[b].credited
    BY <1>3 DEF Rows
  <2>2. new \in Rows
    BY <1>3, <1>4 DEF Rows, Statuses
  <2> HIDE DEF new
  <2>3. row' = [row EXCEPT ![b] = new]
    BY <1>8 DEF new
  <2>4. row'[b] = new
    BY <2>3 DEF IInv, CalendarOK
  <2>5. /\ new.adviser # None /\ new.start # None
        /\ ~Free(b) => ~new.paid
    BY <1>4, <2>1, NoneIsNoTime, NewRows
  <2>6. RowOK(b)'
    BY <1>8, <2>1, <2>4, <2>5 DEF RowOK, Active
  <2>7. PaidOK(b)'
    BY <2>4, <2>5 DEF PaidOK
  <2>8. Settles(b) \/ ~IndexTaken(b, new.adviser, new.start)
    BY <1>8, <2>1, <2>4 DEF Settles, Active
  <2>9. Spares(b) \/ Free(b)
    BY <1>8, <1>4, <2>1, <2>4, NewRows DEF Spares
  <2>10. /\ req' = [req EXCEPT ![r] = req'[r]] /\ req'[r] = Idle /\ ReqOK(r)' /\ Local(r)'
    BY <1>8, Finishes
  <2> QED BY <1>1, <1>2, <1>4, <1>5, <1>8, <2>1, <2>2, <2>3, <2>6, <2>7, <2>8, <2>9, <2>10, Writes
<1>9. CASE Free(b) /\ IndexTaken(b, req[r].adviser, req[r].start) /\ Goto(r, "listed") /\ UNCHANGED row
  BY <1>7, <1>9
<1>10. CASE /\ Free(b) /\ ~IndexTaken(b, req[r].adviser, req[r].start) /\ Finish(r)
            /\ row' = [row EXCEPT ![b] = [row[b] EXCEPT !.adviser = req[r].adviser,
                                 !.start = req[r].start, !.status = "CONFIRMED", !.hold = "none"]]
  BY <1>8, <1>10
<1>11. CASE /\ ~Free(b) /\ Finish(r)
            /\ row' = [row EXCEPT ![b] = [row[b] EXCEPT !.adviser = req[r].adviser,
                                 !.start = req[r].start, !.status = "PENDING", !.hold = "live"]]
  BY <1>8, <1>11
<1> DEFINE placed == [row[b] EXCEPT !.adviser = req[r].adviser, !.start = req[r].start]
<1>12. /\ [placed EXCEPT !.status = "CONFIRMED"]
            = [row[b] EXCEPT !.adviser = req[r].adviser, !.start = req[r].start,
                             !.status = "CONFIRMED", !.hold = "none"]
       /\ [placed EXCEPT !.status = "PENDING", !.hold = "live"]
            = [row[b] EXCEPT !.adviser = req[r].adviser, !.start = req[r].start,
                             !.status = "PENDING", !.hold = "live"]
  BY <1>3, <1>6 DEF Rows
<1> HIDE DEF placed
<1>13. \/ Free(b) /\ IndexTaken(b, req[r].adviser, req[r].start) /\ Goto(r, "listed") /\ UNCHANGED row
       \/ /\ Free(b) /\ ~IndexTaken(b, req[r].adviser, req[r].start) /\ Finish(r)
          /\ row' = [row EXCEPT ![b] = [placed EXCEPT !.status = "CONFIRMED"]]
       \/ /\ ~Free(b) /\ Finish(r)
          /\ row' = [row EXCEPT ![b] = [placed EXCEPT !.status = "PENDING", !.hold = "live"]]
  BY <1>2 DEF Place, placed
<1> QED BY <1>9, <1>10, <1>11, <1>12, <1>13

LEMMA GiveUpStep ==
  ASSUME IInv, NEW r \in Requests, GiveUp(r)
  PROVE  IInv'
<1>1. req[r].at \in {"listed", "checked"} /\ UNCHANGED <<hours, onLeave, started, sessions, crashes>>
  BY DEF GiveUp
<1>2. PICK b \in Bookings: b = req[r].booking
  BY <1>1, Here
<1>3. row[b] \in Rows /\ Local(r) /\ Rest1 /\ RowOK(b) /\ PaidOK(b)
  BY <1>1, <1>2, Here
<1>4. /\ req[r].at \in Placing
      /\ row[b] = IF Free(b) THEN Provisional ELSE NoRow
  BY <1>1, <1>2, <1>3 DEF Local, Places, Placing
<1>5. Rest1'
  BY <1>1, <1>3 DEF Rest1
<1>6. row' = [row EXCEPT ![b] = NoRow]
  BY <1>2, <1>4 DEF GiveUp, Discard
<1>7. row'[b] = NoRow
  BY <1>6 DEF IInv, CalendarOK
<1>8. /\ req' = [req EXCEPT ![r] = req'[r]] /\ req'[r] = Idle /\ ReqOK(r)' /\ Local(r)'
  BY Finishes DEF GiveUp
<1>9. RowOK(b)' /\ PaidOK(b)' /\ Settles(b) /\ (Spares(b) \/ Free(b))
        /\ (row[b].status = "none" \/ Free(b))
  BY <1>4, <1>7, NewRows DEF RowOK, PaidOK, Settles, Spares, Active
<1> QED BY <1>1, <1>2, <1>4, <1>5, <1>6, <1>8, <1>9, NewRows, Writes

-----------------------------------------------------------------------------
\* Paying.

LEMMA CheckoutStep ==
  ASSUME IInv, NEW b \in Bookings, Checkout(b)
  PROVE  IInv'
<1>1. /\ ~Free(b) /\ row[b].status = "PENDING" /\ sessions[b].open + sessions[b].paid < MaxSessions
      /\ sessions' = [sessions EXCEPT ![b].open = @ + 1]
      /\ UNCHANGED <<row, hours, onLeave, started, req, crashes>>
  BY DEF Checkout, Payable
<1>2. sessions \in [Bookings -> [open: 0..MaxSessions, paid: 0..MaxSessions]] /\ MaxSessions \in Nat
  BY CalendarAssumption DEF IInv, CalendarOK
<1>3. /\ sessions'[b].open = sessions[b].open + 1 /\ sessions'[b].paid = sessions[b].paid
      /\ sessions' \in [Bookings -> [open: 0..MaxSessions, paid: 0..MaxSessions]]
      /\ \A o \in Bookings \ {b}: sessions'[o] = sessions[o]
  BY <1>1, <1>2
<1>4. SessionsOK'
  BY <1>1, <1>2, <1>3 DEF IInv, SessionsOK
<1>5. Rest1'
  BY <1>1, <1>3, Typed DEF Rest1
<1>6. Table' /\ row' \in [Bookings -> Rows] /\ \A o \in Bookings: Spares(o)
  BY <1>1, <1>4 DEF IInv, CalendarOK, Table, Rowful, RowOK, NoDoubleBooking, PaidUnconfirmedLostSlot,
                    Active, Spares
<1> QED BY <1>1, <1>5, <1>6, WorldMoves

LEMMA PaymentArrivesStep ==
  ASSUME IInv, NEW r \in Requests, NEW b \in Bookings, PaymentArrives(r, b)
  PROVE  IInv'
<1>1. /\ req[r].at = "idle" /\ sessions[b].open > 0
      /\ sessions' = [sessions EXCEPT ![b] = [open |-> sessions[b].open - 1,
                                              paid |-> sessions[b].paid + 1]]
      /\ UNCHANGED <<row, hours, onLeave, started, crashes>>
  BY DEF PaymentArrives
<1>2. /\ sessions \in [Bookings -> [open: 0..MaxSessions, paid: 0..MaxSessions]] /\ MaxSessions \in Nat
      /\ sessions[b].open + sessions[b].paid <= MaxSessions /\ ~Free(b) /\ row[b].status # "none"
  BY <1>1, CalendarAssumption DEF IInv, CalendarOK, SessionsOK
<1>3. /\ sessions'[b].open = sessions[b].open - 1 /\ sessions'[b].paid = sessions[b].paid + 1
      /\ sessions' \in [Bookings -> [open: 0..MaxSessions, paid: 0..MaxSessions]]
      /\ \A o \in Bookings \ {b}: sessions'[o] = sessions[o]
  BY <1>1, <1>2
<1>4. SessionsOK'
  BY <1>1, <1>2, <1>3 DEF IInv, SessionsOK
<1>5. Rest1'
  BY <1>1, <1>3, Typed DEF Rest1
<1>6. /\ Table' /\ row' \in [Bookings -> Rows] /\ \A o \in Bookings: Spares(o)
      /\ \A q \in Requests: req[q].at \in Placing => row'[req[q].booking] = row[req[q].booking]
  BY <1>1, <1>4 DEF IInv, CalendarOK, Table, Rowful, RowOK, NoDoubleBooking, PaidUnconfirmedLostSlot,
                    Active, Spares
<1>7. CASE req' = req
  BY <1>5, <1>6, <1>7, WorldMoves
<1>8. CASE req' = [req EXCEPT ![r] = [Idle EXCEPT !.at = "paid", !.booking = b,
                                        !.adviser = row[b].adviser, !.start = row[b].start]]
  <2> DEFINE new == [Idle EXCEPT !.at = "paid", !.booking = b, !.adviser = row[b].adviser,
                                 !.start = row[b].start]
  <2>1. row[b] \in Rows
    BY DEF IInv, CalendarOK
  <2>2. new \in Reqs /\ new.at = "paid" /\ new.booking = b /\ new.lapsed = {}
    BY <2>1 DEF Rows, Reqs, Idle, Steps, Statuses
  <2> HIDE DEF new
  <2>3. req'[r] = new /\ req' = [req EXCEPT ![r] = req'[r]]
    BY <1>8 DEF new, IInv, CalendarOK
  <2>4. ReqOK(r)' /\ Local(r)'
    BY <1>1, <1>2, <2>2, <2>3 DEF ReqOK, Local, Placing, Paying, Marking
  <2>5. \A q \in Requests: req[q].at \in Placing => req[q].booking # b
    <3>1. ASSUME NEW q \in Requests, req[q].at \in Placing, req[q].booking = b PROVE FALSE
      BY <1>2, <3>1, NewRows DEF IInv, Locals, Local, Places
    <3> QED BY <3>1
  <2>6. /\ Locals' /\ OnePlaces' /\ req' \in [Requests -> Reqs]
        /\ \A q \in Requests: req'[q].at # "idle" => req'[q].booking \in Bookings
    BY <1>6, <2>2, <2>3, <2>4, <2>5, OneRequestMoves DEF Placing
  <2> QED BY <1>5, <1>6, <2>6, Together
<1> QED BY <1>7, <1>8 DEF PaymentArrives

\* A request that goes on to another step of its kind.
LEMMA GoesOn ==
  ASSUME IInv, NEW r \in Requests, NEW at \in Steps \ {"idle"}, Goto(r, at),
         \/ req[r].at \in Paying /\ at \in Paying
         \/ req[r].at \in Marking /\ at \in Marking,
         UNCHANGED <<row, hours, onLeave, started, sessions, crashes>>
  PROVE  IInv'
<1>1. req[r].at # "idle" /\ req[r].at \notin Placing /\ at \notin Placing
  BY DEF Paying, Marking, Placing
<1>2. /\ req' = [req EXCEPT ![r] = req'[r]] /\ ReqOK(r)'
      /\ req'[r].at = at /\ req'[r].booking = req[r].booking
      /\ req'[r].lapsed = req[r].lapsed /\ req'[r].target = req[r].target
  BY <1>1, GoesTo
<1>3. Local(r) /\ Rest1
  BY <1>1, Here
<1>4. Local(r)' /\ Rest1'
  BY <1>1, <1>2, <1>3 DEF Local, Rest1, Paying, Marking, Placing
<1> QED BY <1>1, <1>2, <1>4, Reads

\* A request that ends with nothing written.
LEMMA EndsQuietly ==
  ASSUME IInv, NEW r \in Requests, Finish(r), UNCHANGED <<row, sessions>>, Rest1'
  PROVE  IInv'
BY Finishes, Reads

LEMMA PaymentCheckStep ==
  ASSUME IInv, NEW r \in Requests, PaymentCheck(r)
  PROVE  IInv'
<1>1. PICK at \in {"slotLost", "slotOk"}: Goto(r, at)
  BY DEF PaymentCheck
<1> QED BY <1>1, GoesOn DEF PaymentCheck, Paying, Steps

\* A paid row is confirmed, by the webhook or from the wallet.
LEMMA Confirms ==
  ASSUME IInv, NEW r \in Requests, req[r].at \in Paying, NEW b \in Bookings, b = req[r].booking,
         ~IndexTaken(b, row[b].adviser, row[b].start),
         row' = [row EXCEPT ![b] = [@ EXCEPT !.status = "CONFIRMED", !.paid = TRUE, !.hold = "none"]],
         Finish(r), UNCHANGED <<hours, onLeave, started, sessions, crashes>>
  PROVE  IInv'
<1> DEFINE new == [row[b] EXCEPT !.status = "CONFIRMED", !.paid = TRUE, !.hold = "none"]
<1>1. row[b] \in Rows /\ RowOK(b) /\ Local(r) /\ Rest1
  BY Here DEF Paying
<1>2. /\ new \in Rows /\ new.status = "CONFIRMED" /\ new.paid /\ new.hold = "none"
      /\ new.adviser = row[b].adviser /\ new.start = row[b].start
  BY <1>1 DEF Rows, Statuses
<1> HIDE DEF new
<1>3. row' = [row EXCEPT ![b] = new] /\ row'[b] = new
  BY DEF new, IInv, CalendarOK
<1>4. ~Free(b) /\ row[b].status # "none"
  BY <1>1 DEF Local
<1>5. RowOK(b)' /\ PaidOK(b)' /\ Spares(b) /\ Rest1'
  BY <1>1, <1>2, <1>3, <1>4 DEF RowOK, PaidOK, Spares, Active, Rest1
<1>6. /\ req' = [req EXCEPT ![r] = req'[r]] /\ req'[r] = Idle /\ ReqOK(r)' /\ Local(r)'
  BY Finishes
<1> QED BY <1>2, <1>3, <1>4, <1>5, <1>6, Writes

LEMMA PaymentConfirmStep ==
  ASSUME IInv, NEW r \in Requests, PaymentConfirm(r)
  PROVE  IInv'
<1>1. req[r].at = "slotOk" /\ UNCHANGED <<hours, onLeave, started, sessions, crashes>>
  BY DEF PaymentConfirm
<1>2. PICK b \in Bookings: b = req[r].booking
  BY <1>1, Here
<1>3. CASE IndexTaken(b, row[b].adviser, row[b].start)
  BY <1>1, <1>2, <1>3, GoesOn DEF PaymentConfirm, Paying, Steps
<1>4. CASE ~IndexTaken(b, row[b].adviser, row[b].start)
  BY <1>1, <1>2, <1>4, Confirms DEF PaymentConfirm, Paying
<1> QED BY <1>3, <1>4

LEMMA PaymentSlotLostStep ==
  ASSUME IInv, NEW r \in Requests, PaymentSlotLost(r)
  PROVE  IInv'
<1>1. req[r].at = "slotLost" /\ UNCHANGED <<hours, onLeave, started, sessions, crashes>> /\ Finish(r)
  BY DEF PaymentSlotLost
<1>2. PICK b \in Bookings: b = req[r].booking
  BY <1>1, Here
<1>3. row[b] \in Rows /\ RowOK(b) /\ Local(r) /\ Rest1
  BY <1>1, <1>2, Here
<1>4. LoseSlot(b) \in Rows /\ LoseSlot(b).status = row[b].status /\ LoseSlot(b).hold = "none"
        /\ LoseSlot(b).adviser = row[b].adviser /\ LoseSlot(b).start = None
  BY <1>3 DEF LoseSlot, Rows
<1>5. row' = [row EXCEPT ![b] = LoseSlot(b)] /\ row'[b] = LoseSlot(b)
  BY <1>2 DEF PaymentSlotLost, IInv, CalendarOK
<1>6. ~Free(b) /\ row[b].status # "none"
  BY <1>1, <1>2, <1>3 DEF Local, Paying
<1>7. RowOK(b)' /\ PaidOK(b)' /\ Spares(b) /\ Settles(b) /\ Rest1'
  BY <1>1, <1>3, <1>4, <1>5, <1>6 DEF RowOK, PaidOK, Spares, Settles, Active, Rest1
<1>8. /\ req' = [req EXCEPT ![r] = req'[r]] /\ req'[r] = Idle /\ ReqOK(r)' /\ Local(r)'
  BY <1>1, Finishes
<1> QED BY <1>1, <1>2, <1>4, <1>5, <1>6, <1>7, <1>8, Writes

\* A request that begins on a row that exists.
LEMMA Begins ==
  ASSUME IInv, NEW r \in Requests, NEW b \in Bookings, row[b].status # "none",
         ~(Free(b) /\ row[b] = Provisional),
         NEW new \in Reqs, req' = [req EXCEPT ![r] = new], new.booking = b,
         new.lapsed \subseteq Lapsed,
         \/ new.at \in Paying /\ ~Free(b)
         \/ /\ new.at \in Marking /\ new.target \in {"CANCELLED", "NO_SHOW", "COMPLETED"}
            /\ new.target # "COMPLETED" => row[b].hold # "live",
         UNCHANGED <<row, hours, onLeave, started, sessions, crashes>>
  PROVE  IInv'
<1>1. /\ Table' /\ row' \in [Bookings -> Rows] /\ \A o \in Bookings: Spares(o)
      /\ \A q \in Requests: req[q].at \in Placing => row'[req[q].booking] = row[req[q].booking]
  BY RowsStay
<1>2. req'[r] = new /\ req' = [req EXCEPT ![r] = req'[r]]
  BY DEF IInv, CalendarOK
<1>3. new.at \notin Placing
  BY DEF Placing, Paying, Marking
<1>4. ASSUME NEW o \in new.lapsed PROVE ~Free(o) /\ row[o].status # "none" /\ row[o].hold # "live"
  <2>1. o \in Bookings /\ row[o].hold = "lapsed"
    BY <1>4 DEF Lapsed
  <2> QED BY <2>1, NewRows DEF IInv, Rowful, RowOK
<1>5. ReqOK(r)' /\ Local(r)'
  BY <1>2, <1>3, <1>4 DEF ReqOK, Local, Paying, Marking, Placing
<1>6. ASSUME NEW q \in Requests, req[q].at \in Placing, req[q].booking = b PROVE FALSE
  BY <1>6, NewRows DEF IInv, Locals, Local, Places
<1>7. /\ Locals' /\ OnePlaces' /\ req' \in [Requests -> Reqs]
      /\ \A q \in Requests: req'[q].at # "idle" => req'[q].booking \in Bookings
  BY <1>1, <1>2, <1>3, <1>5, <1>6, OneRequestMoves
<1>8. Rest1'
  BY Typed DEF Rest1
<1> QED BY <1>1, <1>7, <1>8, Together

LEMMA WalletPayStep ==
  ASSUME IInv, NEW r \in Requests, NEW b \in Bookings, WalletPay(r, b)
  PROVE  IInv'
<1> DEFINE new == [Idle EXCEPT !.at = "wallet", !.booking = b, !.lapsed = Lapsed]
<1>1. /\ ~Free(b) /\ row[b].status = "PENDING" /\ req' = [req EXCEPT ![r] = new]
      /\ UNCHANGED <<row, hours, onLeave, started, sessions, crashes>>
  BY DEF WalletPay, Payable
<1>2. Lapsed \in SUBSET Bookings
  BY DEF Lapsed
<1>3. new \in Reqs /\ new.at = "wallet" /\ new.booking = b /\ new.lapsed = Lapsed
  BY <1>2 DEF Idle, Reqs, Steps, Statuses
<1> HIDE DEF new
<1>4. new.at \in Paying
  BY <1>3 DEF Paying
<1> QED BY <1>1, <1>3, <1>4, Begins

LEMMA WalletCheckStep ==
  ASSUME IInv, NEW r \in Requests, WalletCheck(r)
  PROVE  IInv'
<1>1. /\ req[r].at = "wallet" /\ UNCHANGED <<row, hours, onLeave, started, sessions, crashes>>
      /\ Goto(r, "walletOk") \/ Finish(r)
  BY DEF WalletCheck
<1>2. CASE Goto(r, "walletOk")
  BY <1>1, <1>2, GoesOn DEF Paying, Steps
<1>3. CASE Finish(r)
  BY <1>1, <1>3, EndsQuietly, Typed DEF Rest1
<1> QED BY <1>1, <1>2, <1>3

LEMMA WalletConfirmStep ==
  ASSUME IInv, NEW r \in Requests, WalletConfirm(r)
  PROVE  IInv'
<1>1. req[r].at = "walletOk" /\ UNCHANGED <<hours, onLeave, started, sessions, crashes>> /\ Finish(r)
  BY DEF WalletConfirm
<1>2. PICK b \in Bookings: b = req[r].booking
  BY <1>1, Here
<1>3. CASE UNCHANGED row
  BY <1>1, <1>3, EndsQuietly, Typed DEF Rest1
<1>4. CASE ~UNCHANGED row
  BY <1>1, <1>2, <1>4, Confirms DEF WalletConfirm, Paying
<1> QED BY <1>3, <1>4

-----------------------------------------------------------------------------
\* Ending.

LEMMA MarkStep ==
  ASSUME IInv, NEW r \in Requests, NEW b \in Bookings,
         NEW target \in {"CANCELLED", "NO_SHOW", "COMPLETED"}, Mark(r, b, target)
  PROVE  IInv'
<1>1. PICK at \in Marking: req' = [req EXCEPT ![r] =
                             [Idle EXCEPT !.at = at, !.booking = b, !.target = target]]
  BY DEF Mark, Marking
<1>2. /\ Active(b) \/ (TypeOf[b] = "LIA" /\ row[b].status \notin {"none", "CANCELLED", "NO_SHOW"})
      /\ target # "COMPLETED" => Active(b)
      /\ UNCHANGED <<row, hours, onLeave, started, sessions, crashes>>
  BY DEF Mark
<1> DEFINE new == [Idle EXCEPT !.at = at, !.booking = b, !.target = target]
<1>3. new \in Reqs /\ new.at = at /\ new.booking = b /\ new.target = target /\ new.lapsed = {}
  BY DEF Idle, Reqs, Steps, Statuses, Marking
<1> HIDE DEF new
<1>4. row[b].status # "none" /\ ~(Free(b) /\ row[b] = Provisional)
  BY <1>2, NewRows DEF Active, Free
<1>5. target # "COMPLETED" => row[b].hold # "live"
  BY <1>2 DEF IInv, Rowful, RowOK
<1> QED BY <1>1, <1>2, <1>3, <1>4, <1>5, Begins DEF new

LEMMA MarkCheckStep ==
  ASSUME IInv, NEW r \in Requests, MarkCheck(r)
  PROVE  IInv'
<1>1. /\ req[r].at = "mark" /\ UNCHANGED <<row, hours, onLeave, started, sessions, crashes>>
      /\ Goto(r, "markOk") \/ Finish(r)
  BY DEF MarkCheck
<1>2. CASE Goto(r, "markOk")
  BY <1>1, <1>2, GoesOn DEF Marking, Steps
<1>3. CASE Finish(r)
  BY <1>1, <1>3, EndsQuietly, Typed DEF Rest1
<1> QED BY <1>1, <1>2, <1>3

LEMMA MarkWriteStep ==
  ASSUME IInv, NEW r \in Requests, MarkWrite(r)
  PROVE  IInv'
<1>1. req[r].at = "markOk" /\ UNCHANGED <<hours, onLeave, started, sessions, crashes>> /\ Finish(r)
  BY DEF MarkWrite
<1>2. PICK b \in Bookings: b = req[r].booking
  BY <1>1, Here
<1>3. row[b] \in Rows /\ RowOK(b) /\ PaidOK(b) /\ Local(r) /\ Rest1
  BY <1>1, <1>2, Here
<1>4. CASE row' = row
  BY <1>1, <1>3, <1>4, EndsQuietly DEF Rest1
<1>5. CASE row' # row
  <2> DEFINE target == req[r].target
             credits == target # "COMPLETED" /\ ~Free(b)
             credited == row[b].credited \/ credits
             new == [row[b] EXCEPT !.status = target, !.credited = credited]
  <2>1. target \in {"CANCELLED", "NO_SHOW", "COMPLETED"} /\ row[b].status # "none"
    BY <1>1, <1>2, <1>3 DEF Local, Marking
  <2>2. row' = [row EXCEPT ![b] = new]
    <3>1. row' = IF credits /\ row[b].credited THEN row
                 ELSE [row EXCEPT ![b] = [row[b] EXCEPT !.status = target, !.credited = @ \/ credits]]
      BY <1>2 DEF MarkWrite
    <3>2. [row[b] EXCEPT !.status = target, !.credited = @ \/ credits] = new
      BY Zenon
    <3> QED BY <1>5, <3>1, <3>2, Zenon
  <2>3. credited \in BOOLEAN /\ (~Free(b) /\ target # "COMPLETED" => credited)
    BY <1>3 DEF Rows
  <2> HIDE DEF credited, target
  <2>4. /\ new \in Rows /\ new.status = target /\ new.credited = credited
        /\ new.adviser = row[b].adviser /\ new.start = row[b].start /\ new.hold = row[b].hold
        /\ new.paid = row[b].paid
    BY <1>3, <2>1, <2>3 DEF Rows, Statuses
  <2> HIDE DEF new
  <2>5. row'[b] = new
    BY <2>2 DEF IInv, CalendarOK
  <2>6. RowOK(b)' /\ PaidOK(b)' /\ Spares(b) /\ Settles(b) /\ Rest1'
    BY <1>1, <1>3, <2>1, <2>3, <2>4, <2>5 DEF RowOK, PaidOK, Spares, Settles, Active, Rest1
  <2>7. /\ req' = [req EXCEPT ![r] = req'[r]] /\ req'[r] = Idle /\ ReqOK(r)' /\ Local(r)'
    BY <1>1, Finishes
  <2> QED BY <1>1, <1>2, <2>1, <2>2, <2>4, <2>6, <2>7, Writes
<1> QED BY <1>4, <1>5

-----------------------------------------------------------------------------
\* The clock, the cron, leave and crashes.

LEMMA HoldLapsesStep ==
  ASSUME IInv, NEW b \in Bookings, HoldLapses(b)
  PROVE  IInv'
<1> DEFINE new == [row[b] EXCEPT !.hold = "lapsed"]
<1>1. /\ row[b].hold = "live" /\ row' = [row EXCEPT ![b].hold = "lapsed"]
      /\ UNCHANGED <<hours, onLeave, started, sessions, req, crashes>>
  BY DEF HoldLapses
<1>2. row \in [Bookings -> Rows] /\ RowOK(b) /\ PaidOK(b)
  BY DEF IInv, CalendarOK, Rowful, PaidUnconfirmedLostSlot, PaidOK
<1>3. /\ new \in Rows /\ new.hold = "lapsed" /\ new.status = row[b].status /\ new.paid = row[b].paid
      /\ new.adviser = row[b].adviser /\ new.start = row[b].start /\ new.credited = row[b].credited
  BY <1>2 DEF Rows
<1>4. row' = [row EXCEPT ![b] = new]
  BY <1>1
<1> HIDE DEF new
<1>5. row'[b] = new /\ \A o \in Bookings \ {b}: row'[o] = row[o]
  BY <1>2, <1>4
<1>6. row[b].status # "none" /\ ~Free(b)
  BY <1>1, <1>2, NewRows DEF RowOK
<1>7. RowOK(b)' /\ PaidOK(b)' /\ Settles(b)
  BY <1>2, <1>3, <1>5, <1>6 DEF RowOK, PaidOK, Settles, Active
<1>8. \A o \in Bookings: Spares(o)
  BY <1>3, <1>5 DEF Spares
<1>9. ASSUME NEW q \in Requests, req[q].at \in Placing
      PROVE  row'[req[q].booking] = row[req[q].booking]
  <2>1. req[q].booking \in Bookings /\ row[req[q].booking] \in {NoRow, Provisional}
    BY <1>9 DEF IInv, CalendarOK, Locals, Local, Places, Placing
  <2> QED BY <1>1, <1>5, <2>1, NewRows
<1>10. Table' /\ row' \in [Bookings -> Rows]
  BY <1>1, <1>3, <1>4, <1>6, <1>7, OneRow
<1>11. Rest1'
  BY <1>1, Typed DEF Rest1
<1> QED BY <1>1, <1>8, <1>9, <1>10, <1>11, WorldMoves

LEMMA CleanupStep ==
  ASSUME IInv, Cleanup
  PROVE  IInv'
<1>1. /\ row' = [b \in Bookings |->
                   IF Stale(b) THEN [row[b] EXCEPT !.status = "CANCELLED"] ELSE row[b]]
      /\ UNCHANGED <<hours, onLeave, started, sessions, req, crashes>>
  BY DEF Cleanup
<1>2. row' \in [Bookings -> Rows]
  <2>1. ASSUME NEW o \in Bookings
        PROVE  row[o] \in Rows /\ [row[o] EXCEPT !.status = "CANCELLED"] \in Rows
    BY <2>1 DEF IInv, CalendarOK, Rows, Statuses
  <2> QED BY <1>1, <2>1
<1>3. /\ Table' /\ \A o \in Bookings: Spares(o)
      /\ \A q \in Requests: req[q].at \in Placing => row'[req[q].booking] = row[req[q].booking]
  BY <1>1, <1>2, Release
<1>4. Rest1'
  BY <1>1, Typed DEF Rest1
<1> QED BY <1>1, <1>2, <1>3, <1>4, WorldMoves

\* Neither rows nor requests are touched.
LEMMA Elsewhere ==
  ASSUME IInv, UNCHANGED <<row, sessions, req>>, Rest1'
  PROVE  IInv'
BY RowsStay, WorldMoves

LEMMA CrashStep ==
  ASSUME IInv, NEW r \in Requests, Crash(r)
  PROVE  IInv'
<1>1. crashes' \in 0..MaxCrashes
  BY CalendarAssumption DEF Crash, IInv, CalendarOK
<1> QED BY <1>1, EndsQuietly, Typed DEF Crash, Rest1

-----------------------------------------------------------------------------
LEMMA InitInv == Init => IInv
<1> SUFFICES ASSUME Init PROVE IInv
  OBVIOUS
<1>1. \A r \in Requests: req[r] = Idle
  BY DEF Init
<1>2. Locals /\ OnePlaces
  BY <1>1, IdleOK DEF Locals, Local, OnePlaces, Placing, Paying, Marking
<1>3. CalendarOK
  <2>1. row \in [Bookings -> Rows] /\ \A b \in Bookings: row[b].hold = "none"
    BY NewRows DEF Init
  <2>2. sessions \in [Bookings -> [open: 0..MaxSessions, paid: 0..MaxSessions]]
    BY CalendarAssumption DEF Init
  <2>3. req \in [Requests -> Reqs] /\ \A r \in Requests: req[r].at = "idle"
    BY IdleOK DEF Init
  <2>4. onLeave \subseteq Advisers /\ crashes \in 0..MaxCrashes
    BY CalendarAssumption DEF Init
  <2>5. started \in BOOLEAN
    BY Zenon DEF Init
  <2>6. hours \in [Advisers -> Hours]
    BY DEF Init
  <2> QED BY <2>1, <2>2, <2>3, <2>4, <2>5, <2>6 DEF CalendarOK
<1>4. \A b \in Bookings: row[b] = NoRow
  BY DEF Init
<1>5. Rowful /\ NoDoubleBooking /\ PaidUnconfirmedLostSlot
  BY <1>4, NewRows DEF Rowful, RowOK, NoDoubleBooking, PaidUnconfirmedLostSlot, Active
<1>6. SessionsOK
  BY CalendarAssumption DEF Init, SessionsOK
<1> QED BY <1>2, <1>3, <1>5, <1>6 DEF IInv

LEMMA NextInv == IInv /\ [Next]_vars => IInv'
<1> SUFFICES ASSUME IInv, [Next]_vars PROVE IInv'
  OBVIOUS
<1>1. ASSUME NEW r \in Requests, NEW b \in Bookings, NEW s \in 0..Horizon, Ask(r, b, s)
      PROVE  IInv'
  BY <1>1, AskStep
<1>2. ASSUME NEW r \in Requests, NEW b \in Bookings, PaymentArrives(r, b) \/ WalletPay(r, b)
      PROVE  IInv'
  BY <1>2, PaymentArrivesStep, WalletPayStep
<1>3. ASSUME NEW r \in Requests, NEW b \in Bookings,
             NEW target \in {"CANCELLED", "NO_SHOW", "COMPLETED"}, Mark(r, b, target)
      PROVE  IInv'
  BY <1>3, MarkStep
<1>4. ASSUME NEW r \in Requests, Advance(r)  PROVE IInv'
  BY <1>4, ListStep, TryAdviserStep, PlaceStep, GiveUpStep, PaymentCheckStep, PaymentConfirmStep,
     PaymentSlotLostStep, WalletCheckStep, WalletConfirmStep, MarkCheckStep, MarkWriteStep DEF Advance
<1>5. ASSUME NEW r \in Requests, Crash(r)  PROVE IInv'
  BY <1>5, CrashStep
<1>6. ASSUME NEW b \in Bookings, Checkout(b) \/ HoldLapses(b)  PROVE IInv'
  BY <1>6, CheckoutStep, HoldLapsesStep
<1>7. CASE Cleanup
  BY <1>7, CleanupStep
<1>8. ASSUME NEW a \in Advisers, Leave(a)  PROVE IInv'
  BY <1>8, Elsewhere, Typed DEF Leave, Rest1
<1>11. ASSUME NEW a \in Advisers, ReplaceAvailability(a)  PROVE IInv'
  <2>1. PICK h \in Hours: hours' = [hours EXCEPT ![a] = h]
    BY <1>11 DEF ReplaceAvailability
  <2>2. Rest1'
    BY <1>11, <2>1, Typed DEF ReplaceAvailability, Rest1
  <2> QED BY <1>11, <2>2, Elsewhere DEF ReplaceAvailability
<1>9. CASE DayComes
  BY <1>9, Elsewhere, Typed DEF DayComes, Rest1
<1>10. CASE UNCHANGED vars
  BY <1>10, Elsewhere, Typed DEF vars, Rest1
<1> QED
  BY <1>1, <1>2, <1>3, <1>4, <1>5, <1>6, <1>7, <1>8, <1>9, <1>10, <1>11 DEF Next

\* The inductive invariant.
THEOREM Invariant == Spec => []IInv
BY InitInv, NextInv, PTL DEF Spec

\* "The hard double-booking backstop": whatever races, an adviser never has two
\* confirmed bookings that start at the same time.
THEOREM NoTwoStartTogether == Spec => []NoDoubleBooking
<1>1. IInv => NoDoubleBooking
  BY DEF IInv
<1> QED BY <1>1, Invariant, PTL

\* Whoever is paid and unconfirmed has lost the slot or has the money back:
\* no path keeps both the payment and the time of an unconfirmed booking.
THEOREM PaidLostItsSlot == Spec => []PaidUnconfirmedLostSlot
<1>1. IInv => PaidUnconfirmedLostSlot
  BY DEF IInv
<1> QED BY <1>1, Invariant, PTL

\* A live hold ends by its own client's payment, by a verdict or by the clock:
\* no step cancels it or deletes its row.
THEOREM LiveHoldsAreKept == Spec => LiveHoldKept
<1> DEFINE Live(b) == row[b].status = "PENDING" /\ row[b].hold = "live"
           Kept(b) == row'[b].status \in {"PENDING", "CONFIRMED", "COMPLETED"}
<1>1. ASSUME IInv, Next, NEW b \in Bookings, Live(b) PROVE Kept(b)
  <2>1. ASSUME row'[b] = row[b] \/ row'[b].status = row[b].status PROVE Kept(b)
    BY <1>1, <2>1
  <2>2. row \in [Bookings -> Rows] /\ row[b] \in Rows /\ ~Stale(b)
    BY <1>1 DEF IInv, CalendarOK, Stale
  <2>3. ASSUME NEW r \in Requests, req[r].at \in Placing PROVE req[r].booking # b
    BY <1>1, <2>3, NewRows DEF IInv, Locals, Local, Places
  <2>4. ASSUME NEW r \in Requests, NEW c \in Bookings, NEW s \in 0..Horizon, Ask(r, c, s) PROVE Kept(b)
    <3>1. row'[b] = row[b]
      BY <2>2, <2>4 DEF Ask
    <3> QED BY <2>1, <3>1
  <2>5. ASSUME NEW r \in Requests, List(r) \/ Place(r) \/ GiveUp(r) PROVE Kept(b)
    <3>1. req[r].at \in Placing
      BY <2>5 DEF List, Place, GiveUp, Placing
    <3>2. req[r].booking # b
      BY <2>3, <3>1
    <3>3. row'[b] = row[b]
      BY <2>2, <2>5, <3>2 DEF List, Place, GiveUp
    <3> QED BY <2>1, <3>3
  <2>6. ASSUME NEW r \in Requests, PaymentConfirm(r) \/ WalletConfirm(r) PROVE Kept(b)
    <3>1. row'[b] = row[b] \/ row'[b].status = "CONFIRMED"
      BY <2>2, <2>6 DEF PaymentConfirm, WalletConfirm, Rows
    <3> QED BY <2>1, <3>1
  <2>7. ASSUME NEW r \in Requests, PaymentSlotLost(r) PROVE Kept(b)
    <3>1. row'[b].status = row[b].status
      BY <2>2, <2>7 DEF PaymentSlotLost, LoseSlot, Rows
    <3> QED BY <2>1, <3>1
  <2>8. ASSUME NEW r \in Requests, MarkWrite(r) PROVE Kept(b)
    <3>1. req[r].at = "markOk" /\ Local(r)
      BY <1>1, <2>8 DEF MarkWrite, IInv, Locals
    <3>2. req[r].target = "COMPLETED" \/ row[req[r].booking].hold # "live"
      BY <3>1 DEF Local, Marking
    <3>3. row'[b] = row[b] \/ (req[r].booking = b /\ row'[b].status = req[r].target)
      BY <2>2, <2>8 DEF MarkWrite, Rows
    <3> QED BY <1>1, <2>1, <3>2, <3>3
  <2>9. ASSUME NEW c \in Bookings, HoldLapses(c) PROVE Kept(b)
    <3>1. row'[b].status = row[b].status
      BY <2>2, <2>9 DEF HoldLapses, Rows
    <3> QED BY <2>1, <3>1
  <2>10. ASSUME Cleanup PROVE Kept(b)
    <3>1. row'[b] = row[b]
      BY <2>2, <2>10 DEF Cleanup
    <3> QED BY <2>1, <3>1
  <2>11. ASSUME UNCHANGED row PROVE Kept(b)
    BY <2>1, <2>11
  <2>12. ASSUME NEW r \in Requests, NEW c \in Bookings,
                \/ \E s \in 0..Horizon: Ask(r, c, s)
                \/ PaymentArrives(r, c) \/ WalletPay(r, c)
                \/ \E target \in {"CANCELLED", "NO_SHOW", "COMPLETED"}: Mark(r, c, target)
         PROVE  Kept(b)
    BY <2>4, <2>11, <2>12 DEF PaymentArrives, WalletPay, Mark
  <2>13. ASSUME NEW r \in Requests, Advance(r) \/ Crash(r) PROVE Kept(b)
    BY <2>5, <2>6, <2>7, <2>8, <2>11, <2>13
       DEF Advance, TryAdviser, PaymentCheck, WalletCheck, MarkCheck, Crash
  <2>14. ASSUME NEW c \in Bookings, Checkout(c) \/ HoldLapses(c) PROVE Kept(b)
    BY <2>9, <2>11, <2>14 DEF Checkout
  <2>15. ASSUME (\E a \in Advisers: Leave(a) \/ ReplaceAvailability(a)) \/ DayComes PROVE Kept(b)
    BY <2>11, <2>15 DEF Leave, ReplaceAvailability, DayComes
  <2> QED BY <1>1, <2>10, <2>12, <2>13, <2>14, <2>15 DEF Next
<1>2. IInv /\ [Next]_vars => [\A b \in Bookings: Live(b) => Kept(b)]_vars
  BY <1>1 DEF vars
<1> QED BY <1>2, Invariant, PTL DEF Spec, LiveHoldKept


-----------------------------------------------------------------------------
\* What one step may do to a row, and to a request.

\* The row claims nothing it did not claim, and keeps or loses its time.
Quiet(o) ==
  /\ row'[o].start = None \/ (row'[o].start = row[o].start /\ row'[o].adviser = row[o].adviser)
  /\ Active(o)' => Active(o)
  /\ Held(o)' => Held(o)

\* Request r writes the row it placed: nobody's time before.
PlacedBy(r, o) ==
  /\ req[r].at = "checked" /\ req[r].booking = o /\ req'[r] = Idle
  /\ row[o] = IF Free(o) THEN Provisional ELSE NoRow
  /\ row'[o].start = req[r].start /\ row'[o].adviser = req[r].adviser

\* Request r confirms a row at the time it has.
ConfirmedBy(r, o) ==
  /\ req[r].at \in {"slotOk", "walletOk"} /\ req[r].booking = o /\ req'[r] = Idle
  /\ row'[o].start = row[o].start /\ row'[o].adviser = row[o].adviser /\ Active(o)'

LEMMA Same == ASSUME NEW o \in Bookings, row'[o] = row[o] PROVE Quiet(o)
BY DEF Quiet, Active, Held

LEMMA RowStep ==
  ASSUME IInv, Next, NEW o \in Bookings
  PROVE  Quiet(o) \/ \E r \in Requests: PlacedBy(r, o) \/ ConfirmedBy(r, o)
<1> DEFINE Goal == Quiet(o) \/ \E r \in Requests: PlacedBy(r, o) \/ ConfirmedBy(r, o)
<1>0. row \in [Bookings -> Rows] /\ row[o] \in Rows /\ req \in [Requests -> Reqs]
  BY DEF IInv, CalendarOK
<1>1. ASSUME row'[o] = row[o] PROVE Goal
  BY <1>1, Same
<1>2. ASSUME row'[o] = [row[o] EXCEPT !.status = "CANCELLED"] PROVE Goal
  <2>1. /\ row'[o].status = "CANCELLED" /\ row'[o].start = row[o].start
        /\ row'[o].adviser = row[o].adviser
    BY <1>0, <1>2 DEF Rows
  <2> QED BY <2>1 DEF Quiet, Active, Held
<1>3. ASSUME NEW r \in Requests, NEW b \in Bookings, NEW s \in 0..Horizon, Ask(r, b, s) PROVE Goal
  BY <1>1, <1>2, <1>3 DEF Ask
<1>4. ASSUME NEW r \in Requests, List(r) PROVE Goal
  <2>1. row'[o] = row[o] \/ row'[o] = Provisional
    BY <1>0, <1>4 DEF List, Provisional
  <2> QED BY <1>1, <2>1, NewRows DEF Quiet, Active, Held
<1>5. ASSUME NEW r \in Requests, Place(r) PROVE Goal
  <2>1. req[r].at = "checked"
    BY <1>5 DEF Place
  <2>2. PICK b \in Bookings: b = req[r].booking
    BY <2>1, Here
  <2>3. /\ row[b] = (IF Free(b) THEN Provisional ELSE NoRow) /\ row[b] \in Rows
        /\ req[r].adviser \in Advisers /\ req[r].start \in Nat
    BY <2>1, <2>2, Here DEF Local, Places, Placing
  <2>4. CASE b # o \/ UNCHANGED row
    <3>1. row'[o] = row[o]
      BY <1>0, <1>5, <2>2, <2>4 DEF Place
    <3> QED BY <1>1, <3>1
  <2>5. CASE b = o /\ ~UNCHANGED row
    <3> DEFINE placed == [row[b] EXCEPT !.adviser = req[r].adviser, !.start = req[r].start]
    <3>1. placed \in Rows /\ placed.start = req[r].start /\ placed.adviser = req[r].adviser
      BY <2>3 DEF Rows
    <3>2. \/ row' = [row EXCEPT ![b] = [placed EXCEPT !.status = "CONFIRMED"]]
          \/ row' = [row EXCEPT ![b] = [placed EXCEPT !.status = "PENDING", !.hold = "live"]]
      BY <1>5, <2>2, <2>5 DEF Place
    <3>3. Finish(r)
      BY <1>5, <2>2, <2>5 DEF Place
    <3> HIDE DEF placed
    <3>4. row'[b].start = req[r].start /\ row'[b].adviser = req[r].adviser
      <4>1. \/ row'[b] = [placed EXCEPT !.status = "CONFIRMED"]
            \/ row'[b] = [placed EXCEPT !.status = "PENDING", !.hold = "live"]
        BY <1>0, <3>2
      <4>2. row'[b].start = placed.start /\ row'[b].adviser = placed.adviser
        BY <3>1, <4>1 DEF Rows
      <4> QED BY <3>1, <4>2
    <3>5. req'[r] = Idle
      BY <1>0, <3>3 DEF Finish
    <3> QED BY <2>1, <2>2, <2>3, <2>5, <3>4, <3>5 DEF PlacedBy
  <2> QED BY <2>4, <2>5
<1>6. ASSUME NEW r \in Requests, GiveUp(r) PROVE Goal
  <2>1. row'[o] = row[o] \/ row'[o] = NoRow
    BY <1>0, <1>6 DEF GiveUp, Discard
  <2> QED BY <1>1, <2>1, NewRows DEF Quiet, Active, Held
<1>7. ASSUME NEW r \in Requests, PaymentConfirm(r) \/ WalletConfirm(r) PROVE Goal
  <2>1. req[r].at \in {"slotOk", "walletOk"}
    BY <1>7 DEF PaymentConfirm, WalletConfirm
  <2>2. PICK b \in Bookings: b = req[r].booking
    BY <2>1, Here
  <2>3. CASE b # o \/ UNCHANGED row
    <3>1. row'[o] = row[o]
      BY <1>0, <1>7, <2>2, <2>3 DEF PaymentConfirm, WalletConfirm
    <3> QED BY <1>1, <3>1
  <2>4. CASE b = o /\ ~UNCHANGED row
    <3>1. /\ row' = [row EXCEPT ![b] = [@ EXCEPT !.status = "CONFIRMED", !.paid = TRUE,
                                                 !.hold = "none"]]
          /\ Finish(r)
      BY <1>7, <2>2, <2>4 DEF PaymentConfirm, WalletConfirm
    <3>2. /\ row'[b].start = row[b].start /\ row'[b].adviser = row[b].adviser
          /\ row'[b].status = "CONFIRMED" /\ req'[r] = Idle
      BY <1>0, <3>1 DEF Finish, Rows
    <3> QED BY <2>1, <2>2, <2>4, <3>2 DEF ConfirmedBy, Active
  <2> QED BY <2>3, <2>4
<1>8. ASSUME NEW r \in Requests, PaymentSlotLost(r) PROVE Goal
  <2>1. row'[o] = row[o] \/ row'[o] = LoseSlot(o)
    BY <1>0, <1>8 DEF PaymentSlotLost
  <2>2. /\ LoseSlot(o).status = row[o].status /\ LoseSlot(o).hold = "none"
        /\ LoseSlot(o).start = None
    BY <1>0 DEF LoseSlot, Rows
  <2> QED BY <1>1, <2>1, <2>2 DEF Quiet, Active, Held
<1>9. ASSUME NEW r \in Requests, MarkWrite(r) PROVE Goal
  <2>1. req[r].target \in {"CANCELLED", "NO_SHOW", "COMPLETED"}
    BY <1>9, Here DEF MarkWrite, Local, Marking
  <2>2. row'[o] = row[o] \/ (/\ row'[o].status = req[r].target /\ row'[o].start = row[o].start
                             /\ row'[o].adviser = row[o].adviser)
    BY <1>0, <1>9 DEF MarkWrite, Rows
  <2> QED BY <1>1, <2>1, <2>2 DEF Quiet, Active, Held
<1>10. ASSUME NEW c \in Bookings, HoldLapses(c) PROVE Goal
  <2>1. /\ row'[o].status = row[o].status /\ row'[o].hold \in {row[o].hold, "lapsed"}
        /\ row'[o].start = row[o].start /\ row'[o].adviser = row[o].adviser
    BY <1>0, <1>10 DEF HoldLapses, Rows
  <2> QED BY <2>1 DEF Quiet, Active, Held
<1>11. ASSUME Cleanup PROVE Goal
  BY <1>1, <1>2, <1>11 DEF Cleanup
<1> HIDE DEF Goal
<1>12. ASSUME NEW r \in Requests, NEW c \in Bookings,
              \/ \E s \in 0..Horizon: Ask(r, c, s)
              \/ PaymentArrives(r, c) \/ WalletPay(r, c)
              \/ \E target \in {"CANCELLED", "NO_SHOW", "COMPLETED"}: Mark(r, c, target)
       PROVE  Goal
  BY <1>1, <1>3, <1>12 DEF PaymentArrives, WalletPay, Mark
<1>13. ASSUME NEW r \in Requests, Advance(r) \/ Crash(r) PROVE Goal
  BY <1>1, <1>4, <1>5, <1>6, <1>7, <1>8, <1>9, <1>13
     DEF Advance, TryAdviser, PaymentCheck, WalletCheck, MarkCheck, Crash
<1>14. ASSUME NEW c \in Bookings, Checkout(c) \/ HoldLapses(c) PROVE Goal
  BY <1>1, <1>10, <1>14 DEF Checkout
<1>15. ASSUME (\E a \in Advisers: Leave(a) \/ ReplaceAvailability(a)) \/ DayComes PROVE Goal
  BY <1>1, <1>15 DEF Leave, ReplaceAvailability, DayComes
<1>16. Goal
  BY <1>11, <1>12, <1>13, <1>14, <1>15 DEF Next
<1> QED BY <1>16 DEF Goal

\* What request r may have done: nothing, given up what it knew, or one of the
\* reads after which it writes.
Stays(r) == req'[r] = req[r]
Forgets(r) == req'[r].at \notin Looked \cup {"paid"}
OpensPaid(r) ==
  /\ req'[r].at = "paid" /\ req'[r].booking \in Bookings
  /\ req'[r].adviser = row[req'[r].booking].adviser /\ req'[r].start = row[req'[r].booking].start
  /\ UNCHANGED row
Carries(r) ==
  req'[r].booking = req[r].booking /\ req'[r].start = req[r].start /\ req[r].booking \in Bookings
Lists(r) ==
  LET b == req[r].booking IN
  /\ Carries(r) /\ req[r].at = "asked" /\ req'[r].at = "listed"
  /\ req'[r].pool = AvailableStaff(r, b, req[r].start)
  /\ Free(b) => Quiet(b)
  /\ \A o \in Bookings \ {b}: row'[o] = row[o]
Tries(r) ==
  /\ Carries(r) /\ req[r].at = "listed" /\ UNCHANGED row
  /\ req'[r].adviser \in req[r].pool /\ req'[r].pool \subseteq req[r].pool
  /\ req'[r].at = IF Taken(r, req'[r].adviser) THEN "listed" ELSE "checked"
Retries(r) ==
  /\ Carries(r) /\ req[r].at = "checked" /\ req'[r].at = "listed" /\ UNCHANGED row
  /\ req'[r].pool = req[r].pool
ChecksPaid(r) ==
  /\ Carries(r) /\ req[r].at = "paid" /\ req'[r].at = "slotOk" /\ UNCHANGED row
  /\ req'[r].adviser = req[r].adviser /\ ~SlotGone(r)
ChecksWallet(r) ==
  LET b == req[r].booking IN
  /\ Carries(r) /\ req[r].at = "wallet" /\ req'[r].at = "walletOk" /\ UNCHANGED row
  /\ ~ActiveClash(b, row[b].adviser, row[b].start)

Reading(r) ==
  \/ Stays(r) \/ Forgets(r) \/ OpensPaid(r) \/ Lists(r) \/ Tries(r) \/ Retries(r)
  \/ ChecksPaid(r) \/ ChecksWallet(r)

LEMMA Ending ==
  ASSUME IInv, NEW r \in Requests, Finish(r), NEW q \in Requests
  PROVE  Reading(q)
<1>1. req'[q] = req[q] \/ req'[q] = Idle
  BY DEF IInv, CalendarOK, Finish
<1> QED BY <1>1, IdleOK DEF Reading, Stays, Forgets, Looked

LEMMA ReqStep ==
  ASSUME IInv, Next, NEW q \in Requests
  PROVE  Reading(q)
<1>0. row \in [Bookings -> Rows] /\ req \in [Requests -> Reqs] /\ req[q] \in Reqs
  BY DEF IInv, CalendarOK
<1>1. ASSUME req'[q] = req[q] PROVE Reading(q)
  BY <1>1 DEF Reading, Stays
<1>2. ASSUME req'[q].at \notin Looked \cup {"paid"} PROVE Reading(q)
  BY <1>2 DEF Reading, Forgets
<1>3. ASSUME NEW r \in Requests, NEW b \in Bookings, NEW s \in 0..Horizon, Ask(r, b, s)
      PROVE  Reading(q)
  <2>1. req'[q] = req[q] \/ req'[q].at = "asked"
    BY <1>0, <1>3 DEF Ask, Idle
  <2> QED BY <1>1, <1>2, <2>1 DEF Looked
<1>4. ASSUME NEW r \in Requests, NEW b \in Bookings, PaymentArrives(r, b) PROVE Reading(q)
  <2>1. \/ req'[q] = req[q]
        \/ /\ req'[q].at = "paid" /\ req'[q].booking = b
           /\ req'[q].adviser = row[b].adviser /\ req'[q].start = row[b].start
    BY <1>0, <1>4 DEF PaymentArrives, Idle
  <2> QED BY <1>1, <1>4, <2>1 DEF PaymentArrives, Reading, OpensPaid
<1>5. ASSUME NEW r \in Requests, NEW b \in Bookings, WalletPay(r, b) PROVE Reading(q)
  <2>1. req'[q] = req[q] \/ req'[q].at = "wallet"
    BY <1>0, <1>5 DEF WalletPay, Idle
  <2> QED BY <1>1, <1>2, <2>1 DEF Looked
<1>6. ASSUME NEW r \in Requests, NEW b \in Bookings, NEW target, Mark(r, b, target) PROVE Reading(q)
  <2>1. req'[q] = req[q] \/ req'[q].at \in {"mark", "markOk"}
    BY <1>0, <1>6 DEF Mark, Idle
  <2> QED BY <1>1, <1>2, <2>1 DEF Looked
<1>7. ASSUME NEW r \in Requests, NEW at \in Steps, Goto(r, at) PROVE
        \/ req'[q] = req[q]
        \/ /\ q = r /\ req'[q].at = at /\ req'[q].booking = req[q].booking
           /\ req'[q].start = req[q].start /\ req'[q].adviser = req[q].adviser
           /\ req'[q].pool = req[q].pool
  BY <1>0, <1>7 DEF Goto, Reqs
<1>8. ASSUME NEW r \in Requests, List(r) PROVE Reading(q)
  <2>1. CASE Finish(r)
    BY <2>1, Ending
  <2>2. CASE ~Finish(r) /\ q # r
    <3>1. req'[q] = req[q]
      BY <1>0, <1>8, <2>2 DEF List
    <3> QED BY <1>1, <3>1
  <2>3. CASE ~Finish(r) /\ q = r
    <3>1. PICK b \in Bookings: b = req[r].booking
      BY <1>8, Here DEF List
    <3>2. req[r].at = "asked"
      BY <1>8 DEF List
    <3>3. row[b] = NoRow
      BY <3>1, <3>2, Here DEF Local, Places, Placing
    <3> DEFINE free == AvailableStaff(r, b, req[r].start)
    <3>4. /\ req' = [req EXCEPT ![r].at = "listed", ![r].pool = free]
          /\ row' = IF Free(b) THEN [row EXCEPT ![b] = Provisional] ELSE row
      BY <1>8, <2>3, <3>1 DEF List, Provisional
    <3> HIDE DEF free
    <3>5. /\ req'[r].at = "listed" /\ req'[r].pool = free /\ req'[r].booking = b
          /\ req'[r].start = req[r].start
      BY <1>0, <3>1, <3>4 DEF Reqs
    <3>6. \A o \in Bookings \ {b}: row'[o] = row[o]
      BY <1>0, <3>4
    <3>7. Free(b) => row'[b] = Provisional
      BY <1>0, <3>4
    <3>8. Free(b) => Quiet(b)
      BY <3>7, NewRows DEF Quiet, Active, Held
    <3> QED BY <2>3, <3>1, <3>2, <3>5, <3>6, <3>8 DEF Reading, Lists, Carries, free
  <2> QED BY <2>1, <2>2, <2>3
<1>9. ASSUME NEW r \in Requests, TryAdviser(r) PROVE Reading(q)
  <2>1. /\ req[r].at = "listed" /\ UNCHANGED row /\ req[r].booking \in Bookings
    BY <1>9, Here DEF TryAdviser
  <2>2. PICK a \in req[r].pool:
          req' = [req EXCEPT ![r].pool = @ \ {a}, ![r].adviser = a,
                             ![r].at = IF Taken(r, a) THEN "listed" ELSE "checked"]
    BY <1>9 DEF TryAdviser
  <2>3. CASE q # r
    <3>1. req'[q] = req[q]
      BY <1>0, <2>2, <2>3
    <3> QED BY <1>1, <3>1
  <2>4. CASE q = r
    <3>1. /\ req'[q].adviser = a /\ req'[q].pool = req[q].pool \ {a}
          /\ req'[q].booking = req[q].booking /\ req'[q].start = req[q].start
          /\ req'[q].at = IF Taken(q, a) THEN "listed" ELSE "checked"
      BY <1>0, <2>2, <2>4 DEF Reqs
    <3> QED BY <2>1, <2>2, <2>4, <3>1 DEF Reading, Tries, Carries
  <2> QED BY <2>3, <2>4
<1>10. ASSUME NEW r \in Requests, Place(r) PROVE Reading(q)
  <2>1. CASE Finish(r)
    BY <2>1, Ending
  <2>2. CASE ~Finish(r)
    <3>1. req[r].at = "checked" /\ Goto(r, "listed") /\ UNCHANGED row /\ req[r].booking \in Bookings
      BY <1>10, <2>2, Here DEF Place
    <3> QED BY <1>1, <1>7, <3>1 DEF Reading, Retries, Carries, Steps
  <2> QED BY <2>1, <2>2
<1>11. ASSUME NEW r \in Requests, PaymentCheck(r) PROVE Reading(q)
  <2>1. /\ req[r].at = "paid" /\ UNCHANGED row /\ req[r].booking \in Bookings
        /\ Goto(r, IF SlotGone(r) THEN "slotLost" ELSE "slotOk")
    BY <1>11, Here DEF PaymentCheck
  <2>2. CASE SlotGone(r)
    BY <1>1, <1>2, <1>7, <2>1, <2>2 DEF Steps, Looked
  <2>3. CASE ~SlotGone(r)
    BY <1>1, <1>7, <2>1, <2>3 DEF Steps, Reading, ChecksPaid, Carries
  <2> QED BY <2>2, <2>3
<1>12. ASSUME NEW r \in Requests, PaymentConfirm(r) PROVE Reading(q)
  <2>1. Finish(r) \/ Goto(r, "slotLost")
    BY <1>12 DEF PaymentConfirm
  <2> QED BY <1>1, <1>2, <1>7, <2>1, Ending DEF Steps, Looked
<1>13. ASSUME NEW r \in Requests, WalletCheck(r) PROVE Reading(q)
  <2>1. /\ req[r].at = "wallet" /\ UNCHANGED row /\ req[r].booking \in Bookings
        /\ \/ Finish(r)
           \/ /\ Goto(r, "walletOk")
              /\ ~ActiveClash(req[r].booking, row[req[r].booking].adviser, row[req[r].booking].start)
    BY <1>13, Here DEF WalletCheck
  <2> QED BY <1>1, <1>7, <2>1, Ending DEF Steps, Reading, ChecksWallet, Carries
<1>14. ASSUME NEW r \in Requests, MarkCheck(r) PROVE Reading(q)
  <2>1. Finish(r) \/ Goto(r, "markOk")
    BY <1>14 DEF MarkCheck
  <2> QED BY <1>1, <1>2, <1>7, <2>1, Ending DEF Steps, Looked
<1>15. ASSUME NEW r \in Requests, Advance(r) \/ Crash(r) PROVE Reading(q)
  BY <1>8, <1>9, <1>10, <1>11, <1>12, <1>13, <1>14, <1>15, Ending
     DEF Advance, GiveUp, PaymentSlotLost, WalletConfirm, MarkWrite, Crash
<1>16. ASSUME NEW r \in Requests, NEW b \in Bookings,
              \/ \E s \in 0..Horizon: Ask(r, b, s)
              \/ PaymentArrives(r, b) \/ WalletPay(r, b)
              \/ \E target \in {"CANCELLED", "NO_SHOW", "COMPLETED"}: Mark(r, b, target)
       PROVE  Reading(q)
  BY <1>3, <1>4, <1>5, <1>6, <1>16
<1>17. ASSUME UNCHANGED req PROVE Reading(q)
  BY <1>1, <1>17
<1> QED BY <1>15, <1>16, <1>17
        DEF Next, Checkout, HoldLapses, Cleanup, Leave, ReplaceAvailability, DayComes

-----------------------------------------------------------------------------
\* The history: what it records of a step.

HistoryOK ==
  /\ missed \in [Requests -> SUBSET Bookings]
  /\ offered \in [Bookings -> [Advisers -> Hours]]

LEMMA Watched == ASSUME Next PROVE Watch \/ UNCHANGED <<req, history>>
<1>1. ASSUME NEW r \in Requests, NEW c \in Bookings,
             \/ \E s \in 0..Horizon: Ask(r, c, s)
             \/ PaymentArrives(r, c) \/ WalletPay(r, c)
             \/ \E target \in {"CANCELLED", "NO_SHOW", "COMPLETED"}: Mark(r, c, target)
      PROVE  Watch
  BY <1>1 DEF Ask, PaymentArrives, WalletPay, Mark
<1>2. ASSUME NEW r \in Requests, List(r) \/ TryAdviser(r) \/ Place(r) \/ GiveUp(r) PROVE Watch
  BY <1>2 DEF List, TryAdviser, Place, GiveUp
<1>3. ASSUME NEW r \in Requests,
             \/ PaymentCheck(r) \/ PaymentConfirm(r) \/ PaymentSlotLost(r)
             \/ WalletCheck(r) \/ WalletConfirm(r)
      PROVE  Watch
  BY <1>3 DEF PaymentCheck, PaymentConfirm, PaymentSlotLost, WalletCheck, WalletConfirm
<1>4. ASSUME NEW r \in Requests, MarkCheck(r) \/ MarkWrite(r) \/ Crash(r) PROVE Watch
  BY <1>4 DEF MarkCheck, MarkWrite, Crash
<1>5. ASSUME NEW r \in Requests, Advance(r) \/ Crash(r) PROVE Watch
  BY <1>2, <1>3, <1>4, <1>5 DEF Advance
<1> QED BY <1>1, <1>5 DEF Next, Checkout, HoldLapses, Cleanup, Leave, ReplaceAvailability, DayComes

\* Who writes is not asleep.
LEMMA Writers ==
  ASSUME IInv, Next, UNCHANGED req, NEW o \in Bookings
  PROVE  Quiet(o)
<1>1. ASSUME NEW r \in Requests, PlacedBy(r, o) \/ ConfirmedBy(r, o) PROVE FALSE
  BY <1>1, IdleOK DEF PlacedBy, ConfirmedBy
<1> QED BY <1>1, RowStep

LEMMA NothingNew ==
  ASSUME \A o \in Bookings: Quiet(o)
  PROVE  NewClaims = {}
BY DEF NewClaims, Quiet

\* What a request that has looked misses grows by what others write ...
LEMMA Misses ==
  ASSUME IInv, HistoryOK, Next, NEW r \in Requests, Stays(r) \/ Retries(r), req[r].at \in Looked
  PROVE  missed'[r] = missed[r] \cup NewClaims
<1>1. CASE Watch
  <2>1. req'[r].at \in Looked /\ ~Looks(r)
    BY DEF Stays, Retries, Looks, Looked
  <2> QED BY <1>1, <2>1 DEF Watch
<1>2. CASE UNCHANGED <<req, history>>
  <2>1. NewClaims = {}
    BY <1>2, Writers, NothingNew
  <2> QED BY <1>2, <2>1 DEF history
<1> QED BY <1>1, <1>2, Watched

\* ... and shrinks to what its latest look does not see.
LEMMA LooksAgain ==
  ASSUME Next, NEW r \in Requests, Tries(r)
  PROVE  \A o \in missed[r]: Free(req[r].booking) /\ ~Active(o) => o \in missed'[r]
<1>1. CASE Watch
  <2>1. req'[r].at \in {"listed", "checked"}
    BY DEF Tries
  <2>2. \/ missed'[r] = {o \in missed[r]: Free(req[r].booking) /\ ~Active(o)}
        \/ missed'[r] = missed[r] \cup NewClaims
    BY <1>1, <2>1 DEF Watch, Looked
  <2> QED BY <2>2
<1>2. CASE UNCHANGED <<req, history>>
  BY <1>2 DEF history
<1> QED BY <1>1, <1>2, Watched

\* A booking's hours are those its time was listed under.
LEMMA Offers ==
  ASSUME IInv, HistoryOK, Next, NEW b \in Bookings
  PROVE  \/ /\ offered'[b] = offered[b]
            /\ \A r \in Requests: req[r].booking = b /\ Lists(r) => FALSE
         \/ /\ offered'[b] = hours
            /\ \E r \in Requests: req[r].booking = b /\ req[r].at = "asked" /\ req'[r].at = "listed"
<1>1. CASE Watch
  BY <1>1 DEF Watch, Lists
<1>2. CASE UNCHANGED <<req, history>>
  BY <1>2 DEF history, Lists
<1> QED BY <1>1, <1>2, Watched

LEMMA HistoryStep ==
  ASSUME IInv, HistoryOK, [Next]_vars
  PROVE  HistoryOK'
<1>1. CASE Watch
  <2>1. NewClaims \subseteq Bookings /\ hours \in [Advisers -> Hours]
    BY DEF NewClaims, IInv, CalendarOK
  <2>2. missed' \in [Requests -> SUBSET Bookings]
    BY <1>1, <2>1 DEF Watch, HistoryOK
  <2>3. offered' \in [Bookings -> [Advisers -> Hours]]
    BY <1>1, <2>1 DEF Watch, HistoryOK
  <2> QED BY <2>2, <2>3 DEF HistoryOK
<1>2. CASE UNCHANGED <<req, history>> \/ UNCHANGED vars
  BY <1>2 DEF HistoryOK, history, vars
<1> QED BY <1>1, <1>2, Watched

-----------------------------------------------------------------------------
\* Hours: a time was listed under the hours its booking remembers.

Dealt(b) == row[b].start # None => row[b].start \in Starts(b, offered[b][row[b].adviser])
Chosen(r) ==
  LET b == req[r].booking
      Fits(a) == req[r].start \in Starts(b, offered[b][a])
  IN  /\ req[r].at \in {"listed", "checked"} => \A a \in req[r].pool: Fits(a)
      /\ req[r].at = "checked" => Fits(req[r].adviser)

OInv == HistoryOK /\ (\A b \in Bookings: Dealt(b)) /\ (\A r \in Requests: Chosen(r))

\* Only the request that places a booking lists it.
LEMMA OneLister ==
  ASSUME IInv, NEW q \in Requests, NEW r \in Requests, req[r].at = "asked",
         req[q].booking = req[r].booking
  PROVE  q = r
BY DEF IInv, OnePlaces, Placing

LEMMA DealtStep ==
  ASSUME IInv, OInv, Next, NEW b \in Bookings
  PROVE  Dealt(b)'
<1> SUFFICES ASSUME row'[b].start # None
             PROVE  row'[b].start \in Starts(b, offered'[b][row'[b].adviser])
  BY DEF Dealt, Starts, Length
<1>1. CASE Quiet(b)
  <2>1. /\ row'[b].start = row[b].start /\ row'[b].adviser = row[b].adviser
        /\ row[b].start # None /\ row[b].start \in Starts(b, offered[b][row[b].adviser])
    BY <1>1 DEF Quiet, OInv, Dealt
  <2>2. ASSUME NEW r \in Requests, req[r].booking = b, req[r].at = "asked" PROVE FALSE
    <3>1. row[b] = NoRow
      BY <2>2, Here DEF Local, Places, Placing
    <3> QED BY <2>1, <3>1, NewRows
  <2>3. offered'[b] = offered[b]
    BY <2>2, Offers DEF OInv
  <2> QED BY <2>1, <2>3
<1>2. ASSUME NEW r \in Requests, PlacedBy(r, b)
      PROVE  row'[b].start \in Starts(b, offered'[b][row'[b].adviser])
  <2>1. req[r].start \in Starts(b, offered[b][req[r].adviser])
    BY <1>2 DEF PlacedBy, OInv, Chosen
  <2>2. ASSUME NEW q \in Requests, req[q].booking = b, req[q].at = "asked" PROVE FALSE
    BY <1>2, <2>2, OneLister DEF PlacedBy
  <2>3. offered'[b] = offered[b]
    BY <2>2, Offers DEF OInv
  <2> QED BY <1>2, <2>1, <2>3 DEF PlacedBy
<1>3. ASSUME NEW r \in Requests, ConfirmedBy(r, b)
      PROVE  row'[b].start \in Starts(b, offered'[b][row'[b].adviser])
  <2>1. /\ row'[b].start = row[b].start /\ row'[b].adviser = row[b].adviser
        /\ row[b].start \in Starts(b, offered[b][row[b].adviser])
    BY <1>3 DEF ConfirmedBy, OInv, Dealt
  <2>2. ASSUME NEW q \in Requests, req[q].booking = b, req[q].at = "asked" PROVE FALSE
    BY <1>3, <2>2, OneLister DEF ConfirmedBy
  <2>3. offered'[b] = offered[b]
    BY <2>2, Offers DEF OInv
  <2> QED BY <2>1, <2>3
<1> QED BY <1>1, <1>2, <1>3, RowStep

LEMMA ChosenStep ==
  ASSUME IInv, OInv, Next, NEW r \in Requests
  PROVE  Chosen(r)'
<1>1. CASE req'[r].at \notin {"listed", "checked"}
  BY <1>1 DEF Chosen
<1>2. CASE req'[r].at \in {"listed", "checked"}
  <2>1. \/ Stays(r) /\ req[r].at \in {"listed", "checked"} /\ req[r].booking \in Bookings
        \/ Lists(r) \/ Tries(r) \/ Retries(r)
    BY <1>2, ReqStep, Here
       DEF Reading, Stays, Forgets, OpensPaid, ChecksPaid, ChecksWallet, Looked
  <2>2. PICK b \in Bookings: b = req[r].booking /\ req'[r].booking = b /\ req'[r].start = req[r].start
    BY <2>1 DEF Stays, Lists, Tries, Retries, Carries
  <2> DEFINE Fit(a) == req[r].start \in Starts(b, offered'[b][a])
  <2>3. SUFFICES /\ \A a \in req'[r].pool: Fit(a)
                 /\ req'[r].at = "checked" => Fit(req'[r].adviser)
    BY <2>2 DEF Chosen, Starts, Length
  <2>4. CASE Lists(r)
    <3>1. req'[r].at = "listed" /\ req'[r].pool = AvailableStaff(r, b, req[r].start)
      BY <2>2, <2>4 DEF Lists
    <3>2. offered'[b] = hours
      BY <2>2, <2>4, Offers DEF OInv
    <3> QED BY <3>1, <3>2 DEF AvailableStaff
  <2>5. CASE ~Lists(r)
    <3>1. req[r].at \in {"listed", "checked"}
      BY <2>1, <2>5 DEF Tries, Retries
    <3>2. ASSUME NEW q \in Requests, req[q].booking = b, req[q].at = "asked" PROVE FALSE
      BY <2>2, <3>1, <3>2, OneLister
    <3>3. offered'[b] = offered[b]
      BY <3>2, Offers DEF OInv
    <3>4. /\ \A a \in req[r].pool: Fit(a)
          /\ req[r].at = "checked" => Fit(req[r].adviser)
      BY <2>2, <3>1, <3>3 DEF OInv, Chosen
    <3> HIDE DEF Fit
    <3> QED BY <2>1, <2>5, <3>4 DEF Stays, Tries, Retries
  <2> QED BY <2>4, <2>5
<1> QED BY <1>1, <1>2

LEMMA OfferedStep == IInv /\ OInv /\ [Next]_vars => OInv'
<1> SUFFICES ASSUME IInv, OInv, [Next]_vars PROVE OInv'
  OBVIOUS
<1>1. HistoryOK'
  BY HistoryStep DEF OInv
<1>2. CASE Next
  BY <1>1, <1>2, DealtStep, ChosenStep DEF OInv
<1>3. CASE UNCHANGED vars
  BY <1>1, <1>3 DEF OInv, vars, history, Dealt, Chosen, Starts, Length
<1> QED BY <1>2, <1>3

LEMMA OfferedInit == Init => OInv
<1> SUFFICES ASSUME Init PROVE OInv
  OBVIOUS
<1>1. HistoryOK
  BY DEF Init, HistoryOK
<1>2. \A b \in Bookings: Dealt(b)
  BY NewRows DEF Init, Dealt
<1>3. \A r \in Requests: Chosen(r)
  BY IdleOK DEF Init, Chosen
<1> QED BY <1>1, <1>2, <1>3 DEF OInv

LEMMA Offered == Spec => []OInv
BY OfferedInit, OfferedStep, Invariant, PTL DEF Spec

\* Every reachable state is well typed, the history with it.
THEOREM TypeCorrect == Spec => []TypeOK
<1>1. IInv /\ OInv => TypeOK
  BY DEF IInv, OInv, HistoryOK, TypeOK
<1> QED BY <1>1, Invariant, Offered, PTL

\* Two times that one set of hours offers and that are less than a session
\* apart are the same: of one window they are whole sessions from its start, of
\* two windows they cannot be so close.
LEMMA OneCut ==
  ASSUME NEW b \in Bookings, NEW h \in Hours, NEW s \in Starts(b, h), NEW t \in Starts(b, h),
         s < t + Length(b), t < s + Length(b)
  PROVE  s = t
<1> DEFINE len == Length(b)
<1>1. len \in Nat \ {0} /\ Horizon \in Nat /\ h \subseteq [from: Nat, to: Nat]
  BY Lengths, CalendarAssumption
<1>2. PICK v \in h, k \in 0..Horizon: s = v.from + k * len /\ s + len <= v.to
  BY DEF Starts
<1>3. PICK w \in h, m \in 0..Horizon: t = w.from + m * len /\ t + len <= w.to
  BY DEF Starts
<1>4. /\ k \in Nat /\ m \in Nat /\ v.from \in Nat /\ v.to \in Nat /\ w.from \in Nat /\ w.to \in Nat
      /\ k * len \in Nat /\ m * len \in Nat
  BY <1>1
<1>5. s < t + len /\ t < s + len
  OBVIOUS
<1> HIDE DEF len
<1>6. v = w
  <2>1. v # w => v.to <= w.from \/ w.to <= v.from
    BY CalendarAssumption
  <2> QED BY <1>1, <1>2, <1>3, <1>4, <1>5, <2>1
<1>7. k * len < m * len + len /\ m * len < k * len + len
  BY <1>1, <1>2, <1>3, <1>4, <1>5, <1>6
<1>8. ASSUME NEW i \in Nat, NEW j \in Nat, i < j PROVE i * len + len <= j * len
  <2>1. PICK d \in Nat: j = i + 1 + d
    <3>1. j - i - 1 \in Nat /\ j = i + 1 + (j - i - 1)
      BY <1>8
    <3> QED BY <3>1
  <2>2. j * len = i * len + len + d * len
    BY <1>1, <2>1
  <2>3. d * len \in Nat /\ i * len \in Nat
    BY <1>1
  <2> QED BY <1>1, <2>2, <2>3
<1>9. ~(k < m) /\ ~(m < k)
  BY <1>1, <1>4, <1>7, <1>8
<1> QED BY <1>2, <1>3, <1>4, <1>6, <1>9

\* Two sessions of one type never overlap if their times were listed under the
\* same hours, whatever races, for any durations, windows and moves of windows:
\* two times of one cut overlap only if they are equal.
THEOREM SameTypeApart == Spec => []SameTypeNeverOverlaps
<1>1. IInv /\ OInv => SameTypeNeverOverlaps
  <2> SUFFICES ASSUME IInv, OInv, NEW b \in Bookings, NEW o \in Bookings, b # o,
                      TypeOf[b] = TypeOf[o], Active(b), Active(o), row[b].start # None,
                      offered[b][row[b].adviser] = offered[o][row[b].adviser],
                      Overlaps(o, row[b].adviser, row[b].start, Length(b))
               PROVE  FALSE
    BY DEF SameTypeNeverOverlaps
  <2>1. /\ row[o].adviser = row[b].adviser /\ row[o].start # None
        /\ row[o].start < row[b].start + Length(b) /\ row[b].start < row[o].start + Length(b)
    BY DEF Overlaps, Length
  <2>2. row[b].adviser \in Advisers
    BY DEF IInv, CalendarOK, Rows, Rowful, RowOK
  <2>3. PICK h \in Hours: h = offered[b][row[b].adviser]
    BY <2>2 DEF OInv, HistoryOK
  <2>4. row[b].start \in Starts(b, h) /\ row[o].start \in Starts(b, h)
    BY <2>1, <2>3 DEF OInv, Dealt, Starts, Length
  <2>5. row[b].start = row[o].start
    BY <2>1, <2>4, OneCut
  <2> QED BY <2>1, <2>5 DEF IInv, NoDoubleBooking
<1> QED BY <1>1, Invariant, Offered, PTL

-----------------------------------------------------------------------------
\* Looking before writing: what the checks before a write are worth.

ClashKnown(r, b, a, s) ==
  \A o \in Bookings \ {b}: Active(o) /\ Overlaps(o, a, s, Length(b)) => o \in missed[r]
HoldsKnown(r, b, a, s) ==
  \A o \in Bookings \ {b}: Held(o) /\ Overlaps(o, a, s, Length(b)) => o \in missed[r]

\* Between its look and its write, a request knows of every claim on the time
\* it is about to take, or the claim came later.
Aware(r) ==
  LET b == req[r].booking
      s == req[r].start
      Now(a, t) == t # None => ClashKnown(r, b, a, t)
  IN  /\ req[r].at \in {"listed", "checked"} /\ Free(b) =>
           \A a \in req[r].pool: HoldsKnown(r, b, a, s)
      /\ req[r].at = "checked" =>
           ClashKnown(r, b, req[r].adviser, s) /\ HoldsKnown(r, b, req[r].adviser, s)
      /\ req[r].at \in {"paid", "slotOk"} =>
           row[b].start = None \/ (row[b].start = s /\ row[b].adviser = req[r].adviser)
      /\ req[r].at \in {"slotOk", "walletOk"} => Now(row[b].adviser, row[b].start)

\* What a request knows it goes on knowing.
LEMMA KeepsKnowing ==
  ASSUME IInv, HistoryOK, Next, NEW r \in Requests, missed'[r] = missed[r] \cup NewClaims,
         NEW b \in Bookings, NEW a, NEW s
  PROVE  /\ ClashKnown(r, b, a, s) => ClashKnown(r, b, a, s)'
         /\ HoldsKnown(r, b, a, s) => HoldsKnown(r, b, a, s)'
<1>1. ASSUME NEW o \in Bookings, Active(o) \/ Held(o), row'[o].start # None
      PROVE  row'[o].start = row[o].start /\ row'[o].adviser = row[o].adviser
  <2>1. ASSUME NEW q \in Requests, PlacedBy(q, o) PROVE FALSE
    <3>1. row[o] = NoRow \/ (Free(o) /\ row[o] = Provisional)
      BY <2>1 DEF PlacedBy
    <3> QED BY <1>1, <3>1, NewRows DEF Active, Held
  <2> QED BY <1>1, <2>1, RowStep DEF Quiet, ConfirmedBy
<1>2. \A o \in Bookings: /\ Active(o)' => Active(o) \/ o \in missed'[r]
                         /\ Held(o)' => Held(o) \/ o \in missed'[r]
  BY DEF NewClaims
<1>3. ASSUME NEW o \in Bookings, Overlaps(o, a, s, Length(b))', Active(o) \/ Held(o)
      PROVE  Overlaps(o, a, s, Length(b))
  BY <1>1, <1>3 DEF Overlaps, Length
<1>4. missed[r] \subseteq missed'[r]
  OBVIOUS
<1> QED BY <1>2, <1>3, <1>4 DEF ClashKnown, HoldsKnown

MInv == \A r \in Requests: Aware(r)

\* The row of a request that pays keeps its time, or loses it.
LEMMA PaidRowStays ==
  ASSUME IInv, Next, NEW r \in Requests, req[r].at \in Paying, NEW b \in Bookings,
         b = req[r].booking, row'[b].start # None
  PROVE  row'[b].start = row[b].start /\ row'[b].adviser = row[b].adviser
<1>1. ~Free(b) /\ row[b].status # "none"
  BY Here DEF Paying, Local
<1>2. ASSUME NEW q \in Requests, PlacedBy(q, b) PROVE FALSE
  BY <1>1, <1>2, NewRows DEF PlacedBy
<1> QED BY <1>2, RowStep DEF Quiet, ConfirmedBy

LEMMA HeldIsLive ==
  ASSUME IInv, NEW r \in Requests, NEW o \in Bookings, Held(o)
  PROVE  HoldLive(r, o)
BY DEF IInv, Locals, Local, Held, HoldLive

LEMMA AwareStays ==
  ASSUME IInv, HistoryOK, MInv, Next, NEW r \in Requests, Stays(r)
  PROVE  Aware(r)'
<1>1. CASE req[r].at \notin Looked \cup {"paid"}
  BY <1>1 DEF Aware, Stays, Looked
<1>2. CASE req[r].at \in Looked \cup {"paid"}
  <2>1. PICK b \in Bookings: b = req[r].booking
    BY <1>2, Here DEF Looked
  <2>2. req'[r] = req[r] /\ Aware(r)
    BY DEF Stays, MInv
  <2>3. CASE req[r].at = "paid"
    <3>1. row'[b].start # None => row'[b].start = row[b].start /\ row'[b].adviser = row[b].adviser
      BY <2>1, <2>3, PaidRowStays DEF Paying
    <3> QED BY <2>1, <2>2, <2>3, <3>1 DEF Aware
  <2>4. CASE req[r].at \in Looked
    <3>1. missed'[r] = missed[r] \cup NewClaims
      BY <2>4, Misses
    <3>2. \A a, s: /\ ClashKnown(r, b, a, s) => ClashKnown(r, b, a, s)'
                   /\ HoldsKnown(r, b, a, s) => HoldsKnown(r, b, a, s)'
      BY <3>1, KeepsKnowing
    <3>3. CASE req[r].at \in {"listed", "checked"}
      <4>1. ASSUME NEW a \in req[r].pool, Free(b) PROVE HoldsKnown(r, b, a, req[r].start)'
        <5>1. PICK s: s = req[r].start
          OBVIOUS
        <5>2. HoldsKnown(r, b, a, s)'
          BY <2>1, <2>2, <3>2, <3>3, <4>1, <5>1 DEF Aware
        <5> QED BY <2>2, <5>1, <5>2 DEF HoldsKnown
      <4>2. ASSUME req[r].at = "checked"
            PROVE  /\ ClashKnown(r, b, req[r].adviser, req[r].start)'
                   /\ HoldsKnown(r, b, req[r].adviser, req[r].start)'
        <5>1. PICK s: s = req[r].start
          OBVIOUS
        <5>2. PICK a: a = req[r].adviser
          OBVIOUS
        <5>3. ClashKnown(r, b, a, s)' /\ HoldsKnown(r, b, a, s)'
          BY <2>1, <2>2, <3>2, <4>2, <5>1, <5>2 DEF Aware
        <5> QED BY <2>2, <5>1, <5>2, <5>3 DEF ClashKnown, HoldsKnown
      <4> QED BY <2>1, <2>2, <3>3, <4>1, <4>2 DEF Aware, HoldsKnown, ClashKnown, Free
    <3>4. CASE req[r].at \in {"slotOk", "walletOk"}
      <4>1. row'[b].start # None => row'[b].start = row[b].start /\ row'[b].adviser = row[b].adviser
        BY <2>1, <3>4, PaidRowStays DEF Paying
      <4>2. ASSUME row'[b].start # None
            PROVE  ClashKnown(r, b, row[b].adviser, row[b].start)'
        <5>1. PICK s: s = row[b].start
          OBVIOUS
        <5>2. PICK a: a = row[b].adviser
          OBVIOUS
        <5>3. ClashKnown(r, b, a, s)'
          BY <2>1, <2>2, <3>2, <3>4, <4>1, <4>2, <5>1, <5>2 DEF Aware
        <5> QED BY <4>1, <4>2, <5>1, <5>2, <5>3 DEF ClashKnown
      <4> QED BY <2>1, <2>2, <3>4, <4>1, <4>2 DEF Aware, ClashKnown
    <3> QED BY <2>4, <3>3, <3>4 DEF Looked
  <2> QED BY <1>2, <2>3, <2>4
<1> QED BY <1>1, <1>2

\* A listing sees every live hold.
LEMMA AwareLists ==
  ASSUME IInv, Next, NEW r \in Requests, Lists(r)
  PROVE  Aware(r)'
<1>1. PICK b \in Bookings: b = req[r].booking
  BY DEF Lists, Carries
<1>2. /\ req'[r].at = "listed" /\ req'[r].booking = b /\ req'[r].start = req[r].start
      /\ req'[r].pool = AvailableStaff(r, b, req[r].start)
      /\ \A o \in Bookings \ {b}: row'[o] = row[o]
  BY <1>1 DEF Lists, Carries
<1>3. ASSUME NEW a \in req'[r].pool, NEW o \in Bookings \ {b}, Held(o)',
             Overlaps(o, a, req[r].start, Length(b))'
      PROVE  FALSE
  <2>1. Held(o)
    BY <1>2, <1>3 DEF Held
  <2>2. Overlaps(o, a, req[r].start, Length(b))
    BY <1>2, <1>3 DEF Overlaps, Length
  <2>3. HoldClash(r, b, a, req[r].start)
    BY <2>1, <2>2, HeldIsLive DEF HoldClash
  <2> QED BY <1>2, <1>3, <2>3 DEF AvailableStaff
<1> QED BY <1>2, <1>3 DEF Aware, HoldsKnown

\* The re-check sees every confirmed session, and that of a hold every live hold.
LEMMA AwareTries ==
  ASSUME IInv, MInv, Next, NEW r \in Requests, Tries(r)
  PROVE  Aware(r)'
<1>1. PICK b \in Bookings: b = req[r].booking
  BY DEF Tries, Carries
<1>2. /\ req'[r].at = (IF Taken(r, req'[r].adviser) THEN "listed" ELSE "checked")
      /\ req'[r].booking = b /\ req'[r].start = req[r].start /\ req[r].at = "listed"
      /\ req'[r].adviser \in req[r].pool /\ req'[r].pool \subseteq req[r].pool /\ row' = row
  BY <1>1 DEF Tries, Carries
<1>3. PICK s: s = req[r].start
  OBVIOUS
<1>4. ASSUME NEW a \in req[r].pool, Free(b) PROVE HoldsKnown(r, b, a, s)'
  <2>1. HoldsKnown(r, b, a, s)
    BY <1>1, <1>2, <1>3, <1>4 DEF MInv, Aware
  <2>2. ASSUME NEW o \in Bookings \ {b}, Held(o)', Overlaps(o, a, s, Length(b))'
        PROVE  o \in missed'[r]
    <3>1. Held(o) /\ Overlaps(o, a, s, Length(b)) /\ ~Active(o)
      BY <1>2, <2>2 DEF Held, Overlaps, Active, Length
    <3> QED BY <1>1, <1>4, <2>1, <3>1, LooksAgain DEF HoldsKnown
  <2> QED BY <2>2 DEF HoldsKnown
<1>5. ASSUME ~Taken(r, req'[r].adviser)
      PROVE  ClashKnown(r, b, req[r].adviser, s)' /\ HoldsKnown(r, b, req[r].adviser, s)'
  <2>1. PICK a: a = req'[r].adviser /\ a \in req[r].pool
    BY <1>2
  <2>2. ~ActiveClash(b, a, s) /\ (~Free(b) => ~HoldClash(r, b, a, s))
    BY <1>1, <1>3, <1>5, <2>1 DEF Taken
  <2>3. ClashKnown(r, b, a, s)'
    BY <1>2, <2>2 DEF ClashKnown, ActiveClash, Active, Overlaps, Length
  <2>4. HoldsKnown(r, b, a, s)'
    <3>1. CASE Free(b)
      BY <1>4, <2>1, <3>1
    <3>2. CASE ~Free(b)
      <4>1. ASSUME NEW o \in Bookings \ {b}, Held(o)', Overlaps(o, a, s, Length(b))' PROVE FALSE
        <5>1. Held(o) /\ Overlaps(o, a, s, Length(b))
          BY <1>2, <4>1 DEF Held, Overlaps, Length
        <5> QED BY <2>2, <3>2, <5>1, HeldIsLive DEF HoldClash
      <4> QED BY <4>1 DEF HoldsKnown
    <3> QED BY <3>1, <3>2
  <2> QED BY <2>1, <2>3, <2>4 DEF ClashKnown, HoldsKnown
<1>6. ASSUME NEW a \in req'[r].pool, Free(b) PROVE HoldsKnown(r, b, a, req[r].start)'
  BY <1>2, <1>3, <1>4, <1>6 DEF HoldsKnown
<1>7. ASSUME req'[r].at = "checked"
      PROVE  /\ ClashKnown(r, b, req[r].adviser, req[r].start)'
             /\ HoldsKnown(r, b, req[r].adviser, req[r].start)'
  <2>1. ~Taken(r, req'[r].adviser)
    BY <1>2, <1>7
  <2> QED BY <1>2, <1>3, <1>5, <2>1 DEF ClashKnown, HoldsKnown
<1> QED BY <1>2, <1>6, <1>7 DEF Aware, Free, ClashKnown, HoldsKnown

\* A slot the index refused: the request goes on with the advisers it listed.
LEMMA AwareRetries ==
  ASSUME IInv, HistoryOK, MInv, Next, NEW r \in Requests, Retries(r)
  PROVE  Aware(r)'
<1>1. PICK b \in Bookings: b = req[r].booking
  BY DEF Retries, Carries
<1>2. /\ req[r].at = "checked" /\ req'[r].at = "listed" /\ req'[r].pool = req[r].pool
      /\ req'[r].booking = b /\ req'[r].start = req[r].start
  BY <1>1 DEF Retries, Carries
<1>3. PICK s: s = req[r].start
  OBVIOUS
<1>4. missed'[r] = missed[r] \cup NewClaims
  BY <1>2, Misses DEF Looked
<1>5. ASSUME NEW a \in req[r].pool, Free(b) PROVE HoldsKnown(r, b, a, s)'
  BY <1>1, <1>2, <1>3, <1>4, <1>5, KeepsKnowing DEF MInv, Aware
<1> QED BY <1>2, <1>3, <1>5 DEF Aware, HoldsKnown, Free

\* The clash checks of the webhook and the wallet see every confirmed session.
LEMMA AwareChecks ==
  ASSUME IInv, MInv, Next, NEW r \in Requests, ChecksPaid(r) \/ ChecksWallet(r)
  PROVE  Aware(r)'
<1>1. PICK b \in Bookings: b = req[r].booking
  BY DEF ChecksPaid, ChecksWallet, Carries
<1>2. /\ req'[r].booking = b /\ req'[r].start = req[r].start /\ row' = row
      /\ req'[r].at = "slotOk" \/ req'[r].at = "walletOk"
  BY <1>1 DEF ChecksPaid, ChecksWallet, Carries
<1>3. RowOK(b) /\ Aware(r)
  BY DEF IInv, Rowful, MInv
<1>4. ASSUME ChecksPaid(r), row[b].start # None
      PROVE  ~ActiveClash(b, row[b].adviser, row[b].start)
  <2>1. req[r].start = row[b].start /\ req[r].adviser = row[b].adviser
    BY <1>1, <1>3, <1>4 DEF ChecksPaid, Aware
  <2>2. row[b].adviser # None
    BY <1>3, <1>4 DEF RowOK
  <2> QED BY <1>1, <1>4, <2>1, <2>2 DEF ChecksPaid, SlotGone
<1>5. row[b].start # None => ~ActiveClash(b, row[b].adviser, row[b].start)
  BY <1>1, <1>4 DEF ChecksWallet
<1>6. row[b].start # None => ClashKnown(r, b, row[b].adviser, row[b].start)'
  BY <1>2, <1>5 DEF ClashKnown, ActiveClash, Active, Overlaps, Length
<1>7. req'[r].at = "slotOk" =>
        row[b].start = None \/ (row[b].start = req[r].start /\ row[b].adviser = req'[r].adviser)
  BY <1>1, <1>3 DEF ChecksPaid, ChecksWallet, Aware
<1> QED BY <1>2, <1>6, <1>7 DEF Aware, ClashKnown

LEMMA AwareStep == IInv /\ HistoryOK /\ MInv /\ [Next]_vars => MInv'
<1> SUFFICES ASSUME IInv, HistoryOK, MInv, [Next]_vars, NEW r \in Requests PROVE Aware(r)'
  BY DEF MInv
<1>1. CASE UNCHANGED vars
  BY <1>1 DEF MInv, vars, history, Aware, ClashKnown, HoldsKnown, Active, Held, Overlaps, Length, Free
<1>2. CASE Next
  <2>1. CASE Forgets(r)
    BY <2>1 DEF Forgets, Aware, Looked
  <2>2. CASE OpensPaid(r)
    BY <2>2 DEF OpensPaid, Aware
  <2> QED BY <1>2, <2>1, <2>2, ReqStep, AwareStays, AwareLists, AwareTries, AwareRetries,
             AwareChecks DEF Reading
<1> QED BY <1>1, <1>2

LEMMA AwareInvariant == Spec => []MInv
<1>1. Init => MInv
  BY IdleOK DEF Init, MInv, Aware
<1>2. OInv => HistoryOK
  BY DEF OInv
<1> QED BY <1>1, <1>2, AwareStep, Invariant, Offered, PTL DEF Spec

\* Whatever races, a booking is confirmed over another confirmed session of the
\* adviser only if that one was confirmed after its request last looked: the
\* clash checks before every confirmation miss nothing that was there.
THEOREM ConfirmsOverNothingSeen == Spec => SessionsApart
<1> DEFINE Good(b) ==
             ~Active(b) /\ Active(b)' /\ row'[b].start # None =>
               \A o \in Bookings \ {b}:
                 /\ Active(o)
                 /\ Overlaps(o, row'[b].adviser, row'[b].start, Length(b))
                 => \E r \in Requests: WroteBlindly(r, b, o)
<1>1. ASSUME IInv, MInv, Next, NEW b \in Bookings PROVE Good(b)
  <2> SUFFICES ASSUME ~Active(b), Active(b)', row'[b].start # None,
                      NEW o \in Bookings \ {b}, Active(o),
                      Overlaps(o, row'[b].adviser, row'[b].start, Length(b))
               PROVE  \E r \in Requests: WroteBlindly(r, b, o)
    OBVIOUS
  <2>1. PICK r \in Requests: PlacedBy(r, b) \/ ConfirmedBy(r, b)
    BY <1>1, RowStep DEF Quiet
  <2>2. req'[r] # req[r] /\ req[r].at \in Looked /\ req[r].booking = b /\ Aware(r)
    BY <1>1, <2>1, IdleOK DEF PlacedBy, ConfirmedBy, Looked, MInv
  <2>3. o \in missed[r]
    <3>1. CASE PlacedBy(r, b)
      BY <2>2, <3>1 DEF PlacedBy, Aware, ClashKnown
    <3>2. CASE ConfirmedBy(r, b)
      BY <2>2, <3>2 DEF ConfirmedBy, Aware, ClashKnown
    <3> QED BY <2>1, <3>1, <3>2
  <2> QED BY <2>2, <2>3 DEF WroteBlindly
<1>2. IInv /\ MInv /\ [Next]_vars => [\A b \in Bookings: Good(b)]_vars
  BY <1>1 DEF vars
<1> QED BY <1>2, Invariant, AwareInvariant, PTL DEF Spec, SessionsApart

\* A new hold or a free booking is placed over a live hold or a confirmed
\* session only if that one was written after its request last looked.
THEOREM PlacesOverNothingSeen == Spec => HoldsApart
<1> DEFINE Good(b) ==
             row[b].start = None /\ row'[b].start # None =>
               \A o \in Bookings \ {b}:
                 /\ Held(o) \/ Active(o)
                 /\ Overlaps(o, row'[b].adviser, row'[b].start, Length(b))
                 => \E r \in Requests: WroteBlindly(r, b, o)
<1>1. ASSUME IInv, MInv, Next, NEW b \in Bookings PROVE Good(b)
  <2> SUFFICES ASSUME row[b].start = None, row'[b].start # None,
                      NEW o \in Bookings \ {b}, Held(o) \/ Active(o),
                      Overlaps(o, row'[b].adviser, row'[b].start, Length(b))
               PROVE  \E r \in Requests: WroteBlindly(r, b, o)
    OBVIOUS
  <2>1. PICK r \in Requests: PlacedBy(r, b)
    BY <1>1, RowStep DEF Quiet, ConfirmedBy
  <2>2. req'[r] # req[r] /\ req[r].at \in Looked /\ req[r].booking = b /\ Aware(r)
    BY <1>1, <2>1, IdleOK DEF PlacedBy, Looked, MInv
  <2>3. o \in missed[r]
    BY <2>1, <2>2 DEF PlacedBy, Aware, ClashKnown, HoldsKnown
  <2> QED BY <2>2, <2>3 DEF WroteBlindly
<1>2. IInv /\ MInv /\ [Next]_vars => [\A b \in Bookings: Good(b)]_vars
  BY <1>1 DEF vars
<1> QED BY <1>2, Invariant, AwareInvariant, PTL DEF Spec, HoldsApart
=============================================================================
