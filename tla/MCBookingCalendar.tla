------------------------- MODULE MCBookingCalendar -------------------------
(***************************************************************************)
(* Free, Gap-Closing and LIA sessions of 1, 2 and 3 grid units (the real   *)
(* 15, 30 and 45 minutes), two advisers of whom one is an LIA.  Each       *)
(* configuration picks the bookings and the hours its question needs.      *)
(***************************************************************************)
EXTENDS BookingCalendar, TLC

CONSTANTS f1, f2, f3, g1, g2, l1, ann, bob, lia, cons, r1, r2

OneOfEach == {f1, g1, l1}
SameClientFree == {f1, f2}
TwoClientsFree == {f1, f3}
GapPair == {g1, g2}
FreeAndGap == {f1, g2}
FreeAndLia == {f1, l1}
GapAndLia == {g1, l1}
MCTypeOf == [b \in Bookings |->
  CASE b \in {f1, f2, f3} -> "FREE_15" [] b \in {g1, g2} -> "GAP_CLOSING" [] b = l1 -> "LIA"]
MCClientOf == [b \in Bookings |-> IF b \in {f1, f2, g1} THEN ann ELSE bob]
OneAdviser == {lia}
MCAdvisers == {lia, cons}
MCPool == [t \in Types |-> IF t = "FREE_15" THEN Advisers ELSE {lia}]
MCDur == [t \in Types |->
  CASE t = "FREE_15" -> 1 [] t = "GAP_CLOSING" -> 2 [] t = "LIA" -> 3]
Window(s, e) == [from |-> s, to |-> e]
OneWindow == {{Window(0, 1)}}
LongWindow == {{Window(0, 3)}}
MovedWindow == {{Window(0, 4)}, {Window(1, 3)}}
OneRequest == {r1}
TwoRequests == {r1, r2}
\* g1 and g2 are of one type and of different clients, each with one booking.
PairSymmetry == Permutations(Requests) \cup Permutations(GapPair)
=============================================================================
