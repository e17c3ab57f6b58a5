------------------------ MODULE MCBookingSettlement ------------------------
(* One booking, up to two card payments and a wallet payment of it, two     *)
(* workers; 26 and 23 units for the card and the wallet price, so that the  *)
(* tiers round both ways.                                                   *)
EXTENDS BookingSettlement, TLC

CONSTANTS i1, i2, w1, w2, x1, x2

OneIntent == {i1}
TwoIntents == {i1, i2}
OneWorker == {w1}
TwoWorkers == {w1, w2}
TwoRefunds == {x1, x2}
Symmetry == Permutations(Intents) \cup Permutations(Workers) \cup Permutations(Refunds)
=============================================================================
