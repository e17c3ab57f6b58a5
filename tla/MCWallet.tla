------------------------------ MODULE MCWallet ------------------------------
(* A client with two bookings and another with one; two requests in flight. *)
EXTENDS Wallet, TLC

CONSTANTS b1, b2, b3, wa, wb, r1, r2

MCBookings == {b1, b2, b3}
MCWallets == {wa, wb}
MCWalletOf == (b1 :> wa) @@ (b2 :> wa) @@ (b3 :> wb)
MCAmounts == {2, 3}
MCRequests == {r1, r2}
Symmetry == Permutations(MCRequests)
=============================================================================
