---------------------------- MODULE WalletLedger ----------------------------
(***************************************************************************)
(* What the client store-credit wallet promises, without saying how.       *)
(*                                                                         *)
(* A wallet is an append-only sequence of signed entries; the cached       *)
(* balance moves in the very step that appends the entry, never goes       *)
(* below zero, and a booking is debited at most once and refunded at most  *)
(* once.  Module Wallet (the transaction of WalletService.postTransaction) *)
(* implements this.                                                        *)
(***************************************************************************)
EXTENDS Integers, Sequences

CONSTANTS
  Bookings,   \* consultations a wallet entry may be about
  Wallets,    \* one wallet per client
  WalletOf,   \* the wallet of the client a booking belongs to
  Amounts     \* positive integer cents a single entry moves

\* The three REFUND_* types share one unique index, so they are one kind here.
Kinds == {"SPEND_BOOKING", "REFUND"}

Delta(kind, amount) == IF kind = "REFUND" THEN amount ELSE -amount

Entries == [kind: Kinds, booking: Bookings, delta: Int, after: Int]

Posted(entries, kind, b) ==
  \E i \in 1..Len(entries): entries[i].kind = kind /\ entries[i].booking = b

VARIABLES
  ledger,     \* wallet_transaction rows, oldest first, per wallet
  balance     \* wallet.balanceCents, the cached balance

Init ==
  /\ ledger = [w \in Wallets |-> <<>>]
  /\ balance = [w \in Wallets |-> 0]

Post(kind, b, amount) ==
  LET w    == WalletOf[b]
      next == balance[w] + Delta(kind, amount)
  IN  /\ next >= 0
      /\ ~Posted(ledger[w], kind, b)
      /\ balance' = [balance EXCEPT ![w] = next]
      /\ ledger' = [ledger EXCEPT ![w] =
           Append(@, [kind |-> kind, booking |-> b,
                      delta |-> Delta(kind, amount), after |-> next])]

Next == \E kind \in Kinds, b \in Bookings, amount \in Amounts: Post(kind, b, amount)

Spec == Init /\ [][Next]_<<ledger, balance>>
=============================================================================
