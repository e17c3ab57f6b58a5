------------------------------- MODULE Wallet -------------------------------
(***************************************************************************)
(* WalletService.postTransaction (backend/src/wallet/wallet.service.ts),   *)
(* the one primitive every wallet movement goes through, run by concurrent *)
(* requests inside their own READ COMMITTED transactions.                  *)
(*                                                                         *)
(* One post is: the caller's transaction opens (Open), the wallet row is   *)
(* locked and its balance read under the lock (LockAndRead), the debit is  *)
(* refused when it would overdraw (Refuse), the ledger row is inserted     *)
(* subject to the partial unique indexes (Insert, Conflict), the cached    *)
(* balance is written and the transaction commits (Commit).  The enclosing *)
(* transaction may be rolled back at any point (Rollback): the callers     *)
(* throw on a lost slot or a stale status, and a connection can drop.      *)
(***************************************************************************)
EXTENDS Integers, Sequences

CONSTANTS
  Bookings, Wallets, WalletOf, Amounts,
  Requests,   \* concurrent HTTP requests that post to a wallet
  NoOne       \* "nobody holds the row lock", and the booking of an idle request

ASSUME WalletAssumption ==
  /\ WalletOf \in [Bookings -> Wallets]
  /\ Amounts \subseteq Nat \ {0}
  /\ NoOne \notin Requests \cup Bookings

VARIABLES
  ledger,     \* committed wallet_transaction rows, per wallet
  balance,    \* committed wallet.balanceCents
  holder,     \* which request holds the FOR UPDATE lock of a wallet row
  post        \* request-local state of a post

vars == <<ledger, balance, holder, post>>

Abstract == INSTANCE WalletLedger
  WITH Bookings <- Bookings, Wallets <- Wallets, WalletOf <- WalletOf, Amounts <- Amounts,
       ledger <- ledger, balance <- balance

Kinds == {"SPEND_BOOKING", "REFUND"}
Delta(kind, amount) == IF kind = "REFUND" THEN amount ELSE -amount
Entries == [kind: Kinds, booking: Bookings, delta: Int, after: Int]
Posted(entries, kind, b) ==
  \E i \in 1..Len(entries): entries[i].kind = kind /\ entries[i].booking = b

Phases == {"idle", "open", "locked", "inserted"}
Posts == [phase: Phases, kind: Kinds, booking: Bookings \cup {NoOne},
          amount: Amounts \cup {0}, seen: Int]
Idle == [phase |-> "idle", kind |-> "SPEND_BOOKING", booking |-> NoOne,
         amount |-> 0, seen |-> 0]

\* The wallet a request works on, the signed amount, and currentBalance + amountCents.
RowOf(r) == WalletOf[post[r].booking]
Signed(r) == Delta(post[r].kind, post[r].amount)
NextBalance(r) == post[r].seen + Signed(r)

Init ==
  /\ ledger = [w \in Wallets |-> <<>>]
  /\ balance = [w \in Wallets |-> 0]
  /\ holder = [w \in Wallets |-> NoOne]
  /\ post = [r \in Requests |-> Idle]

\* The transaction ends: the request is done and the row lock, if held, is free.
Finish(r) ==
  /\ post' = [post EXCEPT ![r] = Idle]
  /\ holder' = [w \in Wallets |-> IF holder[w] = r THEN NoOne ELSE holder[w]]

Open(r, kind, b, amount) ==
  /\ post[r].phase = "idle"
  /\ post' = [post EXCEPT ![r] = [phase |-> "open", kind |-> kind, booking |-> b,
                                  amount |-> amount, seen |-> 0]]
  /\ UNCHANGED <<ledger, balance, holder>>

\* Mutant: the balance is read without FOR UPDATE.
LockFreeUnlocked(r) == TRUE
LockFree(r) == holder[RowOf(r)] = NoOne

LockAndRead(r) ==
  /\ post[r].phase = "open"
  /\ LockFree(r)
  /\ holder' = [holder EXCEPT ![RowOf(r)] = r]
  /\ post' = [post EXCEPT ![r].phase = "locked", ![r].seen = balance[RowOf(r)]]
  /\ UNCHANGED <<ledger, balance>>

\* Mutant: the overdraft test looks at the balance before the debit.
OverdrawsLate(r) == post[r].seen < 0
Overdraws(r) == NextBalance(r) < 0

Refuse(r) ==
  /\ post[r].phase = "locked"
  /\ Overdraws(r)
  /\ Finish(r)
  /\ UNCHANGED <<ledger, balance>>

\* wallet_transaction_refund_once_idx / wallet_transaction_spend_once_idx.
Duplicate(r) == Posted(ledger[RowOf(r)], post[r].kind, post[r].booking)

Insert(r) ==
  /\ post[r].phase = "locked"
  /\ ~Overdraws(r)
  /\ ~Duplicate(r)
  /\ post' = [post EXCEPT ![r].phase = "inserted"]
  /\ UNCHANGED <<ledger, balance, holder>>

Conflict(r) ==
  /\ post[r].phase = "locked"
  /\ ~Overdraws(r)
  /\ Duplicate(r)
  /\ Finish(r)
  /\ UNCHANGED <<ledger, balance>>

Commit(r) ==
  /\ post[r].phase = "inserted"
  /\ ledger' = [ledger EXCEPT ![RowOf(r)] =
       Append(@, [kind |-> post[r].kind, booking |-> post[r].booking,
                  delta |-> Signed(r), after |-> NextBalance(r)])]
  /\ balance' = [balance EXCEPT ![RowOf(r)] = NextBalance(r)]
  /\ Finish(r)

Rollback(r) ==
  /\ post[r].phase # "idle"
  /\ Finish(r)
  /\ UNCHANGED <<ledger, balance>>

Next ==
  \E r \in Requests:
    \/ \E kind \in Kinds, b \in Bookings, amount \in Amounts: Open(r, kind, b, amount)
    \/ LockAndRead(r)
    \/ Refuse(r)
    \/ Insert(r)
    \/ Conflict(r)
    \/ Commit(r)
    \/ Rollback(r)

Spec == Init /\ [][Next]_vars

-----------------------------------------------------------------------------
\* Rows are well formed, and an entry stands in the wallet of the client whose
\* booking it is about.
TypeOK ==
  /\ ledger \in [Wallets -> Seq(Entries)]
  /\ \A w \in Wallets: \A i \in 1..Len(ledger[w]): WalletOf[ledger[w][i].booking] = w
  /\ balance \in [Wallets -> Int]
  /\ holder \in [Wallets -> Requests \cup {NoOne}]
  /\ post \in [Requests -> Posts]
  /\ \A r \in Requests:
       post[r].phase # "idle" => post[r].booking \in Bookings /\ post[r].amount \in Amounts

\* The running total an entry list ends with.
Total(entries) == IF entries = <<>> THEN 0 ELSE entries[Len(entries)].after

\* "The append-only ledger is the source of truth; balanceCents is a cache kept
\* in lock-step with it": every entry continues the running total of the one
\* before it and the cache equals the last total, whoever posted concurrently.
BalanceFollowsLedger ==
  \A w \in Wallets:
    /\ balance[w] = Total(ledger[w])
    /\ \A i \in 1..Len(ledger[w]):
         ledger[w][i].after =
           ledger[w][i].delta + (IF i = 1 THEN 0 ELSE ledger[w][i - 1].after)

\* No history of concurrent debits, each of which saw enough credit, takes a
\* wallet below zero, not even between two entries.
NeverOverdrawn ==
  \A w \in Wallets:
    /\ balance[w] >= 0
    /\ \A i \in 1..Len(ledger[w]): ledger[w][i].after >= 0

\* A booking is debited at most once and store-credited at most once however
\* many checkouts, cancellations and no-show marks race.
OncePerBooking ==
  \A w \in Wallets: \A i, j \in 1..Len(ledger[w]):
    /\ ledger[w][i].kind = ledger[w][j].kind
    /\ ledger[w][i].booking = ledger[w][j].booking
    => i = j

\* What the FOR UPDATE lock gives: inside its transaction a request is the one
\* holder of its wallet row and what it read of the row is still true, down to
\* the overdraft and duplicate tests that led to its insert.
LockedReadsAreFresh ==
  \A r \in Requests:
    /\ post[r].phase \in {"locked", "inserted"} =>
         holder[RowOf(r)] = r /\ post[r].seen = balance[RowOf(r)]
    /\ post[r].phase = "inserted" => NextBalance(r) >= 0 /\ ~Duplicate(r)

\* The statement-level transaction implements the atomic ledger.
ImplementsLedger == Abstract!Spec
=============================================================================
