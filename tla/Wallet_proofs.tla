---------------------------- MODULE Wallet_proofs ----------------------------
(***************************************************************************)
(* The wallet invariants for every number of clients, bookings, amounts    *)
(* and concurrent requests, and the refinement of the atomic ledger.       *)
(*                                                                         *)
(* The invariants are not inductive by themselves: Commit writes a total   *)
(* computed from a balance read two steps earlier.  LockedReadsAreFresh is *)
(* the missing part, and it holds because a row has one lock holder.       *)
(***************************************************************************)
EXTENDS Wallet, TLAPS

IInv ==
  /\ TypeOK
  /\ LockedReadsAreFresh
  /\ BalanceFollowsLedger
  /\ NeverOverdrawn
  /\ OncePerBooking

\* Delta is the signed amount whatever the kind.
LEMMA DeltaInt == ASSUME NEW kind, NEW amount \in Amounts
                  PROVE  Delta(kind, amount) \in Int
  BY WalletAssumption DEF Delta

\* Once it holds its row a request has typed fields, and its row is a wallet.
LEMMA InTransaction ==
  ASSUME TypeOK, NEW r \in Requests, post[r].phase # "idle"
  PROVE  /\ post[r].booking \in Bookings /\ post[r].amount \in Amounts
         /\ post[r].kind \in Kinds /\ post[r].seen \in Int
         /\ RowOf(r) \in Wallets /\ Signed(r) \in Int /\ NextBalance(r) \in Int
<1>1. /\ post[r].booking \in Bookings /\ post[r].amount \in Amounts
      /\ post[r].kind \in Kinds /\ post[r].seen \in Int
  BY DEF TypeOK, Posts
<1>2. RowOf(r) \in Wallets
  BY <1>1, WalletAssumption DEF RowOf
<1>3. Signed(r) \in Int
  BY <1>1, DeltaInt DEF Signed
<1> QED
  BY <1>1, <1>2, <1>3 DEF NextBalance

\* Every initial state of the wallet tables is consistent.
LEMMA InitInv == Init => IInv
<1> SUFFICES ASSUME Init PROVE IInv
  OBVIOUS
<1>1. TypeOK
  BY WalletAssumption DEF Init, TypeOK, Posts, Idle, Phases, Kinds, Entries
<1>2. LockedReadsAreFresh
  BY DEF Init, LockedReadsAreFresh, Idle
<1>3. BalanceFollowsLedger /\ NeverOverdrawn /\ OncePerBooking
  BY DEF Init, BalanceFollowsLedger, NeverOverdrawn, OncePerBooking, Total
<1> QED
  BY <1>1, <1>2, <1>3 DEF IInv

\* The steps of a post that leave the committed tables alone keep everything
\* that is said of the tables.
LEMMA TablesUnchanged ==
  ASSUME IInv, UNCHANGED <<ledger, balance>>
  PROVE  BalanceFollowsLedger' /\ NeverOverdrawn' /\ OncePerBooking'
  BY DEF IInv, BalanceFollowsLedger, NeverOverdrawn, OncePerBooking, Total

\* A request that ends its transaction without writing disturbs nobody.
LEMMA FinishInv ==
  ASSUME IInv, NEW r \in Requests, Finish(r), UNCHANGED <<ledger, balance>>
  PROVE  IInv'
<1>1. TypeOK'
  <2>1. holder' \in [Wallets -> Requests \cup {NoOne}]
    BY DEF IInv, TypeOK, Finish
  <2>2. Idle \in Posts
    BY DEF Idle, Posts, Phases, Kinds
  <2>3. post' \in [Requests -> Posts]
    BY <2>2 DEF IInv, TypeOK, Finish
  <2>4. ASSUME NEW q \in Requests, post'[q].phase # "idle"
        PROVE  post'[q].booking \in Bookings /\ post'[q].amount \in Amounts
    <3>1. q # r
      BY <2>4 DEF IInv, TypeOK, Finish, Idle
    <3> QED BY <2>4, <3>1 DEF IInv, TypeOK, Finish
  <2> QED BY <2>1, <2>3, <2>4 DEF IInv, TypeOK
<1>2. LockedReadsAreFresh'
  <2> SUFFICES ASSUME NEW q \in Requests, post'[q].phase \in {"locked", "inserted"}
               PROVE  /\ holder'[RowOf(q)'] = q /\ post'[q].seen = balance'[RowOf(q)']
                      /\ post'[q].phase = "inserted" =>
                           NextBalance(q)' >= 0 /\ ~Duplicate(q)'
    BY DEF LockedReadsAreFresh
  <2>1. q # r /\ post'[q] = post[q]
    BY DEF IInv, TypeOK, Finish, Idle
  <2>2. /\ holder[RowOf(q)] = q /\ post[q].seen = balance[RowOf(q)]
        /\ post[q].phase = "inserted" => NextBalance(q) >= 0 /\ ~Duplicate(q)
    BY <2>1 DEF IInv, LockedReadsAreFresh
  <2>3. RowOf(q)' = RowOf(q) /\ RowOf(q) \in Wallets
    BY <2>1, WalletAssumption DEF RowOf, IInv, TypeOK
  <2>4. NextBalance(q)' = NextBalance(q) /\ Duplicate(q)' = Duplicate(q)
    BY <2>1, <2>3 DEF NextBalance, Signed, Duplicate
  <2> QED BY <2>1, <2>2, <2>3, <2>4 DEF Finish
<1> QED
  BY <1>1, <1>2, TablesUnchanged DEF IInv

\* A change to one request's local state is well typed.
LEMMA PostTyped ==
  ASSUME TypeOK, NEW r \in Requests, NEW p \in Posts,
         p.phase # "idle" => p.booking \in Bookings /\ p.amount \in Amounts,
         post' = [post EXCEPT ![r] = p], ledger' = ledger, balance' = balance,
         holder' \in [Wallets -> Requests \cup {NoOne}]
  PROVE  TypeOK'
  BY DEF TypeOK

\* Opening a transaction.
LEMMA OpenInv ==
  ASSUME IInv, NEW r \in Requests, NEW kind \in Kinds, NEW b \in Bookings,
         NEW amount \in Amounts, Open(r, kind, b, amount)
  PROVE  IInv'
<1>1. TypeOK'
  BY PostTyped DEF IInv, TypeOK, Open, Posts, Phases
<1>2. LockedReadsAreFresh'
  <2> SUFFICES ASSUME NEW q \in Requests, post'[q].phase \in {"locked", "inserted"}
               PROVE  /\ holder'[RowOf(q)'] = q /\ post'[q].seen = balance'[RowOf(q)']
                      /\ post'[q].phase = "inserted" =>
                           NextBalance(q)' >= 0 /\ ~Duplicate(q)'
    BY DEF LockedReadsAreFresh
  <2>1. q # r /\ post'[q] = post[q]
    BY DEF IInv, TypeOK, Open
  <2> QED
    BY <2>1 DEF IInv, LockedReadsAreFresh, Open, RowOf, NextBalance, Signed, Duplicate
<1> QED
  BY <1>1, <1>2, TablesUnchanged DEF IInv, Open

\* Taking the row lock: the balance read is the committed one, and nobody else
\* was between its read and its commit on that row.
LEMMA LockAndReadInv ==
  ASSUME IInv, NEW r \in Requests, LockAndRead(r)
  PROVE  IInv'
<1>1. RowOf(r) \in Wallets /\ balance[RowOf(r)] \in Int
  BY WalletAssumption DEF IInv, TypeOK, LockAndRead, RowOf
<1>2. TypeOK'
  <2>1. post'[r] \in Posts /\ post'[r].booking \in Bookings /\ post'[r].amount \in Amounts
    BY <1>1 DEF IInv, TypeOK, LockAndRead, Posts, Phases
  <2>2. post' = [post EXCEPT ![r] = post'[r]]
    BY DEF IInv, TypeOK, LockAndRead
  <2> QED
    BY <1>1, <2>1, <2>2, PostTyped DEF IInv, TypeOK, LockAndRead
<1>3. LockedReadsAreFresh'
  <2> SUFFICES ASSUME NEW q \in Requests, post'[q].phase \in {"locked", "inserted"}
               PROVE  /\ holder'[RowOf(q)'] = q /\ post'[q].seen = balance'[RowOf(q)']
                      /\ post'[q].phase = "inserted" =>
                           NextBalance(q)' >= 0 /\ ~Duplicate(q)'
    BY DEF LockedReadsAreFresh
  <2>1. CASE q = r
    <3>1. /\ post'[r].phase = "locked" /\ post'[r].seen = balance[RowOf(r)]
          /\ post'[r].booking = post[r].booking
      BY DEF IInv, TypeOK, LockAndRead, Posts
    <3>2. RowOf(r)' = RowOf(r)
      BY <3>1 DEF RowOf
    <3> QED BY <2>1, <3>1, <3>2, <1>1 DEF LockAndRead, IInv, TypeOK
  <2>2. CASE q # r
    <3>1. post'[q] = post[q]
      BY <2>2 DEF IInv, TypeOK, LockAndRead
    <3>2. RowOf(q) \in Wallets /\ holder[RowOf(q)] = q
      BY <3>1, InTransaction DEF IInv, LockedReadsAreFresh
    <3>4. RowOf(q) # RowOf(r)
      BY <3>2, WalletAssumption DEF LockAndRead, LockFree
    <3>3. RowOf(q)' = RowOf(q)
      BY <3>1 DEF RowOf
    <3> QED
      BY <3>1, <3>2, <3>3, <3>4
         DEF IInv, TypeOK, LockedReadsAreFresh, LockAndRead, NextBalance, Signed, Duplicate
  <2> QED BY <2>1, <2>2
<1> QED
  BY <1>2, <1>3, TablesUnchanged DEF IInv, LockAndRead

\* The insert records that the overdraft and the index test passed.
LEMMA InsertInv ==
  ASSUME IInv, NEW r \in Requests, Insert(r)
  PROVE  IInv'
<1>1. TypeOK'
  <2>1. post'[r] \in Posts /\ post'[r].booking \in Bookings /\ post'[r].amount \in Amounts
    BY DEF IInv, TypeOK, Insert, Posts, Phases
  <2>2. post' = [post EXCEPT ![r] = post'[r]]
    BY DEF IInv, TypeOK, Insert
  <2> QED
    BY <2>1, <2>2, PostTyped DEF IInv, TypeOK, Insert
<1>2. LockedReadsAreFresh'
  <2> SUFFICES ASSUME NEW q \in Requests, post'[q].phase \in {"locked", "inserted"}
               PROVE  /\ holder'[RowOf(q)'] = q /\ post'[q].seen = balance'[RowOf(q)']
                      /\ post'[q].phase = "inserted" =>
                           NextBalance(q)' >= 0 /\ ~Duplicate(q)'
    BY DEF LockedReadsAreFresh
  <2>1. /\ post'[q].booking = post[q].booking /\ post'[q].seen = post[q].seen
        /\ post'[q].kind = post[q].kind /\ post'[q].amount = post[q].amount
        /\ (q # r => post'[q] = post[q])
    BY DEF IInv, TypeOK, Insert, Posts
  <2>2. RowOf(q)' = RowOf(q) /\ NextBalance(q)' = NextBalance(q)
    BY <2>1 DEF RowOf, NextBalance, Signed
  <2>3. Duplicate(q)' = Duplicate(q)
    BY <2>1, <2>2 DEF Duplicate, Insert
  <2>4. CASE q = r
    <3>1. NextBalance(r) \in Int
      BY InTransaction DEF IInv, Insert
    <3>2. NextBalance(r) >= 0 /\ ~Duplicate(r)
      BY <3>1 DEF Insert, Overdraws
    <3> QED BY <2>1, <2>2, <2>3, <2>4, <3>2 DEF IInv, LockedReadsAreFresh, Insert
  <2>5. CASE q # r
    BY <2>1, <2>2, <2>3, <2>5 DEF IInv, LockedReadsAreFresh, Insert
  <2> QED BY <2>4, <2>5
<1> QED
  BY <1>1, <1>2, TablesUnchanged DEF IInv, Insert

\* Appending an entry: what is at each position afterwards.
LEMMA AppendAt ==
  ASSUME NEW S, NEW entries \in Seq(S), NEW e \in S
  PROVE  /\ Append(entries, e) \in Seq(S)
         /\ Len(Append(entries, e)) = Len(entries) + 1
         /\ Append(entries, e)[Len(entries) + 1] = e
         /\ \A i \in 1..Len(entries): Append(entries, e)[i] = entries[i]
         /\ Append(entries, e) # <<>>
         /\ Len(entries) \in Nat
         /\ entries # <<>> => Len(entries) >= 1
  OBVIOUS

\* The commit: the entry continues the committed running total.
LEMMA CommitInv ==
  ASSUME IInv, NEW r \in Requests, Commit(r)
  PROVE  IInv'
<1> DEFINE w == RowOf(r)
           e == [kind |-> post[r].kind, booking |-> post[r].booking,
                 delta |-> Signed(r), after |-> NextBalance(r)]
<1>1. /\ post[r].booking \in Bookings /\ post[r].kind \in Kinds
      /\ w \in Wallets /\ Signed(r) \in Int /\ NextBalance(r) \in Int
      /\ post[r].seen \in Int
  BY InTransaction DEF Commit, IInv
<1>2. e \in Entries
  BY <1>1 DEF Entries
<1>3. ledger[w] \in Seq(Entries)
  BY <1>1 DEF IInv, TypeOK
<1>4. /\ holder[w] = r /\ post[r].seen = balance[w]
      /\ NextBalance(r) >= 0 /\ ~Duplicate(r)
  BY DEF IInv, LockedReadsAreFresh, Commit
<1>5. /\ ledger' = [ledger EXCEPT ![w] = Append(ledger[w], e)]
      /\ balance' = [balance EXCEPT ![w] = NextBalance(r)]
      /\ Finish(r)
  BY DEF Commit
<1>6. /\ ledger'[w] = Append(ledger[w], e) /\ balance'[w] = NextBalance(r)
      /\ \A v \in Wallets: v # w => ledger'[v] = ledger[v] /\ balance'[v] = balance[v]
  BY <1>1, <1>5 DEF IInv, TypeOK
<1>7. TypeOK'
  <2>1. ledger' \in [Wallets -> Seq(Entries)] /\ balance' \in [Wallets -> Int]
    BY <1>1, <1>2, <1>3, <1>5, AppendAt DEF IInv, TypeOK
  <2>2. ASSUME NEW v \in Wallets, NEW i \in 1..Len(ledger'[v])
        PROVE  WalletOf[ledger'[v][i].booking] = v
    <3>1. CASE v # w
      BY <3>1, <1>6 DEF IInv, TypeOK
    <3>2. CASE v = w /\ i \in 1..Len(ledger[w])
      BY <3>2, <1>2, <1>3, <1>6, AppendAt DEF IInv, TypeOK
    <3>3. CASE v = w /\ i = Len(ledger[w]) + 1
      <4>1. ledger'[v][i].booking = post[r].booking
        BY <3>3, <1>2, <1>3, <1>6, AppendAt
      <4> QED BY <4>1, <3>3 DEF RowOf
    <3> QED BY <3>1, <3>2, <3>3, <1>2, <1>3, <1>6, AppendAt
  <2>3. holder' \in [Wallets -> Requests \cup {NoOne}]
    BY <1>5 DEF IInv, TypeOK, Finish
  <2>4. Idle \in Posts /\ Idle.phase = "idle"
    BY DEF Idle, Posts, Phases, Kinds
  <2>5. post' \in [Requests -> Posts]
    BY <1>5, <2>4 DEF IInv, TypeOK, Finish
  <2>6. ASSUME NEW q \in Requests, post'[q].phase # "idle"
        PROVE  post'[q].booking \in Bookings /\ post'[q].amount \in Amounts
    <3>1. q # r
      BY <2>4, <2>6, <1>5 DEF IInv, TypeOK, Finish
    <3> QED BY <2>6, <3>1, <1>5 DEF IInv, TypeOK, Finish
  <2> QED BY <2>1, <2>2, <2>3, <2>5, <2>6 DEF TypeOK
<1>8. LockedReadsAreFresh'
  <2> SUFFICES ASSUME NEW q \in Requests, post'[q].phase \in {"locked", "inserted"}
               PROVE  /\ holder'[RowOf(q)'] = q /\ post'[q].seen = balance'[RowOf(q)']
                      /\ post'[q].phase = "inserted" =>
                           NextBalance(q)' >= 0 /\ ~Duplicate(q)'
    BY DEF LockedReadsAreFresh
  <2>1. q # r /\ post'[q] = post[q]
    BY <1>5 DEF IInv, TypeOK, Finish, Idle
  <2>2. RowOf(q) \in Wallets /\ holder[RowOf(q)] = q
    BY <2>1, InTransaction DEF IInv, LockedReadsAreFresh
  <2>3. RowOf(q)' = RowOf(q) /\ RowOf(q) # w
    BY <2>1, <2>2, <1>4 DEF RowOf
  <2>4. /\ ledger'[RowOf(q)] = ledger[RowOf(q)] /\ balance'[RowOf(q)] = balance[RowOf(q)]
        /\ holder'[RowOf(q)] = q
    BY <1>5, <1>6, <2>1, <2>2, <2>3 DEF Finish
  <2>5. Duplicate(q)' = Duplicate(q) /\ NextBalance(q)' = NextBalance(q)
    BY <2>1, <2>3, <2>4 DEF Duplicate, NextBalance, Signed
  <2> QED
    BY <2>1, <2>2, <2>3, <2>4, <2>5 DEF IInv, LockedReadsAreFresh
<1>9. BalanceFollowsLedger'
  <2> SUFFICES ASSUME NEW v \in Wallets
               PROVE  /\ balance'[v] = Total(ledger'[v])
                      /\ \A i \in 1..Len(ledger'[v]):
                           ledger'[v][i].after = ledger'[v][i].delta
                             + (IF i = 1 THEN 0 ELSE ledger'[v][i - 1].after)
    BY DEF BalanceFollowsLedger, Total
  <2>1. CASE v # w
    BY <2>1, <1>6 DEF IInv, BalanceFollowsLedger, Total
  <2>2. CASE v = w
    <3>1. balance'[w] = Total(ledger'[w])
      BY <1>2, <1>3, <1>6, AppendAt DEF Total
    <3>2. ASSUME NEW i \in 1..Len(ledger[w])
          PROVE  ledger'[w][i].after = ledger'[w][i].delta
                   + (IF i = 1 THEN 0 ELSE ledger'[w][i - 1].after)
      <4>1. ledger'[w][i] = ledger[w][i]
        BY <1>2, <1>3, <1>6, AppendAt
      <4>2. i # 1 => ledger'[w][i - 1] = ledger[w][i - 1]
        <5> SUFFICES ASSUME i # 1 PROVE ledger'[w][i - 1] = ledger[w][i - 1]
          OBVIOUS
        <5>1. i - 1 \in 1..Len(ledger[w])
          BY <1>3
        <5> QED BY <5>1, <1>2, <1>3, <1>6, AppendAt
      <4> QED BY <4>1, <4>2, <1>1 DEF IInv, BalanceFollowsLedger
    <3>3. ASSUME NEW i, i = Len(ledger[w]) + 1
          PROVE  ledger'[w][i].after = ledger'[w][i].delta
                   + (IF i = 1 THEN 0 ELSE ledger'[w][i - 1].after)
      <4>1. ledger'[w][i] = e
        BY <3>3, <1>2, <1>3, <1>6, AppendAt
      <4>2. e.after = e.delta + balance[w]
        BY <1>1, <1>4 DEF NextBalance, IInv, TypeOK
      <4>3. balance[w] = IF i = 1 THEN 0 ELSE ledger'[w][i - 1].after
        <5>1. balance[w] = Total(ledger[w])
          BY <1>1 DEF IInv, BalanceFollowsLedger
        <5>2. CASE i = 1
          BY <3>3, <5>1, <5>2, <1>3 DEF Total
        <5>3. CASE i # 1
          <6>1. ledger[w] # <<>> /\ i - 1 = Len(ledger[w]) /\ i - 1 \in 1..Len(ledger[w])
            BY <3>3, <5>3, <1>3
          <6>2. ledger'[w][i - 1] = ledger[w][Len(ledger[w])]
            BY <6>1, <1>2, <1>3, <1>6, AppendAt
          <6> QED BY <5>1, <5>3, <6>1, <6>2 DEF Total
        <5> QED BY <5>2, <5>3
      <4> QED BY <4>1, <4>2, <4>3
    <3> QED BY SMTT(30), <2>2, <3>1, <3>2, <3>3, <1>2, <1>3, <1>6, AppendAt
  <2> QED BY <2>1, <2>2
<1>10. NeverOverdrawn'
  <2> SUFFICES ASSUME NEW v \in Wallets
               PROVE  /\ balance'[v] >= 0
                      /\ \A i \in 1..Len(ledger'[v]): ledger'[v][i].after >= 0
    BY DEF NeverOverdrawn
  <2>1. CASE v # w
    BY <2>1, <1>6 DEF IInv, NeverOverdrawn
  <2>2. CASE v = w
    <3>1. \A i \in 1..Len(ledger[w]): ledger'[w][i].after >= 0
      BY <1>1, <1>2, <1>3, <1>6, AppendAt DEF IInv, NeverOverdrawn
    <3>2. ledger'[w][Len(ledger[w]) + 1].after >= 0
      BY <1>2, <1>3, <1>4, <1>6, AppendAt
    <3> QED BY <2>2, <3>1, <3>2, <1>2, <1>3, <1>4, <1>6, AppendAt
  <2> QED BY <2>1, <2>2
<1>11. OncePerBooking'
  <2> SUFFICES ASSUME NEW v \in Wallets,
                      NEW i \in 1..Len(ledger'[v]), NEW j \in 1..Len(ledger'[v]),
                      ledger'[v][i].kind = ledger'[v][j].kind,
                      ledger'[v][i].booking = ledger'[v][j].booking
               PROVE  i = j
    BY DEF OncePerBooking
  <2>1. CASE v # w
    BY <2>1, <1>6 DEF IInv, OncePerBooking
  <2>2. CASE v = w
    <3>1. ASSUME NEW k \in 1..Len(ledger[w])
          PROVE  /\ ledger'[w][k] = ledger[w][k]
                 /\ ~ /\ ledger[w][k].kind = post[r].kind
                      /\ ledger[w][k].booking = post[r].booking
      <4>1. ledger'[w][k] = ledger[w][k]
        BY <1>2, <1>3, <1>6, AppendAt
      <4> QED BY <4>1, <1>4 DEF Duplicate, Posted
    <3>2. /\ ledger'[w][Len(ledger[w]) + 1].kind = post[r].kind
          /\ ledger'[w][Len(ledger[w]) + 1].booking = post[r].booking
      BY <1>2, <1>3, <1>6, AppendAt
    <3>3. Len(ledger'[w]) = Len(ledger[w]) + 1 /\ Len(ledger[w]) \in Nat
      BY <1>2, <1>3, <1>6, AppendAt
    <3>4. CASE i \in 1..Len(ledger[w]) /\ j \in 1..Len(ledger[w])
      BY <2>2, <3>1, <3>4, <1>1 DEF IInv, OncePerBooking
    <3>5. CASE i = Len(ledger[w]) + 1 /\ j \in 1..Len(ledger[w])
      BY <2>2, <3>1, <3>2, <3>5
    <3>6. CASE i \in 1..Len(ledger[w]) /\ j = Len(ledger[w]) + 1
      BY <2>2, <3>1, <3>2, <3>6
    <3>7. /\ i \in 1..Len(ledger[w]) \/ i = Len(ledger[w]) + 1
          /\ j \in 1..Len(ledger[w]) \/ j = Len(ledger[w]) + 1
      BY <2>2, <3>3
    <3> QED BY <3>4, <3>5, <3>6, <3>7
  <2> QED BY <2>1, <2>2
<1> QED
  BY <1>7, <1>8, <1>9, <1>10, <1>11 DEF IInv

\* Every step of the specification keeps the invariant.
LEMMA StepInv == IInv /\ [Next]_vars => IInv'
<1> SUFFICES ASSUME IInv, [Next]_vars PROVE IInv'
  OBVIOUS
<1>1. CASE UNCHANGED vars
  <2>1. TypeOK' /\ LockedReadsAreFresh'
    BY <1>1 DEF vars, IInv, TypeOK, LockedReadsAreFresh, RowOf, NextBalance, Signed, Duplicate
  <2> QED BY <1>1, <2>1, TablesUnchanged DEF vars, IInv
<1>2. ASSUME NEW r \in Requests, NEW kind \in Kinds, NEW b \in Bookings,
             NEW amount \in Amounts, Open(r, kind, b, amount)
      PROVE  IInv'
  BY <1>2, OpenInv
<1>3. ASSUME NEW r \in Requests,
             LockAndRead(r) \/ Insert(r) \/ Commit(r)
      PROVE  IInv'
  BY <1>3, LockAndReadInv, InsertInv, CommitInv
<1>4. ASSUME NEW r \in Requests,
             Refuse(r) \/ Conflict(r) \/ Rollback(r)
      PROVE  IInv'
  BY <1>4, FinishInv DEF Refuse, Conflict, Rollback
<1> QED
  BY <1>1, <1>2, <1>3, <1>4 DEF Next

\* Wallet.IInv holds in every reachable state.
THEOREM Invariant == Spec => []IInv
<1> QED
  BY InitInv, StepInv, PTL DEF Spec

\* Rows stay well formed and in the wallet of the booking's client.
THEOREM TypeCorrect == Spec => []TypeOK
<1>1. IInv => TypeOK
  BY DEF IInv
<1> QED
  BY <1>1, Invariant, PTL

\* The cached balance is the ledger's running total, for any number of racing
\* posts on any number of wallets.
THEOREM CacheIsLedger == Spec => []BalanceFollowsLedger
<1>1. IInv => BalanceFollowsLedger
  BY DEF IInv
<1> QED
  BY <1>1, Invariant, PTL

\* No interleaving of debits takes a wallet below zero.
THEOREM NoOverdraft == Spec => []NeverOverdrawn
<1>1. IInv => NeverOverdrawn
  BY DEF IInv
<1> QED
  BY <1>1, Invariant, PTL

\* A booking is debited at most once and refunded to credit at most once.
THEOREM NoDoublePost == Spec => []OncePerBooking
<1>1. IInv => OncePerBooking
  BY DEF IInv
<1> QED
  BY <1>1, Invariant, PTL

\* What a request read under the row lock is still true when it writes.
THEOREM FreshReads == Spec => []LockedReadsAreFresh
<1>1. IInv => LockedReadsAreFresh
  BY DEF IInv
<1> QED
  BY <1>1, Invariant, PTL

\* A statement-level step is an atomic post or leaves the tables alone.
LEMMA StepRefines ==
  IInv /\ [Next]_vars => [Abstract!Next]_<<ledger, balance>>
<1> SUFFICES ASSUME IInv, [Next]_vars, ~UNCHANGED <<ledger, balance>>
             PROVE  Abstract!Next
  OBVIOUS
<1>1. PICK r \in Requests: Commit(r)
  BY DEF Next, vars, Open, LockAndRead, Refuse, Insert, Conflict, Rollback
<1>2. /\ post[r].booking \in Bookings /\ post[r].amount \in Amounts
      /\ post[r].kind \in Kinds /\ NextBalance(r) >= 0 /\ ~Duplicate(r)
      /\ post[r].seen = balance[RowOf(r)]
  BY <1>1, InTransaction DEF Commit, IInv, LockedReadsAreFresh
<1>3. Abstract!Post(post[r].kind, post[r].booking, post[r].amount)
  BY <1>1, <1>2
     DEF Abstract!Post, Abstract!Delta, Abstract!Posted, Commit, Duplicate, Posted,
         RowOf, NextBalance, Signed, Delta
<1> QED
  BY <1>2, <1>3 DEF Abstract!Next, Abstract!Kinds, Kinds

\* The statement-level transaction implements the atomic ledger.
THEOREM Refinement == Spec => ImplementsLedger
<1>1. Init => Abstract!Init
  BY DEF Init, Abstract!Init
<1> QED
  BY <1>1, Invariant, StepRefines, PTL DEF Spec, ImplementsLedger, Abstract!Spec
=============================================================================
