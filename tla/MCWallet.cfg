CONSTANTS
  b1 = b1
  b2 = b2
  b3 = b3
  wa = wa
  wb = wb
  r1 = r1
  r2 = r2
  NoOne = NoOne
  Bookings <- MCBookings
  Wallets <- MCWallets
  WalletOf <- MCWalletOf
  Amounts <- MCAmounts
  Requests <- MCRequests
SPECIFICATION Spec
SYMMETRY Symmetry
INVARIANTS BalanceFollowsLedger NeverOverdrawn
PROPERTY ImplementsLedger
