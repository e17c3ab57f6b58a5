CONSTANTS
  i1 = i1
  i2 = i2
  w1 = w1
  w2 = w2
  x1 = x1
  x2 = x2
  None = None
  Intents <- OneIntent
  Workers <- OneWorker
  CardTotal = 26
  WalletPrice = 23
  IsLia = FALSE
  Refunds <- TwoRefunds
  MaxFailures = 0
SPECIFICATION Spec
CHECK_DEADLOCK FALSE
INVARIANTS MoneyIntegrity
