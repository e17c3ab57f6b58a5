CONSTANTS
  i1 = i1
  i2 = i2
  w1 = w1
  w2 = w2
  x1 = x1
  x2 = x2
  None = None
  Intents <- TwoIntents
  Workers <- TwoWorkers
  CardTotal = 26
  WalletPrice = 23
  IsLia = TRUE
  Refunds <- TwoRefunds
  MaxFailures = 1
SPECIFICATION Spec
CHECK_DEADLOCK FALSE
SYMMETRY Symmetry
INVARIANTS TypeOK CreditWithinPaid SpentOnce RefundBasisExists RefundRowTruthful OneLiveRefund
PROPERTY NoUncreditedEnd
