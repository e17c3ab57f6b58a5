CONSTANTS
  f1 = f1
  f2 = f2
  f3 = f3
  g1 = g1
  g2 = g2
  l1 = l1
  ann = ann
  bob = bob
  lia = lia
  cons = cons
  r1 = r1
  r2 = r2
  None = None
  Bookings <- GapPair
  TypeOf <- MCTypeOf
  ClientOf <- MCClientOf
  Advisers <- OneAdviser
  Pool <- MCPool
  Dur <- MCDur
  Hours <- MovedWindow
  Horizon = 2
  Requests <- TwoRequests
  MaxSessions = 1
  MaxCrashes = 0
SPECIFICATION Spec
CHECK_DEADLOCK FALSE
INVARIANTS SameTypeNeverOverlaps PaidUnconfirmedLostSlot
PROPERTY HoldsApart
SYMMETRY PairSymmetry
