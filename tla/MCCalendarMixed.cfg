CONSTANTS
  f1 = f1
  f2 = f2
  f3 = f3
  g1 = g1
  g2 = g2
  l1 = l1
  ann = ann
  bob = bob
  lia = lia
  cons = cons
  r1 = r1
  r2 = r2
  None = None
  Bookings <- FreeAndLia
  TypeOf <- MCTypeOf
  ClientOf <- MCClientOf
  Advisers <- OneAdviser
  Pool <- MCPool
  Dur <- MCDur
  Hours <- LongWindow
  Horizon = 2
  Requests <- TwoRequests
  MaxSessions = 1
  MaxCrashes = 1
SPECIFICATION FairSpec
CHECK_DEADLOCK FALSE
PROPERTIES SessionsApart LiveHoldKept HoldsEnd
