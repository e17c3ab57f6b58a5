\* One reminder, two overlapping sweeps, three attempts and one crash.
CONSTANTS
  s1 = s1
  s2 = s2
  Kinds <- OneKind
  Dispatches <- TwoDispatches
  MaxAttempts = 3
  MaxCrashes = 1
SPECIFICATION EmailsFairSpec
CHECK_DEADLOCK FALSE
INVARIANT SentWasAccepted
PROPERTY DeliveryEnds
