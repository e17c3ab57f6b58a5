SPECIFICATION Spec
CONSTANTS
  a1 = a1
  a2 = a2
  o1 = o1
  o2 = o2
  n1 = n1
  n2 = n2
  w1 = w1
  w2 = w2
  None = None
  Apps <- TwoApps
  InitialStatuses <- Accepted
  Officers <- TwoOfficers
  Numbers <- TwoNumbers
  Workers <- TwoWorkers
  MaxRequests = 5
  MaxHand = 1
  MaxFailures = 1
SYMMETRY Interchangeable
CHECK_DEADLOCK FALSE
INVARIANT RecordsAgree
INVARIANT CompletedHasOutcome
INVARIANT StatusesFollow
PROPERTY OutcomeStands
