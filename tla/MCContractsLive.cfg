CONSTANTS
  s1 = s1
  s2 = s2
  k1 = k1
  k2 = k2
  w1 = w1
  w2 = w2
  lia1 = lia1
  lia2 = lia2
  adm = adm
  fin = fin
  con = con
  sup = sup
  None = None
  Cases <- OneCase
  Submissions <- OneSubmission
  Staff <- Trio
  RoleOf <- MCRoleOf
  Hired <- MCHired
  Speaks <- MCSpeaks
  ClientLanguage = "vi"
  LeadOwner = None
  Workers <- OneWorker
  Providers <- Both
  Accounts <- AnyClient
  MaxMishaps = 2
  Flags = {TRUE}
SPECIFICATION FairSpec
CHECK_DEADLOCK FALSE

INVARIANT RestIsServed
PROPERTY SignedIsServed
