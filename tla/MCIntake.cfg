CONSTANTS
  a1 = a1
  a2 = a2
  ad = ad
  mail = mail
  r1 = r1
  r2 = r2
  None = None
  Answers <- TwoAnswers
  Columns <- ThreeColumns
  LeadColumns <- UtmColumns
  Values <- TwoCampaigns
  Touches <- TwoVisits
  Requests <- TwoRequests
  MaxRequests = 4
SPECIFICATION IntakeSpec
CHECK_DEADLOCK FALSE
SYMMETRY Interchangeable
PROPERTIES ScoreMatchesAnswers NotFragmented FirstTouchStays MovedByHand
