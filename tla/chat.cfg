SPECIFICATION Spec
CONSTANTS
  t1 = t1  t2 = t2  p1 = p1  p2 = p2
  snacks = snacks  water = water
  A = A  B = B  C = C  pA = pA  pB = pB
  NoPlace = NoPlace  NoName = NoName
  Known <- Rated
  Within <- Names
  Turns = {t1, t2}
  Polls = {}
  Plans <- ToolPlans
  Requirements <- Searches
  Listings <- Results
  Assessments <- Risky
  Recommendations = {NoName, A}
  Picks = {NoName, "all"}
  TopN = 3
  TestRecipient = FALSE
  ToolsMayRaise = TRUE
  Course = {}
  MaxMessages = 2
  MaxRounds = 2
  MaxGoals = 2
  MaxQuotes = 0
  MaxFailures = 0
INVARIANTS
  RfqMatchesSearch
  HighRiskOnlyOnRequest
SYMMETRY AnyTurn
CHECK_DEADLOCK FALSE
