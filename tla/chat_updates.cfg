SPECIFICATION FairSpec
CONSTANTS
  t1 = t1  t2 = t2  p1 = p1  p2 = p2
  snacks = snacks  water = water
  A = A  B = B  C = C  pA = pA  pB = pB
  NoPlace = NoPlace  NoName = NoName
  Known <- Rated
  Within <- Names
  Turns = {t1}
  Polls = {p1, p2}
  Plans <- PollPlans
  Requirements <- OneSearch
  Listings <- OneResult
  Assessments <- Risky
  Recommendations = {NoName}
  Picks = {NoName}
  TopN = 3
  TestRecipient = FALSE
  ToolsMayRaise = FALSE
  Course <- Ranked
  MaxMessages = 1
  MaxRounds = 1
  MaxGoals = 2
  MaxQuotes = 1
  MaxFailures = 1
INVARIANTS
  NoQuoteSkipped
PROPERTIES
  QuotesAnnounced
  RankingAnnounced
CHECK_DEADLOCK FALSE
