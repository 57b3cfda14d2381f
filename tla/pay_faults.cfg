SPECIFICATION Spec
CONSTANTS
  g1 = g1  g2 = g2  c1 = c1  c2 = c2  c3 = c3  c4 = c4
  Goals = {g1, g2}
  Clicks = {c1, c2, c4}
  GoalOf <- TwiceGoalOf
  Rejects = {}
  Price <- RacePrice
  Limit = 4
  Wired = TRUE
  SlowPayments = TRUE
  Faults = {"error", "crash"}
  NoClick = NoClick
CHECK_DEADLOCK FALSE
INVARIANTS
  TypeOK
  SinglePayment
  PaidGoalIsClosed
  LedgerWithinBudget
  AnswersMatchMoney
PROPERTIES
  PaysCurrentOption
