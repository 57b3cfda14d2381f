SPECIFICATION FairSpec
CONSTANTS
  g1 = g1  g2 = g2  c1 = c1  c2 = c2  c3 = c3  c4 = c4
  Goals = {g1, g2}
  Clicks = {c1, c3, c4}
  GoalOf <- RejectGoalOf
  Rejects = {c3}
  Price <- RacePrice
  Limit = 4
  Wired = FALSE
  SlowPayments = FALSE
  Faults = {"crash"}
  NoClick = NoClick
CHECK_DEADLOCK FALSE
PROPERTIES
  ClicksReturn
  BudgetFreed
