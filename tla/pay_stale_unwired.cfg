SPECIFICATION FairSpec
CONSTANTS
  g1 = g1  g2 = g2  c1 = c1  c2 = c2  c3 = c3  c4 = c4
  Goals = {g1}
  Clicks = {c1}
  GoalOf <- SoloGoalOf
  Rejects = {}
  Price <- SoloPrice
  Limit = 4
  Wired = FALSE
  SlowPayments = FALSE
  Faults = {}
  NoClick = NoClick
CHECK_DEADLOCK FALSE
PROPERTIES
  StaleGoesBack
