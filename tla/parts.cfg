SPECIFICATION PartsSpec
CONSTANTS
  r1 = r1  r2 = r2  r3 = r3
  l1 = l1  l2 = l2  c1 = c1  c2 = c2
  g1 = g1  g2 = g2  o1 = o1  o2 = o2  o3 = o3
  t1 = t1  t2 = t2  p1 = p1  p2 = p2  h1 = h1  none = none
  Requests = {r1, r2, r3}
  Chain <- Mixed
  Override <- IntentByHaiku
  Quotes = {r2}
  Json = {r1, r2}
  Gated = {r1, r2}
  FailureThreshold = 2
  Solid = {"openai"}
  MaxWaves = 1
  Links = {l1, l2}
  Owner <- Owners
  Decided = {g1, g2}
  Clicks = {c1, c2}
  NoLink = none
  Runners = {p1, p2, h1}
  LastFile = 4
  Hooks = {h1}
  Goals = {g1, g2}
  NoGoal = none
  Said <- Messages
  Rows = {o1, o2, o3}
  Signals <- RowSignals
  Tappers = {t1, t2}
  MinOrders = 2
  Payers = {p1, p2}
  Orders = {o1, o2}
INVARIANTS
  OutageIsShed
  SolidServes
  DecidedOnce
  DecidedByItsLink
  RoutedByContent
  LatestReadingStands
  PrefixApplied
  SettledOnce
PROPERTIES
  TapsMoveScore
CHECK_DEADLOCK FALSE
