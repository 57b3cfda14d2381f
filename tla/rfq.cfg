SPECIFICATION FairSpec
CONSTANTS
  g1 = g1  g2 = g2  r1 = r1  r2 = r2
  Worker = Worker
  Goals = {g1, g2}
  Replies = {r1, r2}
  ReplyTo <- PairToOne
  MinQuotes = 2
  Chat = {}
  Unclear = {g2}
  NoChannel = {}
  Faults = {}
INVARIANTS
  TypeOK
  OneCard
  CardMatchesGoal
  RepliesRankEnough
PROPERTIES
  NotStuckWithQuotes
  SilenceTimesOut
  NoSilentStall
