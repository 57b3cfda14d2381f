SPECIFICATION FairSpec
CONSTANTS
  g1 = g1  g2 = g2  r1 = r1  r2 = r2
  Worker = Worker
  Goals = {g1}
  Replies = {r1}
  ReplyTo <- SoleReply
  MinQuotes = 2
  Chat = {}
  Unclear = {}
  NoChannel = {}
  Faults = {"crash"}
PROPERTIES
  QuotedGoalMovesOn
