SPECIFICATION Spec
CONSTANTS
  g1 = g1  g2 = g2  r1 = r1  r2 = r2
  Worker = Worker
  Goals = {g1, g2}
  Replies = {r1}
  ReplyTo <- SoleReply
  MinQuotes = 1
  Chat = {g2}
  Unclear = {}
  NoChannel = {g2}
  Faults = {"error", "crash", "restart"}
INVARIANTS
  PendingMeansAsked
