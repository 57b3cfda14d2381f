SPECIFICATION FairSpec
CONSTANTS
  Goals = {g1}
  Procs = {p1, p2}
  States <- MCStates
  Edges <- MCEdges
  NoState = NoState
  SlowHolders = FALSE
  Faults = {"error", "crash"}
INVARIANTS
  TypeOK
  MutualExclusion
  SuccessIsMirrored
PROPERTIES
  ImplementsCas
  LockFreed
  CallsReturn
