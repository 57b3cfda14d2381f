SPECIFICATION FairSpec
CONSTANTS
  o1 = o1  o2 = o2
  Orders = {o1, o2}
  Confirms = {k1}
  Denials = {d1}
  Taps = {t1}
  Worker = Worker
  OrderOf <- AllOnFirst
  Courier = TRUE
  MaxFaults = 1
INVARIANTS
  TypeOK
PROPERTIES
  ImplementsPromise
  TransitStarts
  DeliveredIsRated
