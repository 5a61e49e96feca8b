CONSTANTS
  Items = {i1, i2}
  Nullopt = nullopt
  MaxPushes = 4
SPECIFICATION FairSpec
INVARIANTS TypeOK NoLostWakeup PopBlockingHasItem
PROPERTIES ImplementsFifo PopReturns
