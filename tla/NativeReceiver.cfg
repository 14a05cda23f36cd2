SPECIFICATION Spec
CONSTANTS
  Sizes <- MCSizes
  CHK = 16
  MARKER_INTERVAL = 2
  TEXT_ID_INTERVAL = 2
  TextSlots = 3
  Lag = 2
  ListenSlots = 4
  OrphanTTL = 8
  OrphanCap = 3
  Fallback = 8
  Retries = 2
  Restarts = FALSE
  MaxForgets = 1
CHECK_DEADLOCK FALSE
INVARIANTS
  TypeOK
  DeliveredWhole
  PassedMeansHeld
  ReAckLands
  LocksEvicted
