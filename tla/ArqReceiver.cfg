SPECIFICATION Spec
CONSTANTS
  ACK_SEQ_MODULUS = 2
  MSG_ID_MAX = 2
  MAX_CHUNKS = 3
  Messages <- TwoLong
  InOrder = FALSE
  Confirmation = TRUE
  MaxPending = 2
  MaxForgets = 1
CHECK_DEADLOCK TRUE
INVARIANTS
  TypeOK
  DeliveredWhole
  AtMostOnce
  LocksHaveTimers
  HeldMeansAsked
  IInv
PROPERTIES
  AckMeansKept
