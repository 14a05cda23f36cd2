SPECIFICATION FairSpec
CONSTANTS
  a = a
  b = b
  t1 = t1
  t2 = t2
  Peers = {a, b}
  Transfers = {t1, t2}
  Peer <- PeerOf
  Kind <- KindOf
  NoTransfer = NoTransfer
  OperatorWaits = TRUE
CHECK_DEADLOCK TRUE
INVARIANTS
  TypeOK
  WindowLive
  LockHasEnd
  Covered
  Accounted
  FormsNeverV1
  IInv
PROPERTIES
  WaitsForLastQuery
  EveryTransferEnds
