SPECIFICATION Spec
CONSTANTS
  Peers = {p1, p2}
  ACK_SEQ_MODULUS = 3
  MSG_ID_MAX = 2
  MAX_CHUNKS = 2
  DEFAULT_MAX_RETRIES = 1
  ClientWaits = TRUE
  MaxMsgs = 2
  MaxCallbacks = 1
  MaxRestarts = 1
CHECK_DEADLOCK TRUE
INVARIANTS
  SenderTypeOK
  NeverStranded
  OneReportPerSend
  OwnPayload
  RetriesAired
  IInv
PROPERTIES
  EverySendEnds
