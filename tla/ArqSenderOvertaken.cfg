SPECIFICATION Spec
CONSTANTS
  Peers = {p1}
  ACK_SEQ_MODULUS = 3
  MSG_ID_MAX = 3
  MAX_CHUNKS = 2
  DEFAULT_MAX_RETRIES = 1
  ClientWaits = FALSE
  MaxMsgs = 2
  MaxCallbacks = 0
  MaxRestarts = 0
CHECK_DEADLOCK TRUE
INVARIANT
  OwnPayload
