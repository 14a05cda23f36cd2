SPECIFICATION Spec
CONSTANTS
  Receiver = b
  ACK_SEQ_MODULUS = 3
  MSG_ID_MAX = 2
  MAX_CHUNKS = 2
  Sizes = {1, 2}
  DEFAULT_MAX_RETRIES = 1
  Foreign = {1, 2, 3}
  DrainFirst = TRUE
  MaxMsgs = 1
  MaxInFlight = 2
  MaxForgets = 0
CHECK_DEADLOCK TRUE
INVARIANT
  CompleteMeansDelivered
