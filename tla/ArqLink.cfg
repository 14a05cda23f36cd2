SPECIFICATION Spec
CONSTANTS
  Receiver = b
  ACK_SEQ_MODULUS = 3
  MSG_ID_MAX = 2
  MAX_CHUNKS = 4
  Sizes = {1, 4}
  DEFAULT_MAX_RETRIES = 1
  Foreign = {}
  DrainFirst = TRUE
  MaxMsgs = 2
  MaxInFlight = 2
  MaxForgets = 1
CHECK_DEADLOCK TRUE
INVARIANTS
  CompleteMeansDelivered
  NoFalseAdvance
PROPERTIES
  ImplementsReliableMessages
