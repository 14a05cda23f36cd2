SPECIFICATION Spec
CONSTANTS
  ACK_SEQ_MODULUS = 3
  MSG_ID_MAX = 2
  MAX_CHUNKS = 3
  Messages <- TwoLong
  InOrder = TRUE
  Confirmation = TRUE
  MaxPending = 1
  MaxForgets = 1
CHECK_DEADLOCK TRUE
INVARIANT
  AnswerDecidesOwnTransfer
