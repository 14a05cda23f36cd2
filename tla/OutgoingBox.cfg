SPECIFICATION FairSpec
CONSTANTS
  draft = draft
  forward = forward
  answer = answer
  beacon = beacon
  Ack = Ack
  Drafts = {draft}
  Messages = {forward, answer}
  Reply = Ack
  NoText = NoText
  Frames <- FramesOf
  Priority <- PriorityOf
  High = 1000
  AutoReplies = {answer}
  MaxReplies = 2
CHECK_DEADLOCK TRUE
INVARIANTS
  TypeOK
  ShownIsSent
  NoneSkipped
  DeadTextNeverParks
  DraftKept
  IdleMeansSent
PROPERTIES
  ArmedEnds
  LockOpens
  DraftReturns
