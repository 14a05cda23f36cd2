SPECIFICATION Spec
CONSTANTS
  draft = draft
  forward = forward
  answer = answer
  beacon = beacon
  Ack = Ack
  Drafts = {draft}
  Messages = {forward, beacon}
  Reply = Ack
  NoText = NoText
  Frames <- FramesOf
  Priority <- PriorityOf
  High = 1000
  AutoReplies = {}
  MaxReplies = 2
CHECK_DEADLOCK TRUE
PROPERTIES
  PriorityFirst
