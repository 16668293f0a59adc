\* Two senders, one of which stops reading; a queue that outgrows a frame
SPECIFICATION FairSpec
CONSTANTS
  Senders     = {s1, s2}
  Stalled     = {s2}
  Asks        = {"queue", "play", "long", "fails", "longFails", "clear", "garbage"}
  Buffer      = 1
  MaxInFrame  = 1
  MaxRequests = 2
CHECK_DEADLOCK FALSE
INVARIANTS
  TypeOK
  RepliesInTurn
  EndsForCause
PROPERTIES
  ReadersAnswered
