\* One queue too large for a frame, and the connection is pushed nothing any more
SPECIFICATION Spec
CONSTANTS
  Senders     = {s1}
  Stalled     = {}
  Asks        = {"long"}
  Buffer      = 1
  MaxInFrame  = 1
  MaxRequests = 1
CHECK_DEADLOCK FALSE
INVARIANT PushLives
