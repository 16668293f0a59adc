\* One sender with its push task and replies, a watcher publishing beside it
SPECIFICATION FairSpec
CONSTANTS
  Senders    = {s1}
  Commanding = {s1}
  Watchers   = {w1}
  Quiet      = {"idle"}
  MaxChanges = 3
  MaxTime    = 3
CHECK_DEADLOCK FALSE
INVARIANTS
  TypeOK
  RepliesArrive
PROPERTIES
  TickEnds
  PublishedReaches
