\* The queue's file and its broadcast, with lookups and a restart
SPECIFICATION Spec
CONSTANTS
  Targets     = {"media"}
  MaxItems    = 3
  MaxCrashes  = 1
  FileMayFail = TRUE
CHECK_DEADLOCK FALSE
INVARIANTS
  TypeOK
  TitlesBelong
  FileIsCurrent
  FeedHasItems
