\* Uploads, tags and picks, with crashes and failing writes
SPECIFICATION FairSpec
CONSTANTS
  MaxImages  = 3
  MaxCrashes = 1
  MaxTags    = 3
  Faults     <- AllFaults
CHECK_DEADLOCK FALSE
INVARIANTS
  TypeOK
  EntriesHaveFiles
  ToldIsKept
PROPERTIES
  RotationChanges
  NextIsServed
