\* Racing casts, and calls that fail
SPECIFICATION Spec
CONSTANTS
  Targets  <- ProbeOrPage
  Activity <- Replacing
  Faults   <- Refusals
  Patient  = FALSE
  MaxItems = 2
  MaxLoads = 3
  MaxMore  = 1
CHECK_DEADLOCK FALSE
INVARIANTS
  PageExcludesMedia
  PageIsWanted
  ErrorFindsLoadKnown
PROPERTY
  ImplementsArbiter
