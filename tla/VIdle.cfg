\* Nothing plays, and Play only queues
SPECIFICATION Spec
CONSTANTS
  Targets  <- MediaOnly
  Activity <- JustPlay
  Faults   <- PlayFails
  Patient  = TRUE
  MaxItems = 1
  MaxLoads = 1
  MaxMore  = 1
CHECK_DEADLOCK FALSE
INVARIANT NothingPlaysMeansIdle
