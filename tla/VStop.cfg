\* The queue advances after a Stop
SPECIFICATION Spec
CONSTANTS
  Targets  <- MediaOnly
  Activity <- Unattended
  Faults   <- NoFaults
  Patient  = FALSE
  MaxItems = 2
  MaxLoads = 2
  MaxMore  = 1
CHECK_DEADLOCK FALSE
PROPERTY StopHolds
