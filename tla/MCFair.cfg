\* Spinners and last frames under fairness
SPECIFICATION FairSpec
CONSTANTS
  Targets  <- ProbeOrPage
  Activity <- Unattended
  Faults   <- SingleFiles
  Patient  = FALSE
  MaxItems = 3
  MaxLoads = 6
  MaxMore  = 1
CHECK_DEADLOCK FALSE
INVARIANT SpinnerHasCause
PROPERTIES
  SpinnerEnds
  FrozenFrameEnds
