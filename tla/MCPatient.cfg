\* Senders that let the watchers catch up
SPECIFICATION Spec
CONSTANTS
  Targets  <- AllTargets
  Activity <- AllActivity
  Faults   <- LoadMishaps
  Patient  = TRUE
  MaxItems = 2
  MaxLoads = 3
  MaxMore  = 1
CHECK_DEADLOCK FALSE
INVARIANTS
  TypeOK
  ClockNeverOverCast
  PositionInQueue
  ScreenIsCurrentItem
PROPERTY
  RotationNeverClobbers
