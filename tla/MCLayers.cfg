\* Fades, spinner and clock of three actors and their threads
SPECIFICATION FairSpec
CONSTANTS
  FadeSteps   = 2
  MaxCommands = 3
CHECK_DEADLOCK FALSE
INVARIANTS
  TypeOK
  NothingLeftBehind
  SpinnerOnBlack
PROPERTIES
  OneStrayEach
  ClockHeals
  SpinnerTurns
