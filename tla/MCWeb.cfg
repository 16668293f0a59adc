\* The browser engine's life, with every fault
SPECIFICATION FairSpec
CONSTANTS
  MaxEngines    = 3
  MaxGeneration = 6
  Faults        <- AllFaults
CHECK_DEADLOCK FALSE
INVARIANTS
  TypeOK
  OneEngine
PROPERTIES
  ImplementsSlot
  ControllerReturns
  CrashNoticed
