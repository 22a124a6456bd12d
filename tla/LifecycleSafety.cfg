SPECIFICATION Spec
CONSTANTS
  Automatic = TRUE
  MaxRestarts = 1
  MaxFaults = 1
CHECK_DEADLOCK FALSE
INVARIANTS TypeOK StoppedMeansClean FailureShown
PROPERTY ImplementsSupervision
