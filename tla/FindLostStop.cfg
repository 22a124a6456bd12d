SPECIFICATION Spec
CONSTANTS
  Automatic = FALSE
  MaxRestarts = 0
  MaxFaults = 1
CHECK_DEADLOCK FALSE
INVARIANT NoChildLeft
