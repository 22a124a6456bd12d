SPECIFICATION FairSpec
CONSTANTS
  Automatic = FALSE
  MaxRestarts = 0
  MaxFaults = 1
CHECK_DEADLOCK FALSE
PROPERTIES StopIsHeard EndsTogether
