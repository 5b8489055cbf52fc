CONSTANTS
  MaxRetry = 1
  MaxEvents = 4
SPECIFICATION FairSpec
PROPERTY ConnectedIsShown
CHECK_DEADLOCK FALSE
