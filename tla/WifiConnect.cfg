CONSTANTS
  MaxRetry = 5
  MaxEvents = 4
SPECIFICATION FairSpec
INVARIANTS WifiInv NoAbort KeepsTrying NobodyWaitsInVain
PROPERTY MainGoesOn
CHECK_DEADLOCK FALSE
