CONSTANTS
  Programs <- AllTracks
  Lines = {0, 2}
  CountLimit = 12
SPECIFICATION FairSpec
INVARIANTS FrozenIsWaiting PlaysItsTime FirstWaitRepeated
PROPERTIES RepeatedAsOften TickDescends TrackDescends TickReturns TrackFinishes
CHECK_DEADLOCK FALSE
