CONSTANTS
  PollLimit = 3
  TasksFail = TRUE
SPECIFICATION FairSpec
INVARIANTS OneTransfer CheckStatusIsTemporary OtaInv
PROPERTIES OutcomeReported CheckAnswered
