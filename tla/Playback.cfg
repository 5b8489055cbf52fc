CONSTANT Requests <- AllRequests
SPECIFICATION FairSpec
INVARIANTS ArmedWhilePlaying ListsFitTogether PlaybackInv
PROPERTY RequestObeyed
CHECK_DEADLOCK FALSE
