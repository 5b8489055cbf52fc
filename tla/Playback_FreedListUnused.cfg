CONSTANT Requests <- DataRequests
SPECIFICATION Spec
INVARIANT FreedListUnused
CHECK_DEADLOCK FALSE
