SPECIFICATION Spec
INVARIANT ObservedRejectionRevokes
CHECK_DEADLOCK FALSE
