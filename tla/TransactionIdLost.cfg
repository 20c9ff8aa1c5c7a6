\* A transaction lands, its receipt or its account ID does not arrive.
SPECIFICATION Spec
CONSTANTS
    c1 = c1
    both = both
    other = other
    afterOnly = afterOnly
    Calls <- MCCalls
    Listeners <- MCListeners
    HasBefore <- MCHasBefore
    HasAfter <- MCHasAfter
    MaxListeners = 0
    MaxCuts = 0
INVARIANT ErrorsCarryTransactionId
CHECK_DEADLOCK FALSE
