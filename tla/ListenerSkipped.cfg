\* A listener removed while its successor waits to be notified.
SPECIFICATION Spec
CONSTANTS
    c1 = c1
    both = both
    other = other
    afterOnly = afterOnly
    Calls <- MCCalls
    Listeners <- MCListeners
    HasBefore <- MCHasBefore
    HasAfter <- MCHasAfter
    MaxListeners = 2
    MaxCuts = 1
INVARIANT EveryListenerHears
CHECK_DEADLOCK FALSE
