\* Up to three registrations, the same listener perhaps twice; two removals of
\* listeners already walked within one emission.
SPECIFICATION Spec
CONSTANTS
    c1 = c1
    both = both
    other = other
    afterOnly = afterOnly
    Calls <- MCCalls
    Listeners <- MCListeners
    HasBefore <- MCHasBefore
    HasAfter <- MCHasAfter
    MaxListeners = 3
    MaxCuts = 2
INVARIANTS
    TypeOK
    AnswerMatchesChain
    EventMatchesAnswer
    OverlooksOnlyByRemoval
PROPERTIES
    EveryCallSettles
    ImplementsLedger
\* Settled calls and a full listener array leave nothing to do.
CHECK_DEADLOCK FALSE
