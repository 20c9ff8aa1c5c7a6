\* Two requests share one slot, so that one queues behind the retries of the
\* other; three attempts each, with the backoff capped from the second on.
\* The rate limit is off here (MCRequestGate covers it).
SPECIFICATION Spec
CONSTANTS
    r1 = r1
    r2 = r2
    Requests <- MCRequests
    ViaView <- MCViaView
    MaxConcurrent = 1
    Interval = 0
    MaxTime = 0
    MaxRetries = 2
    BackoffCap = 1
    Responses <- MCResponses
INVARIANTS
    TypeOK
    OneSlotPerRequest
    OutcomeIsFinalAttempts
    EndEventTellsOutcome
PROPERTIES
    EveryRequestEnds
\* Every request may have ended.
CHECK_DEADLOCK FALSE
