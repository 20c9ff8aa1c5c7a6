\* Four requests compete for two slots, so that two can be queued behind two
\* holders, handed over together, and overtaken if the code allowed it.
\* Starts are two ticks apart and the clock idles at 3 unless someone sleeps.
SPECIFICATION Spec
CONSTANTS
    r1 = r1
    r2 = r2
    r3 = r3
    r4 = r4
    Requests <- MCRequests
    MaxConcurrent = 2
    Interval = 2
    MaxTime = 3
INVARIANTS
    TypeOK
    SlotDiscipline
    ReservationSpacing
    SustainedRate
PROPERTIES
    FirstComeFirstServed
    EveryRequestSettles
    ImplementsPool
\* Every request may have finished and the clock may have reached its bound.
CHECK_DEADLOCK FALSE
