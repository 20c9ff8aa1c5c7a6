CONSTANTS
    Rows = 4
    PageSize = 2
    Unlimited = 1000
SPECIFICATION Spec
INVARIANTS
    TypeOK
    AnswersFaithful
    FiltersSent
    WalkExact
CHECK_DEADLOCK FALSE
