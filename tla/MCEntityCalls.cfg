SPECIFICATION Spec
CONSTANTS
    MaxCalls = 3
    MaxOdd = 1
    Tried <- OneOdd
INVARIANTS
    TypeOK
    CarriedOut
    ReadsBack
    ToldTruly
