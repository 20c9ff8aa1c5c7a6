CONSTANTS
    MaxAmountDigits = 3
    MaxExpansionExponent = 4
    NanoDigits = 2
    MsPerSecond = 10
    MaxSafe = 31
    QuoteDigits = 2
    Bodies <- MCBodies
    Typed <- MCTyped
    Times <- MCTimes
    Stamps <- MCStamps
SPECIFICATION Spec
INVARIANTS
    DigitsKept
    UnitsExact
CHECK_DEADLOCK FALSE
