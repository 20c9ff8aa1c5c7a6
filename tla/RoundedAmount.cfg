\* The normalisers of Units.ts take a fraction that JSON.parse rounded to an
\* integer for an exact amount.
CONSTANTS
    MaxAmountDigits = 3
    MaxExpansionExponent = 4
    NanoDigits = 2
    MsPerSecond = 10
    MaxSafe = 31
    QuoteDigits = 2
    Bodies <- MCFractions
    Typed <- MCTyped
    Times <- MCTimes
    Stamps <- MCStamps
SPECIFICATION Spec
INVARIANTS
    OnlyExactPassed
CHECK_DEADLOCK FALSE
