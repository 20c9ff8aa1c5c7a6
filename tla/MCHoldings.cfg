\* Every pair of calls, from a network that holds a little of everything and
\* from one where a token is paused and an account frozen; scheduled
\* transactions execute at any time or never.
SPECIFICATION Spec
CONSTANTS
    treasury = treasury
    alice = alice
    bob = bob
    hbar = hbar
    coin = coin
    art = art
    absent = absent
    Accounts <- MCAccounts
    Treasury <- treasury
    Hbar <- hbar
    Fungibles <- MCFungibles
    Collections <- MCCollections
    MaxSerial = 3
    Decimals = 0
    Absent <- absent
    Options <- MCOptions
    MaxCalls = 2
    Starts <- MCStarts
INVARIANTS
    TypeOK
    NothingMalformedSent
    SpendersWereApproved
PROPERTIES
    EffectAsAsked
\* The services stop when no call is left.
CHECK_DEADLOCK FALSE
