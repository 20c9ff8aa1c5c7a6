\* Two calls on the same file, every pair of the option records: each call may
\* land, fail, be late or go unanswered at either of its transactions, and the
\* other's land in between.
SPECIFICATION Spec
CONSTANTS
    w1 = w1
    w2 = w2
    shared = shared
    nobody = nobody
    alice = alice
    Callers <- MCCallers
    Options <- MCOptions
    Shared <- shared
    NoAccount <- nobody
    MaxBytes = 2
    ChunkBytes = 1
    MaxChunks = 2
INVARIANTS
    TypeOK
    WholeWhenResolved
    TailFollowsHead
    ErrorsTellTruly
\* Settled calls leave nothing to do.
CHECK_DEADLOCK FALSE
