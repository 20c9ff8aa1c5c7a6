\* The listing may change twice, at any moment: a row before, inside and
\* behind the window, the head key itself included.
SPECIFICATION Spec
CONSTANTS
    Keys <- MCKeys
    MaxLimit = 2
    MaxChanges = 2
INVARIANTS
    TypeOK
    FlagsHonest
    PagesAligned
PROPERTY PagesAdjoin
