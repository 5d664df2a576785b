SPECIFICATION Spec
CONSTANTS
    Requests = {r1, r2, r3, r4}
    Rules = {rule}
    NoRule = NoRule
    Limits = {1, 2, 3}
SYMMETRY RequestSymmetry
INVARIANTS
    TypeOK
    NewestKept
PROPERTY
    DroppedOnlyWhenFull
