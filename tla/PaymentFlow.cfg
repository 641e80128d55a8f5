SPECIFICATION Spec
CONSTANTS
    Request = {r1, r2}
    Limit = 1
    MaxCrash = 1
SYMMETRY RequestSymmetry
INVARIANT TrailsAgree
PROPERTY KeepsPromise
CHECK_DEADLOCK FALSE
