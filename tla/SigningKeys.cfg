SPECIFICATION Spec
CONSTANTS
    Keys = {k1, k2, k3}
    Lifetimes <- MCLifetimes
    MaxLifetime = 3
    Grace = 3
    MaxTime = 6
    None = None
SYMMETRY Symmetry
CHECK_DEADLOCK FALSE
INVARIANTS
    OneActiveKey
    PublishedWhileValid
