SPECIFICATION Spec
CONSTANTS
    u1 = u1
    u2 = u2
    k1 = k1
    k2 = k2
    k3 = k3
    timer = timer
    request = request
    None = None
    Users = {u1}
    Keys = {k1, k2}
    Drains = {timer}
    Timer = timer
    MaxCrashes = 1
INVARIANTS
    ShownPictureStays
    NothingLeaks
SYMMETRY KeySymmetry
