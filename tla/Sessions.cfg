SPECIFICATION Spec
CONSTANTS
    u1 = u1
    u2 = u2
    admin = admin
    s1 = s1
    s2 = s2
    s3 = s3
    None = None
    Users = {u1, u2}
    BootstrapAdmins = {admin}
    Administrators = {u1, u2, admin}
    Sessions = {s1, s2, s3}
    Policies <- TwoPolicies
    Durations = {1, 2}
    ImpersonationMax = 1
    MaxTime = 1
    MaxCredentials = 2
    MaxPending = 1
INVARIANTS
    EverySessionIsTraceable
    AssuranceIsProved
PROPERTY
    RevokedSessionIsFrozen
SYMMETRY Symmetry
CHECK_DEADLOCK FALSE
