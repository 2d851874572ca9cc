SPECIFICATION Spec
CONSTANTS
    u1 = u1
    u2 = u2
    e1 = e1
    e2 = e2
    p1 = p1
    p2 = p2
    c1 = c1
    c2 = c2
    c3 = c3
    None = None
    Users = {u1}
    Addresses = {e1, p1}
    Challenges = {c1, c2}
    ChannelOf <- ChannelsHere
    RegisteredBy <- ByEmail
    Limits = {2}
    LockoutDuration = 2
    Cooldown = 1
    CodeExpiry = 2
    RecoveryExpiry = 1
    ChallengeAttempts = 2
    MaxTime = 3
INVARIANTS
    LockIffExhausted
    LockKeepsUserLocked
    OneOpenChallengePerAddress
PROPERTIES
    LockNeverProlonged
    AcceptedFactorIsSound
SYMMETRY ChallengeSymmetry
CHECK_DEADLOCK FALSE
