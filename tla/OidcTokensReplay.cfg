SPECIFICATION Spec
CONSTANTS
    u1 = u1
    s1 = s1
    c1 = c1
    k1 = k1
    k2 = k2
    r1 = r1
    r2 = r2
    r3 = r3
    a1 = a1
    a2 = a2
    a3 = a3
    x1 = x1
    Users = {u1}
    Sessions = {s1}
    Clients = {c1}
    Codes = {k1}
    RefreshTokens = {r1, r2, r3}
    AccessTokens = {a1, a2, a3}
    Scopes = {}
    Owner <- OneOwner
    Policies <- LongAndShort
    InitialPolicy <- Long
    SessionLifetimes = {1, 2}
    CodeLifetime = 1
    ClockSkew = 1
    MaxTime = 2
    None = None
INVARIANTS
    OneLiveTokenPerFamily
    FamilyDiesTogether
    ReplayedFamilyDead
    ExpiryAnchoredToRoot
    LoggedOutSessionHasNoLiveTokens
SYMMETRY TokenSymmetry
