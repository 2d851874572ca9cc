SPECIFICATION Spec
CONSTANTS
    u1 = u1
    u2 = u2
    a1 = a1
    a2 = a2
    p1 = p1
    s1 = s1
    k1 = k1
    t1 = t1
    t2 = t2
    q1 = q1
    q2 = q2
    None = None
    Users = {u1, u2}
    Addresses = {a1, a2}
    Providers = {p1}
    Subjects = {s1}
    ProviderOf <- OneProvider
    Passkeys = {k1}
    Rows = {t1, t2}
    Requests = {q1, q2}
    Lifetime = 1
    ExchangeMax = 1
    MaxTime = 2
CONSTRAINTS NoPasswords SignUpAllowed StartedAtOnce
INVARIANTS
    RowGrantsOnce
    IdentityIsFounded
PROPERTIES
    SubjectKeepsItsAccount
    MethodRemains
    LateByOneExchange
SYMMETRY Symmetry
CHECK_DEADLOCK FALSE
