\* One user with a verified e-mail address, two challenges, two authenticators,
\* one recovery code and two sessions.
CONSTANTS
    None = None
    Users = {u1}
    Methods = {"password", "email_otp"}
    Standing = {"email_otp"}
    Challenges = {c1, c2}
    Enrollments = {e1, e2}
    RecoveryCodes = {k1}
    Sessions = {s1, s2}
    ChallengeTtl = 1
    MailTtl = 2
    PendingTtl = 1
    LockoutDuration = 1
    MaxAttempts = 1
    TotpWindow = 1
    MaxTime = 1
    MaxFailed = 1
    MaxWrong = 2
SPECIFICATION Spec
SYMMETRY Symmetry
CHECK_DEADLOCK FALSE
INVARIANT AttemptsAreBounded
