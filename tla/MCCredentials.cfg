SPECIFICATION Spec
CONSTANTS
    u1 = u1
    t1 = t1
    t2 = t2
    r1 = r1
    r2 = r2
    s1 = s1
    User <- OneUser
    Token <- TwoTokens
    Request <- TwoRequests
    Session <- OneSession
    VerificationRequired = FALSE
    TTL = 2
    MaxTime = 4
    MaxPasswords = 3
INVARIANTS TypeOK TokensWorkOnce SessionsFollowPassword
SYMMETRY Symmetry
CHECK_DEADLOCK FALSE
