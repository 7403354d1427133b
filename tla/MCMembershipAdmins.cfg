SPECIFICATION Spec
CONSTANTS
    u1 = u1
    u2 = u2
    u3 = u3
    m1 = m1
    m2 = m2
    n1 = n1
    i1 = i1
    i2 = i2
    r1 = r1
    r2 = r2
    User <- Users
    Founder = u1
    Email <- Emails
    Username <- OneName
    Identity <- Identities
    Request <- Requests
    NoName = NoName
    SignupEnabled = TRUE
INVARIANT AdminRemains
CHECK_DEADLOCK FALSE
