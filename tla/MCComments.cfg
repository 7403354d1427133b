SPECIFICATION Spec
CONSTANTS
    c1 = c1
    c2 = c2
    p1 = p1
    p2 = p2
    u1 = u1
    r1 = r1
    r2 = r2
    Comment <- Comments2
    Post <- Posts2
    User <- Users1
    Request <- Requests2
    Nobody = Nobody
    Rejected = {"SPAM"}
    MaxEdits = 1
INVARIANTS TypeOK PublicTextApproved ThreadsIntact PageComplete PendingStaysPrivate
SYMMETRY Symmetry
CHECK_DEADLOCK FALSE
