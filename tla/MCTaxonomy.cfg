SPECIFICATION Spec
CONSTANTS
    p1 = p1
    p2 = p2
    c1 = c1
    c2 = c2
    t1 = t1
    r1 = r1
    r2 = r2
    r3 = r3
    Post <- Posts2
    Category <- Categories2
    Tag <- Tags1
    Request <- Requests3
    MaxConns = 2
    MaxRequests = 3
INVARIANTS TypeOK NothingDangles OnlyThePoolStopsAll
PROPERTIES ImplementsAssignments
SYMMETRY Symmetry
CHECK_DEADLOCK FALSE
