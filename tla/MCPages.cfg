SPECIFICATION Spec
CONSTANTS
    p1 = p1
    p2 = p2
    p3 = p3
    r1 = r1
    r2 = r2
    Page <- Pages3
    Request <- Requests2
    NoPage = NoPage
    MaxUpdates = 2
    MaxMoves = 2
INVARIANTS TypeOK ParentsExist ListingComplete PublishedPagesAnnounced
PROPERTIES CyclesNeedARace
SYMMETRY Symmetry
CHECK_DEADLOCK FALSE
