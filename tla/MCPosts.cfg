SPECIFICATION Spec
CONSTANTS
    p1 = p1
    p2 = p2
    e1 = e1
    e2 = e2
    w1 = w1
    w2 = w2
    Post <- OnePost
    Request <- TwoRequests
    Worker <- TwoWorkers
    MaxTime = 2
    MaxUpdates = 2
    MaxFaults = 1
INVARIANTS TypeOK RowConsistent FirstPublicationAnnounced
PROPERTIES TrashedIsFrozen PublishedAtKept AnnouncedExactly HistoryRecoverable
SYMMETRY Symmetry
CHECK_DEADLOCK FALSE
