SPECIFICATION FairSpec
CONSTANTS
    p1 = p1
    p2 = p2
    e1 = e1
    e2 = e2
    w1 = w1
    w2 = w2
    Post <- TwoPosts
    Request <- OneRequest
    Worker <- OneWorker
    MaxTime = 2
    MaxUpdates = 1
    MaxFaults = 1
PROPERTY DuePublished
CHECK_DEADLOCK FALSE
