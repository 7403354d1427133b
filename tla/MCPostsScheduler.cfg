SPECIFICATION Spec
CONSTANTS
    p1 = p1
    p2 = p2
    e1 = e1
    e2 = e2
    w1 = w1
    w2 = w2
    Post <- OnePost
    Request <- OneRequest
    Worker <- OneWorker
    MaxTime = 2
    MaxUpdates = 3
    MaxFaults = 0
PROPERTY SchedulerRechecks
CHECK_DEADLOCK FALSE
