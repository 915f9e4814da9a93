SPECIFICATION NewsFairSpec
CONSTANTS
    n1 = n1
    d1 = d1
    d2 = d2
    d3 = d3
    d4 = d4
    m1 = m1
    w1 = w1
    scan = scan
    beat = beat
    extract = extract
    News = {n1}
    Job = {d1, d2, d3, d4, m1}
    Worker = {w1}
    Dispatcher = {scan, beat}
    NoWorker = NoWorker
    NoKey = NoKey
    NoJob = NoJob
    NoNews = NoNews
    MaxAttempts = 2
    MaxUpsets = 1
    MaxRequests = 0
    NewsOf <- MCNewsOf
    IdOf <- MCIdOf
    QueueOf <- MCQueueOf
    KeyOf <- MCKeyOf
    PriorityOf <- MCPriority
    ParentsOf <- MCParents
    QueuesOf <- MCQueuesOf
    Unhandled = {}
PROPERTIES
    NewsIsNotLost
CHECK_DEADLOCK FALSE
