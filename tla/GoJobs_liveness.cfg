SPECIFICATION FairSpec
CONSTANTS
    j1 = j1
    j2 = j2
    j3 = j3
    w1 = w1
    w2 = w2
    news = news
    extract = extract
    Job = {j1, j3}
    Worker = {w1, w2}
    NoWorker = NoWorker
    NoKey = NoKey
    NoJob = NoJob
    MaxAttempts = 3
    QueueOf <- MCQueueOf
    KeyOf <- MCKeyOf
    PriorityOf <- MCPriority
    ParentsOf <- MCParents
    QueuesOf <- MCQueuesOf
    Unhandled = {j3}
PROPERTIES
    SettlesUnlessParked
    CancellationStopsRunning
CHECK_DEADLOCK FALSE
