SPECIFICATION FairSpec
CONSTANTS
    j1 = j1
    j2 = j2
    j3 = j3
    w1 = w1
    w2 = w2
    news = news
    extract = extract
    Job = {j1, j2}
    Worker = {w1}
    NoWorker = NoWorker
    NoKey = NoKey
    NoJob = NoJob
    MaxAttempts = 2
    QueueOf <- MCQueueOf
    KeyOf <- MCKeyOf
    PriorityOf <- MCPriority
    ParentsOf <- MCParents
    QueuesOf <- MCQueuesOf
    Unhandled = {}
PROPERTIES
    CancellationSettles
CHECK_DEADLOCK FALSE
