SPECIFICATION FairSpec
CONSTANTS
    e1 = e1
    w1 = w1
    w2 = w2
    Event = {e1}
    Worker = {w1}
    NoTask = NoTask
    MaxTask = 4
    MaxTries = 2
    MaxRequests = 1
    MaxUpsets = 2
PROPERTIES
    OnlyBeatsRevive
    GhostsEnd
    MappingIsFollowed
    
CHECK_DEADLOCK FALSE
