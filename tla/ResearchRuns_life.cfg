SPECIFICATION Spec
CONSTANTS
    x1 = x1
    x2 = x2
    a1 = a1
    e1 = e1
    w1 = w1
    w2 = w2
    api = api
    AssetRun = {x1, x2}
    EventRun = {e1}
    AssetOf <- MCAssetOf
    Worker = {w1, w2}
    Api = {api}
    NoTask = NoTask
    MaxTask = 3
    MaxRequests = 2
    MaxUpsets = 1
SYMMETRY MCSymmetry
INVARIANTS
    
    
    RulesNeverTrade

    
    
CHECK_DEADLOCK FALSE
