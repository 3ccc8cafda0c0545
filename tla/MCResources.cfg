SPECIFICATION AllSpec
CONSTANTS
    Gens = {"a", "b"}
    NoGen = ""
    OpIds = {"o1", "o2"}
    NoOp = "none"
    Replayed = {}
    LeaseTTL = 1
    TransferTO = 2
    Deltas = {1, 2}
    MaxToken = 3
    Callers = {"c1", "c2", "c3"}
    Tokens = {1, 2, 3}
    ResourceCount = 3
    CallBound = 4
    GrantBound = 5
    Capacity = 5
    Refill = 1
    Cost = 2
    MaxConcurrent = 2
    MaxTime = 4
INVARIANTS
    StaleIsStopped
    CheckInvariants
    VerifiedFirst
    SharedInOrder
    
PROPERTIES
    TokensAdvance
    
    NothingHangs
