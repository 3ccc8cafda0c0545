SPECIFICATION Spec
CONSTANTS
    Gens = {old, new}
    NoGen = NoGen
    Self = old
    Successor = new
    TTLs = {1}
    TTL = 1
    MaxSafeFencingToken = 2
    N = 2
    MaxWork = 1
    MaxFaults = 1
INVARIANTS
    TypeOK
    ReservedClaimIsIdle
    EpochIsOwn

    
