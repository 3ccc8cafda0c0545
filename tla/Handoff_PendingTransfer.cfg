SPECIFICATION FairSpec
CONSTANTS
    Gens = {old, new}
    NoGen = NoGen
    Self = old
    Successor = new
    TTLs = {1}
    TTL = 1
    MaxSafeFencingToken = 2
    N = 1
    MaxWork = 1
    MaxFaults = 1
PROPERTIES
    PendingTransferEnds
