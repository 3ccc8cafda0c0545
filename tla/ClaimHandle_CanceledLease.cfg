SPECIFICATION FairSpec
CONSTANTS
    Gens = {g1, g2}
    NoGen = NoGen
    Self = g1
    TTLs = {1}
    TTL = 1
    MaxSafeFencingToken = 3
    Loops = {1, 2}
PROPERTY CanceledLeaseLosesClaim
