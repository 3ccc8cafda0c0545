SPECIFICATION AllSpec
CONSTANTS
    g1 = g1
    g2 = g2
    Gens = {g1, g2}
    NoGen = NoGen
    NoOp = NoOp
    TTLs = {1}
    MaxSafeFencingToken = 3
    Callers = {c1, c2}
    Tokens = {1, 2}
    OpIds <- MCOpIds
    Asked <- MCAsked
    PostgresAsked <- MCPostgresAsked
    RedisAsked <- MCRedisAsked
    KubernetesAsked <- MCKubernetesAsked
    Clients = {"slow", "fast"}
    Skew <- MCSkew
    MaxSkew = 1
    LuaMaxExact = 9
    TokenBound = 3
    Second = 1
    DefaultLease = 2
SYMMETRY CallerSymmetry
INVARIANTS
    WellFormed
    RecordConsistent
    AcknowledgedCommitHappened
    LocalAgreesOnGrants
PROPERTIES
    ImplementsFencedClaim
    RemoteIsFenced
    
    ReplayIsInert
