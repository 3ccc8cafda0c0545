SPECIFICATION AllSpec
INVARIANTS
    WellFormed
    LimitsHold
    DecisionsEarned
PROPERTIES
    StoppedMeansStopped
    
