SPECIFICATION AllSpec
INVARIANTS
    WellFormed
    
    
    
    ResourcesSound
    GatesHold
PROPERTIES
    FencesAdvance
    
