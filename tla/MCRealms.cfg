SPECIFICATION Spec
CONSTANTS
    c1 = c1
    c2 = c2
    a = a
    b = b
INVARIANTS
    InputFollowsTheOutput
    OffersAreTheHumans
    
    OwedHalvesHaveATurn
    BuriedOnce
    
    
PROPERTIES
    NamesAreNotReused
    ImplementsDesignation
CHECK_DEADLOCK FALSE
