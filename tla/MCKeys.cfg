SPECIFICATION FairSpec
CONSTANTS
    Nested = FALSE
    SecondLevel = {}
    MaxHand = 3
INVARIANTS
    NoLatchedKey
    HoldsAreJudgedByLength
    
    
PROPERTIES
    HoldEndsInTrigger
    EscapeIsAnswered
CHECK_DEADLOCK FALSE
