SPECIFICATION FairSpec
CONSTANTS
    Buttons = {left}
    CardChoices = {allow}
    Guard = 1
    ConsentTimeout = 3
    PickerDeadline = 2
    LockAfter = 2
    BlankAfter = 1
    WakeDeadline = 1
    SeatChange = "Immediate"
    MaxPetitions = 0
    MaxDesignations = 1
    MaxInputs = 3
    MaxTime = 5
PROPERTIES WakeEnds 
