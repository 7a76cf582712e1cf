SPECIFICATION Spec
CONSTANTS
    Buttons = {left}
    CardChoices = {allow}
    Guard = 1
    ConsentTimeout = 3
    PickerDeadline = 2
    LockAfter = 2
    BlankAfter = 1
    WakeDeadline = 1
    SeatChange = "Idle"
    MaxPetitions = 1
    MaxDesignations = 1
    MaxInputs = 5
    MaxTime = 4
INVARIANTS DeliberateAnswers NoLatchedButton NoOrphanCard IdleIsCarried
PROPERTIES CardsRaisedInView
