SPECIFICATION Spec
CONSTANTS
    Buttons = {left}
    CardChoices = {allow}
    Guard = 1
    ConsentTimeout = 3
    PickerDeadline = 2
    LockAfter = 2
    BlankAfter = 1
    WakeDeadline = 1
    SeatChange = "Never"
    MaxPetitions = 1
    MaxDesignations = 0
    MaxInputs = 5
    MaxTime = 5
INVARIANTS NoAnswerWhileLocked
