SPECIFICATION Spec
CONSTANTS
    Connections = {c1, c2}
    Together = {}
    Once = {c1}
    MAX_OUTSTANDING = 2
    PICKER_DEADLINE = 2
    DELIVERY_DEADLINE = 1
    MaxAsks = 2
    MaxSteps = 1
    MaxTime = 2
CHECK_DEADLOCK FALSE
INVARIANTS DeathForgetsItsTickets
