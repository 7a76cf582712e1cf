CONSTANTS
    Roots = {1, 2}
    Templates = {}
    MAX_REALMS = 2
    CLIPBOARD_LIFETIME = 1
    MaxLaunches = 0
    MaxPromotions = 0
    MaxAsks = 2
    Eager = {1}
    MaxTime = 0
SPECIFICATION Spec

PROPERTIES PauseEndsTheConstraint
CHECK_DEADLOCK FALSE
