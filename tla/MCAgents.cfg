SPECIFICATION AgentsSpec
CONSTANTS
    alice = alice
    bob = bob
    Identities = {alice, bob}
    Verbs = {"ACTUATE_POINTER", "ACTUATE_TEXT", "REALM_LAUNCH", "LAYOUT_FOCUS"}
    Wires = {1, 2, 3}
    Table <- TableMC
    Realms = {1, 2}
    Kinds = {"Pointer", "Text", "Launch", "LayoutFocus"}
    Second = 5
    Milli = 2
    HoldWindow = 1
    HoldCeiling = 2
    MaxUses = 4
    MaxInputs = 3
    MaxTime = 4
INVARIANTS
    RateIsBounded
    RetryHintIsHonest
    OwnershipIsCurrent
    PetitionCeilingIsExact
PROPERTIES
    RefusalsAreHeardOnce
    WindowBuysOneAct
    ObjectsAreNotRebound
CHECK_DEADLOCK FALSE
