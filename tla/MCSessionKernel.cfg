SPECIFICATION FairSpec
CONSTANTS
    c1 = c1
    c2 = c2
    alice = alice
    bob = bob
    Conns = {c1, c2}
    Identities = {alice, bob}
    Verbs = {"arrange", "pointer", "unserved"}
    ServedVerbs = {"arrange", "pointer"}
    ContendingVerbs = {"arrange", "pointer"}
    LayoutArrange = "arrange"
    Asks <- MCAsks
    ConsentTimeout = 1
    MaxPendingPerIdentity = 1
    MaxPendingGlobal = 2
    MaxRequests = 2
    MaxUses = 2
    MaxTime = 2
INVARIANTS
    TiedToConnections
    SealedMeansNoAuthority
    SingleArranger
    RowsCarryConsent
    WireOrder
PROPERTIES
    ImplementsAuthority
    PetitionsEnd
