SPECIFICATION Spec
CONSTANTS
    db = db
    jrn = jrn
    tmp = tmp
    Names = {db}
    NoName = NoName
    Slots = {s1, s2, s3}
    NoSlot = NoSlot
    Handles = {h1}
    Sidecars <- MCSidecars
    Anonymous = {}
    InitialCapacity = 2
    MaxChange = 2
SYMMETRY Symmetric
INVARIANTS
    TypeOK
    OwnedOnce
    QuarantineNeedsRecovery
PROPERTIES
    NamedSlotsAreNotRemoved
    SlotsAreNotLeaked
