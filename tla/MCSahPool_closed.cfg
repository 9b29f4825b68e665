SPECIFICATION Spec
CONSTANTS
    db = db
    jrn = jrn
    tmp = tmp
    Names = {db, tmp}
    NoName = NoName
    Slots = {s1, s2}
    NoSlot = NoSlot
    Handles = {h1}
    Sidecars <- MCSidecars
    Anonymous = {tmp}
    InitialCapacity = 1
    MaxChange = 1
SYMMETRY Symmetric
INVARIANTS
    CloseDeletes
