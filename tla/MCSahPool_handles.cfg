SPECIFICATION Spec
CONSTANTS
    db = db
    jrn = jrn
    tmp = tmp
    Names = {db, tmp}
    NoName = NoName
    Slots = {s1, s2}
    NoSlot = NoSlot
    Handles = {h1, h2}
    Sidecars <- MCSidecars
    Anonymous = {tmp}
    InitialCapacity = 2
    MaxChange = 1
SYMMETRY Symmetric
INVARIANTS
    OpenFilesStayPut
    ReservationsHold
PROPERTIES
    ForeignVfsIsNotShadowed
    OpenFilesKeepTheirHeader
