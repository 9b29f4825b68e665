SPECIFICATION Spec
CONSTANTS
    Workers = {w1, w2}
    Nobody = Nobody
    Slots = {s1, s2}
    Lock = Lock
    NoFile = NoFile
    MaxAttempts = 2
    Tasks = {t1}
INVARIANTS
    HandlesAreGranted
    DirectoryHasOnePool
    LeaseFindsSlotsFree

PROPERTIES
    AbandonedHandlesClose
    OperationsEnd
