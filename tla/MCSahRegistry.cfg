SPECIFICATION Spec
CONSTANTS
    PoolNames = {"a", "b"}
    Directories = {d1, d2}
    ForeignNames = {"a", "memvfs"}
    Tasks = {t1, t2}
    NoTask = NoTask
    MaxCalls = 4
INVARIANTS
    TypeOK
    NoFreedVfsInList
    NamesAreUnique
    OnePoolPerDirectory
    ListedPoolsAreActive
PROPERTIES
    PromotionIsAsked
