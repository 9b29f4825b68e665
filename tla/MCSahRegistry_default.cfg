SPECIFICATION Spec
CONSTANTS
    PoolNames = {"a", "b"}
    Directories = {d1, d2}
    ForeignNames = {"memvfs"}
    Tasks = {t1}
    NoTask = NoTask
    MaxCalls = 2
PROPERTIES
    ResumeRestoresDefault
