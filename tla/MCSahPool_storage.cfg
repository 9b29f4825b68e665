SPECIFICATION Spec
CONSTANTS
    db = db
    jrn = jrn
    tmp = tmp
    Names = {db, jrn}
    NoName = NoName
    Slots = {s1, s2}
    NoSlot = NoSlot
    Handles = {h1}
    Sidecars <- MCSidecars
    Anonymous = {}
    InitialCapacity = 1
    MaxChange = 1
SYMMETRY Symmetric
INVARIANTS
    UnusedSlotsAreBlank
    OneSlotPerName
    MapIsTheDirectory
    AnswersAreDurable
    ImportMeetsNoJournal
    ImportsSurviveWhole
PROPERTIES
    ExportIsStable
