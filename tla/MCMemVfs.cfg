SPECIFICATION Spec
CONSTANTS
    Signature = 5
    Rollback = 1
    Sector = 3
    PageSizes = {3, 6}
    MaxPage = 6
    Names = {"db"}
    Anonymous = "anonymous"
    Rcs = {1, 2}
    NoFile = 0
    Handles = {h1}
    Imports = {i1}
    Exports = {e1}
    Images <- MCImages
    Sizes = {2, 3}
    Buffers <- MCBuffers
    Offsets = {1}
    Spoilt = Spoilt
INVARIANTS
    ExportsDeliverTheFile
PROPERTIES
    NamesAreNotTaken
    ImportsPublishTheImage
    CloseSparesReplacements
