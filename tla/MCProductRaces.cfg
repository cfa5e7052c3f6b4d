\* Two requests at a time: never two on one product, or on one too, and crashes.
CONSTANTS
    LastId = 2
    LastFile = 3
    Skus = {oat, rye}
    Titles = {bread, flour}
    Requests = {r1, r2}
    Settings <- CarefulOrWild
    NoImage = NoImage
    Upload = Upload
    NoRow = NoRow
    NoId = NoId
SPECIFICATION Spec
\* The model may stop: all ids and file names are used up.
CHECK_DEADLOCK FALSE
VIEW WithoutAnswers
SYMMETRY Symmetry
INVARIANTS
    TypeOK
    NothingLeftOver
    ImagesExist
    OneSkuPerId
PROPERTIES
    PatchWritesOnlyWhatWasSent
    SkuNeverChanges
