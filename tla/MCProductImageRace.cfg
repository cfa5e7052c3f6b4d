\* The promise of the README on files, against two requests on one product.
CONSTANTS
    LastId = 2
    LastFile = 3
    Skus = {oat, rye}
    Titles = {bread, flour}
    Requests = {r1, r2}
    Settings <- OnlyRacing
    NoImage = NoImage
    Upload = Upload
    NoRow = NoRow
    NoId = NoId
SPECIFICATION Spec
\* The model may stop: all ids and file names are used up.
CHECK_DEADLOCK FALSE
VIEW WithoutAnswers
SYMMETRY Symmetry
INVARIANTS
    FilesAreRemoved
