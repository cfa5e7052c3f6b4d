\* The promise of the README on races, against a PATCH and a DELETE.
CONSTANTS
    LastId = 2
    LastFile = 3
    Skus = {oat, rye}
    Titles = {bread}
    Requests = {r1, r2}
    Settings <- OnlyRacing
    NoImage = NoImage
    Upload = Upload
    NoRow = NoRow
    NoId = NoId
SPECIFICATION Spec
\* The model may stop: all ids and file names are used up.
CHECK_DEADLOCK FALSE
INVARIANTS
    RacesAreConflicts
