\* The promise of the docstring, against two categories that changed places.
CONSTANTS
    FirstId = 8
    LastId = 10
    dairy = dairy
    milk = milk
    Names = {dairy, milk}
    CollationKey <- MCCollationKey
    StrayPaths <- NoStrayPaths
    PathMax = 5
    None = None
    Unchanged = Unchanged
    NoRow = NoRow
    Untouched = Untouched
SPECIFICATION Spec
\* The model may stop: all ids are used up and no category is left.
CHECK_DEADLOCK FALSE
SYMMETRY NameSymmetry
PROPERTIES
    RepairSucceeds
