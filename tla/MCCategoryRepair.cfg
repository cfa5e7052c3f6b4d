\* Every table of three categories that bulk updates can make, and its repair.
CONSTANTS
    FirstId = 8
    LastId = 10
    dairy = dairy
    milk = milk
    Names = {dairy, milk}
    CollationKey <- MCCollationKey
    StrayPaths <- MCStrayPaths
    PathMax = 5
    None = None
    Unchanged = Unchanged
    NoRow = NoRow
    Untouched = Untouched
SPECIFICATION Spec
\* The model may stop: all ids are used up and no category is left.
CHECK_DEADLOCK FALSE
SYMMETRY NameSymmetry
INVARIANTS
    TypeOK
PROPERTIES
    RepairRightsWhatItReaches
    ReportsWhatWasWrong
    ServiceSpreadsNoDamage
