\* Two categories, names that differ in case only, and a product in them.
CONSTANTS
    FirstId = 9
    LastId = 10
    dairy = dairy
    DAIRY = DAIRY
    milk = milk
    Names = {dairy, DAIRY, milk}
    CollationKey <- MCCollationKey
    PathMax = 20
    Requests = {r1, r2}
    Products = {p1}
    None = None
    Unchanged = Unchanged
    NoRow = NoRow
    Untouched = Untouched
SPECIFICATION Spec
\* The model may stop: all ids are used up and no category is left.
CHECK_DEADLOCK FALSE
VIEW WithoutAnswers
SYMMETRY RequestSymmetry
INVARIANTS
    KeepInv
    SiblingNamesUnique
    ContentsKeepTheirCategory
PROPERTIES
    SafetyNetUnused
    ImplementsForest
    ChangesOnlyWhatWasSent
