\* Searches of two and three pages, next to products and categories that change.
CONSTANTS
    FirstId = 1
    LastId = 3
    food = food
    dairy = dairy
    drinks = drinks
    Names = {food, dairy, drinks}
    CollationKey <- MCCollationKey
    PathMax = 20
    Products = {1, 2, 3}
    Sku <- MCSku
    ProductRows <- MCProductRows
    Queries <- MCQueries
    WordIn <- MCWordIn
    Normalized <- MCNormalized
    MaxWords = 2
    DefaultSize = 1
    MaxSize = 2
    None = None
    Unchanged = Unchanged
    NoRow = NoRow
    Untouched = Untouched
SPECIFICATION Spec
SYMMETRY NameSymmetry
INVARIANTS
    TypeOK
    FindsWhatIsMeant
    AMoveHidesTheSubtree
    PagesAddUp
