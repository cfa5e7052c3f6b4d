\* The command and one API request, in a catalog of up to three categories.
CONSTANTS
    FirstId = 1
    LastId = 3
    food = food
    milk = milk
    oat = oat
    Names = {food, milk}
    CollationKey <- Keys
    PathMax = 3
    None = None
    Unchanged = Unchanged
    NoRow = NoRow
    Untouched = Untouched
    Seed = seed
    Requests = {seed, r1}
    Products = {oat}
    TREE <- Categories
    PRODUCTS <- Assortment
SPECIFICATION SeedSpec
VIEW WithoutAnswers
INVARIANTS
    SeedInv
    PathsAgree
    ContentsKeepTheirCategory
PROPERTIES
    SafeToRunRepeatedly
