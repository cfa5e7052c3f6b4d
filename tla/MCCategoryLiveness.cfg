\* Every request is answered, whatever the others do.
CONSTANTS
    FirstId = 9
    LastId = 10
    dairy = dairy
    DAIRY = DAIRY
    milk = milk
    Names = {dairy, milk}
    CollationKey <- MCCollationKey
    PathMax = 5
    Requests = {r1, r2}
    Products = {}
    None = None
    Unchanged = Unchanged
    NoRow = NoRow
    Untouched = Untouched
SPECIFICATION FairSpec
\* The model may stop: all ids are used up and no category is left.
CHECK_DEADLOCK FALSE
PROPERTIES
    EveryRequestAnswered
