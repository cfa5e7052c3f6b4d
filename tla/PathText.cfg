\* Ids that are one, two and three characters long, some the start of others.
CONSTANTS
    PathIds = {1, 5, 50, 105}
    MaxDepth = 2
SPECIFICATION Spec
\* Paths grow up to MaxDepth and stay there.
CHECK_DEADLOCK FALSE
INVARIANTS
    LengthAgrees
    PrefixAgrees
    CutAgrees
