CONSTANTS
    Restaurants = {x1, x2}
    Categories = {k1, k2}
    Items = {i1, i2}
    None = None
    Gone = Gone
    MaxEdits = 4
SYMMETRY Symmetry
SPECIFICATION MenuSpec
INVARIANT HiddenOnlyIfMoved
CHECK_DEADLOCK FALSE
