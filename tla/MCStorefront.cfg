CONSTANTS
    Restaurants = {x1, x2}
    Categories = {k1}
    Items = {i1}
    Carts = {c1, c2}
    Lines = {l1, l2}
    Requests = {r1, r2}
    None = None
    Gone = Gone
    NoJob = NoJob
    MaxTotal = 2
    MinOrderAmount = 2
    MaxEdits = 1
SYMMETRY Symmetry
SPECIFICATION Spec
INVARIANT OneRestaurantPerCart OrderedOnce
PROPERTY NothingVanishes
