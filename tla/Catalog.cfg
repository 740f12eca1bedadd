SPECIFICATION CatalogSpec
CONSTANTS
    Item = {i1}
    Seed = {s1}
    Thread = {w1, w2}
    MaxRequests = 4
SYMMETRY Interchangeable
INVARIANTS
    CatalogTypeOK
    RowsAreSound

    
CHECK_DEADLOCK FALSE
